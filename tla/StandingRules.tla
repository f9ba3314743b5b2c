---------------------------- MODULE StandingRules ----------------------------
(***************************************************************************)
(* Approvals of one session (internal/ifc/session.go): users grant         *)
(* standing rules through POST /api/v1/sessions/{id}/approve, the          *)
(* maintenance loop prunes expired ones, and requests are checked against  *)
(* a snapshot of three separate reads.  The rules are protected by a lock; *)
(* the approval state is an atomic word beside it.                         *)
(***************************************************************************)
EXTENDS SinkEnforcer

CONSTANTS Granters, Checkers,   \* goroutines that grant and that check
          Scopes,               \* [effect, pattern] of the approval requests
          TTLs,                 \* ttl_seconds of the approval requests
          DefaultTTL, MaxTTL,   \* 1800 and 7200 in the code
          Requests,             \* [effects, resources, net] of tool calls
          MaxTime               \* bound of the clock

ASSUME TimeAssumption == /\ DefaultTTL \in Nat \ {0} /\ MaxTTL \in Nat /\ MaxTime \in Nat
                         /\ TTLs \subseteq Int
ASSUME ScopesAssumption == /\ Effects # {}
                           /\ Scopes \subseteq [effect : Effects, pattern : SUBSET Resources]

VARIABLES
  now,        \* wall clock
  tainted,    \* the taint bit of the session label (never cleared)
  rules,      \* standingRules, under rulesMu
  approval,   \* approvalState
  gpc, grule, gold,        \* granters: control, rule, loaded approval
  ppc, pnow,               \* the pruner: control, and the time it read
  cpc, creq, csnap,        \* checkers: control, request, snapshot
  acked,      \* history: rules whose approval request was answered
  cowed,      \* history: an answered rule covered the request when its check began
  verdict     \* the last decision of each checker, and whether a rule was owed

grantVars == <<gpc, grule, gold, acked>>
pruneVars == <<ppc, pnow>>
checkVars == <<cpc, creq, csnap, cowed, verdict>>
vars == <<now, tainted, rules, approval, grantVars, pruneVars, checkVars>>

Rules == [effect : Effects, pattern : SUBSET Resources, exp : Nat]
NoRule == [effect |-> CHOOSE e \in Effects : TRUE, pattern |-> {}, exp |-> 0]
NoSnap == [isTainted |-> FALSE, approval |-> ApprovalNone, rules |-> {}]
NoReq == [effects |-> {}, resources |-> {}, net |-> FALSE]
NoVerdict == [action |-> "allow", owed |-> FALSE, lawful |-> TRUE]

Init ==
  /\ now = 0 /\ tainted = FALSE /\ rules = {} /\ approval = ApprovalNone
  /\ gpc = [g \in Granters |-> "idle"]
  /\ grule = [g \in Granters |-> NoRule] /\ gold = [g \in Granters |-> ApprovalNone]
  /\ ppc = "idle" /\ pnow = 0
  /\ cpc = [c \in Checkers |-> "idle"] /\ creq = [c \in Checkers |-> NoReq]
  /\ csnap = [c \in Checkers |-> NoSnap] /\ cowed = [c \in Checkers |-> FALSE]
  /\ acked = {} /\ verdict = [c \in Checkers |-> NoVerdict]

Tick == /\ now < MaxTime /\ now' = now + 1
        /\ UNCHANGED <<tainted, rules, approval, grantVars, pruneVars, checkVars>>

(* TaintWithSecret, seen from here.                                        *)
Taint == /\ ~ tainted /\ tainted' = TRUE
         /\ UNCHANGED <<now, rules, approval, grantVars, pruneVars, checkVars>>

(* SetApprovalState: a plain store.  The only forward transition from      *)
(* every state is the blanket approval.                                    *)
SetApprovalState ==
  /\ approval # ApprovalSessionGranted
  /\ approval' = ApprovalSessionGranted
  /\ UNCHANGED <<now, tainted, rules, grantVars, pruneVars, checkVars>>

-----------------------------------------------------------------------------
(* handleApprove: validation, then the rule with its expiry.  A request    *)
(* with a ttl above the maximum is refused.                                *)
Expiry(ttl) == now + (IF ttl <= 0 THEN DefaultTTL ELSE ttl)

handleApprove(g) ==
  /\ gpc[g] = "idle"
  /\ \E sc \in Scopes, ttl \in TTLs :
       /\ ttl <= MaxTTL
       /\ grule' = [grule EXCEPT ![g] =
            [effect |-> sc.effect, pattern |-> sc.pattern, exp |-> Expiry(ttl)]]
  /\ gpc' = [gpc EXCEPT ![g] = "append"]
  /\ UNCHANGED <<now, tainted, rules, approval, gold, acked, pruneVars, checkVars>>

(* AddStandingRule: append under rulesMu ...                               *)
AddAppend(g) ==
  /\ gpc[g] = "append"
  /\ rules' = rules \cup {grule[g]}
  /\ gpc' = [gpc EXCEPT ![g] = "load"]
  /\ UNCHANGED <<now, tainted, approval, grule, gold, acked, pruneVars, checkVars>>

(* ... then the CAS loop on the approval state, which never goes down.     *)
AddLoad(g) ==
  /\ gpc[g] = "load"
  /\ \/ /\ approval >= ApprovalStandingRule
        /\ gpc' = [gpc EXCEPT ![g] = "answer"]
        /\ UNCHANGED gold
     \/ /\ approval < ApprovalStandingRule
        /\ gold' = [gold EXCEPT ![g] = approval]
        /\ gpc' = [gpc EXCEPT ![g] = "cas"]
  /\ UNCHANGED <<now, tainted, rules, approval, grule, acked, pruneVars, checkVars>>

AddCas(g) ==
  /\ gpc[g] = "cas"
  /\ \/ /\ approval = gold[g]
        /\ approval' = ApprovalStandingRule
        /\ gpc' = [gpc EXCEPT ![g] = "answer"]
     \/ /\ approval # gold[g]
        /\ gpc' = [gpc EXCEPT ![g] = "load"]
        /\ UNCHANGED approval
  /\ UNCHANGED <<now, tainted, rules, grule, gold, acked, pruneVars, checkVars>>

(* The HTTP response: the user is told that the rule stands.               *)
Answer(g) ==
  /\ gpc[g] = "answer"
  /\ acked' = acked \cup {grule[g]}
  /\ gpc' = [gpc EXCEPT ![g] = "idle"]
  /\ grule' = [grule EXCEPT ![g] = NoRule]
  /\ gold' = [gold EXCEPT ![g] = ApprovalNone]
  /\ UNCHANGED <<now, tainted, rules, approval, pruneVars, checkVars>>

-----------------------------------------------------------------------------
(* PruneExpiredRules: the time is read once, ...                           *)
PruneStart ==
  /\ ppc = "idle" /\ ppc' = "filter" /\ pnow' = now
  /\ UNCHANGED <<now, tainted, rules, approval, grantVars, checkVars>>

(* Mutant: the filter keeps only rules that live another whole period.     *)
PruneFilterEarly ==
  LET kept == {r \in rules : pnow + 1 < r.exp}
  IN  /\ ppc = "filter"
      /\ rules' = kept
      /\ ppc' = (IF kept = {} THEN "load" ELSE "idle") /\ pnow' = 0
      /\ UNCHANGED <<now, tainted, approval, grantVars, checkVars>>

(* ... the rules are filtered under rulesMu, ...                           *)
PruneFilter ==
  LET kept == {r \in rules : pnow < r.exp}
  IN  /\ ppc = "filter"
      /\ rules' = kept
      /\ ppc' = (IF kept = {} THEN "load" ELSE "idle") /\ pnow' = 0
      /\ UNCHANGED <<now, tainted, approval, grantVars, checkVars>>

(* ... and after the unlock a session without rules loses the state.       *)
PruneLoad ==
  /\ ppc = "load"
  /\ \/ approval # ApprovalStandingRule /\ ppc' = "idle"
     \/ approval = ApprovalStandingRule /\ ppc' = "cas"
  /\ UNCHANGED <<now, tainted, rules, approval, pnow, grantVars, checkVars>>

(* Mutant: the state is cleared without the CAS.                           *)
PruneStore ==
  /\ ppc = "cas" /\ ppc' = "idle" /\ approval' = ApprovalNone
  /\ UNCHANGED <<now, tainted, rules, pnow, grantVars, checkVars>>

(* Mutant: only the rules are removed, the state is left alone.            *)
PruneKeepsState ==
  /\ ppc = "cas" /\ ppc' = "idle"
  /\ UNCHANGED <<now, tainted, rules, approval, pnow, grantVars, checkVars>>

PruneCas ==
  /\ ppc = "cas"
  /\ \/ approval = ApprovalStandingRule /\ approval' = ApprovalNone /\ ppc' = "idle"
     \/ approval # ApprovalStandingRule /\ ppc' = "load" /\ UNCHANGED approval
  /\ UNCHANGED <<now, tainted, rules, pnow, grantVars, checkVars>>

-----------------------------------------------------------------------------
(* A request reaches Snapshot: the label is read first, ...                *)
SnapLabel(c) ==
  /\ cpc[c] = "idle"
  /\ \E req \in Requests :
       /\ creq' = [creq EXCEPT ![c] = req]
       /\ cowed' = [cowed EXCEPT ![c] = allResourcesCovered(acked, req, now)]
  /\ csnap' = [csnap EXCEPT ![c].isTainted = tainted]
  /\ verdict' = [verdict EXCEPT ![c] = NoVerdict]
  /\ cpc' = [cpc EXCEPT ![c] = "approval"]
  /\ UNCHANGED <<now, tainted, rules, approval, grantVars, pruneVars>>

(* ... then the approval state, ...                                        *)
SnapApproval(c) ==
  /\ cpc[c] = "approval"
  /\ csnap' = [csnap EXCEPT ![c].approval = approval]
  /\ cpc' = [cpc EXCEPT ![c] = "rules"]
  /\ UNCHANGED <<now, tainted, rules, approval, grantVars, pruneVars, creq, cowed, verdict>>

(* ... then a copy of the rules under RLock.                               *)
SnapRules(c) ==
  /\ cpc[c] = "rules"
  /\ csnap' = [csnap EXCEPT ![c].rules = rules]
  /\ cpc' = [cpc EXCEPT ![c] = "decide"]
  /\ UNCHANGED <<now, tainted, rules, approval, grantVars, pruneVars, creq, cowed, verdict>>

(* The rules whose append has happened, answered or not.                   *)
Granted == acked \cup {grule[g] : g \in {h \in Granters : gpc[h] \in {"load", "cas", "answer"}}}

(* What an allow needs: a clean snapshot, an ungated or internal request,  *)
(* the blanket approval, or resources that are all covered by unexpired    *)
(* rules that were granted.                                                *)
Lawful(snap, req) ==
  \/ ~ snap.isTainted \/ ~ isRestrictedSink(req)
  \/ ~ isExternalResource(req) /\ (req.resources # {} \/ ~ req.net)
  \/ approval = ApprovalSessionGranted
  \/ /\ req.resources # {}
     /\ \A res \in req.resources : \E r \in Granted :
          now <= r.exp /\ r.effect \in req.effects /\ res \in r.pattern

(* sink.Decision on the snapshot, with the time of the decision.  "owed":  *)
(* an answered rule covered the request from the start of its check to now.*)
Decide(c) ==
  /\ cpc[c] = "decide"
  /\ verdict' = [verdict EXCEPT ![c] =
       [action |-> Decision(csnap[c], creq[c], now),
        owed |-> cowed[c] /\ allResourcesCovered(acked, creq[c], now + 1),
        lawful |-> Lawful(csnap[c], creq[c])]]
  /\ cpc' = [cpc EXCEPT ![c] = "idle"]
  /\ creq' = [creq EXCEPT ![c] = NoReq]
  /\ csnap' = [csnap EXCEPT ![c] = NoSnap]
  /\ cowed' = [cowed EXCEPT ![c] = FALSE]
  /\ UNCHANGED <<now, tainted, rules, approval, grantVars, pruneVars>>

-----------------------------------------------------------------------------
Grant(g) == handleApprove(g) \/ AddAppend(g) \/ AddLoad(g) \/ AddCas(g) \/ Answer(g)
Prune == PruneStart \/ PruneFilter \/ PruneLoad \/ PruneCas
Check(c) == SnapLabel(c) \/ SnapApproval(c) \/ SnapRules(c) \/ Decide(c)

Next == \/ Tick \/ Taint \/ SetApprovalState \/ Prune
        \/ \E g \in Granters : Grant(g)
        \/ \E c \in Checkers : Check(c)

Spec == Init /\ [][Next]_vars

(* The maintenance loop prunes again and again, goroutines are scheduled   *)
(* and time passes.                                                        *)
FairSpec ==
  /\ Spec
  /\ WF_vars(Tick) /\ WF_vars(Prune)
  /\ \A g \in Granters : WF_vars(AddAppend(g) \/ AddLoad(g) \/ AddCas(g) \/ Answer(g))

-----------------------------------------------------------------------------
(* A rule that the user was told of stays in the session until it expires: *)
(* pruning, which filters and writes back the slice, loses no rule that is *)
(* added around it.                                                        *)
NoLostGrant == \A r \in acked : now < r.exp => r \in rules

(* A tainted session reaches an external sink only with the blanket        *)
(* approval or when unexpired granted rules cover all the resources,       *)
(* whatever is pruned or granted between the three reads of the snapshot.  *)
NoUnapprovedEgress == \A c \in Checkers : verdict[c].action = "allow" => verdict[c].lawful

(* Neither adding nor pruning rules demotes the blanket approval.          *)
SessionGrantSticks ==
  [][approval = ApprovalSessionGranted => approval' = ApprovalSessionGranted]_vars

(* A session does not stay in the standing-rule state without rules: the   *)
(* next round of the maintenance loop brings it back to none.              *)
StateEventuallyCleared ==
  (rules = {} /\ approval = ApprovalStandingRule)
    ~> (rules # {} \/ approval # ApprovalStandingRule)

(* "The NEXT request from the same session will see the granted approval": *)
(* a check that begins after the approval was answered, and is covered by  *)
(* the rule throughout, allows.                                            *)
GrantSeenByNextRequest ==
  \A c \in Checkers : verdict[c].owed => verdict[c].action = "allow"
=============================================================================
