------------------------------- MODULE Pipeline -------------------------------
(***************************************************************************)
(* The evaluation of check requests: PolicyEngine.Evaluate                 *)
(* (internal/policy/engine.go) and the connection handler around it        *)
(* (internal/daemon/handler.go), for requests that run concurrently on the *)
(* labels of shared sessions, with the spawn tokens that hand the taint of *)
(* a session to the sessions of its child agents.                          *)
(*                                                                         *)
(* A request is a record: its tool, the label its sender claims (own), the *)
(* label the labeler derives from its arguments (res), and what the sink   *)
(* check looks at (effects, resources, net).  What a layer finds in the    *)
(* arguments is a choice made when the layer runs.  Reads and writes of    *)
(* shared state are separate steps; a call of Elevate is one step, which   *)
(* SessionLabels shows it to be.                                           *)
(***************************************************************************)
EXTENDS SecurityLabel, SinkEnforcer

CONSTANTS Ids,             \* requests in flight at once
          Roots, Children, \* sessions started by a user, by an agent
          Tokens,          \* bound: spawn tokens that can be issued
          Requests,        \* the requests a sender may send
          Secrets,         \* credentials, security key, cryptographic
          HighConf,        \* confidentiality that makes an allow elevate (500)
          Rules,           \* standing rules an operator may grant
          NoToken, NoSession, NoRequest

Sessions == Roots \cup Children

ASSUME NoneAssumption ==
  NoSession \notin Sessions /\ NoToken \notin Tokens /\ NoRequest \notin Requests
ASSUME SecretsAssumption == Secrets \subseteq Categories
ASSUME HighConfAssumption == HighConf \in Nat

RequestRecords == [tool : {"Agent", "other"}, own : Labels, res : Labels,
                   effects : SUBSET Effects, resources : SUBSET Resources,
                   net : BOOLEAN]

(* No rule of the labeler carries the taint bit: only Elevate sets it.     *)
ASSUME RequestsAssumption ==
  /\ Requests \subseteq RequestRecords
  /\ \A q \in Requests : TaintBit \notin q.res.k

ASSUME RulesAssumption ==
  Rules \subseteq [effect : Effects, pattern : SUBSET Resources, exp : Nat]

VARIABLES label,     \* label[s]: the packed label of session s
          ceiling,   \* ceiling[s]: its ceiling; ZeroLabel = not set
          rules,     \* rules[s]: the standing rules granted to s
          tokState,  \* tokState[t]: what pendingSpawns holds for token t
          tokParent, \* tokParent[t]: the session token t was issued to
          env,       \* env[s]: NIXIS_SPAWN_TOKEN of the process of s
          rq,        \* rq[r]: the request r and where its goroutine is
          owed       \* owed[s]: why s may not egress, known from answers

vars == <<label, ceiling, rules, tokState, tokParent, env, rq, owed>>

TaintLabel == [c |-> 0, i |-> 0, k |-> {TaintBit}]

(* "secret": a request of s that touched a secret was answered.  "heir": a *)
(* request of s that claimed the token of a tainted parent was answered.   *)
Reasons == {"secret", "heir"}

Locations == {"idle", "enter", "isTainted", "taintChild", "readParent",
              "setCeiling", "classify", "dominates", "ceiling", "sink",
              "approval", "policies", "elevate", "spawn", "handle",
              "respond", "done"}

(* Inside validateAndPropagateTaint, after the token was claimed.          *)
Inheriting == {"isTainted", "taintChild", "readParent", "setCeiling"}

Layers == {"none", "early", "classify", "ifc", "ceiling", "sink", "policy", "scan"}

IdleRequest == [pc |-> "idle", s |-> NoSession, q |-> NoRequest, tok |-> NoToken,
                parent |-> NoSession, seen |-> ZeroLabel, act |-> "none",
                layer |-> "none", heir |-> FALSE, issued |-> NoToken, late |-> {}]

Init == /\ label = [s \in Sessions |-> ZeroLabel]
        /\ ceiling = [s \in Sessions |-> ZeroLabel]
        /\ rules = [s \in Sessions |-> {}]
        /\ tokState = [t \in Tokens |-> "unused"]
        /\ tokParent = [t \in Tokens |-> NoSession]
        /\ env = [s \in Sessions |-> NoToken]
        /\ rq = [r \in Ids |-> IdleRequest]
        /\ owed = [s \in Sessions |-> {}]
-----------------------------------------------------------------------------
(* Steps of request r.                                                     *)

Goto(r, l) == rq' = [rq EXCEPT ![r] = [@ EXCEPT !.pc = l]]

(* A layer decides: the rest of the evaluation is skipped.                 *)
Decide(r, action, layer) ==
  rq' = [rq EXCEPT ![r] = [@ EXCEPT !.pc = "handle", !.act = action, !.layer = layer]]

Elevate(s, l) == label' = [label EXCEPT ![s] = elevateLabel(@, l)]

TaintWithSecret(s) == Elevate(s, TaintLabel)

sessionState == <<label, ceiling, rules, env, owed>>
tokenState == <<tokState, tokParent>>

(* Bound: an agent call comes in only while a token is left for it.        *)
TokensLeft ==
  Cardinality({t \in Tokens : tokState[t] = "unused"}) >
  Cardinality({r \in Ids : rq[r].pc \notin {"idle", "done"} /\ rq[r].q.tool = "Agent"})

(* A hook connects and its request is read.  The hook puts the token of    *)
(* its environment in every request; a child agent runs with one.          *)
Receive(r) == \E s \in Sessions, x \in Requests :
  /\ rq[r].pc \in {"idle", "done"}
  /\ s \in Children => env[s] # NoToken
  /\ x.tool = "Agent" => TokensLeft
  /\ rq' = [rq EXCEPT ![r] = [IdleRequest EXCEPT
                !.pc = "enter", !.s = s, !.q = x, !.tok = env[s], !.late = owed[s]]]
  /\ UNCHANGED <<sessionState, tokenState>>

(* The self-protection guard refuses the request, or no snapshot has been  *)
(* loaded: nothing of the session, or of the token, is touched.            *)
DenyEarly(r) ==
  /\ rq[r].pc = "enter"
  /\ Decide(r, "deny", "early")
  /\ UNCHANGED <<sessionState, tokenState>>

(* validateAndPropagateTaint: LoadAndDelete of a token that is there and   *)
(* is not older than its TTL.                                              *)
ClaimFresh(r) ==
  /\ rq[r].pc = "enter" /\ rq[r].tok \in Tokens
  /\ tokState[rq[r].tok] = "pending"
  /\ tokState' = [tokState EXCEPT ![rq[r].tok] = "taken"]
  /\ rq' = [rq EXCEPT ![r] = [@ EXCEPT !.pc = "isTainted", !.heir = TRUE,
                                           !.parent = tokParent[rq[r].tok]]]
  /\ UNCHANGED <<sessionState, tokParent>>

(* No token, a token that is gone, or one that has expired (which the      *)
(* lookup deletes all the same): the request goes on as a root session's.  *)
ClaimNothing(r) ==
  /\ rq[r].pc = "enter"
  /\ rq[r].tok \in Tokens => tokState[rq[r].tok] # "pending"
  /\ tokState' = IF rq[r].tok \in Tokens /\ tokState[rq[r].tok] = "stale"
                 THEN [tokState EXCEPT ![rq[r].tok] = "lapsed"] ELSE tokState
  /\ Goto(r, "classify")
  /\ UNCHANGED <<sessionState, tokParent>>

(* Mutant: the taint of the child is looked at, not of its parent.         *)
SeeParentOfChild(r) ==
  /\ rq[r].pc = "isTainted"
  /\ Goto(r, IF Tainted(label[rq[r].s]) THEN "taintChild" ELSE "readParent")
  /\ UNCHANGED <<sessionState, tokenState>>

(* propagateParentState, in its four accesses to the registry.             *)
SeeParent(r) ==
  /\ rq[r].pc = "isTainted"
  /\ Goto(r, IF Tainted(label[rq[r].parent]) THEN "taintChild" ELSE "readParent")
  /\ UNCHANGED <<sessionState, tokenState>>

TaintChild(r) ==
  /\ rq[r].pc = "taintChild"
  /\ TaintWithSecret(rq[r].s)
  /\ Goto(r, "readParent")
  /\ UNCHANGED <<ceiling, rules, env, owed, tokenState>>

ReadParent(r) ==
  /\ rq[r].pc = "readParent"
  /\ LET p == label[rq[r].parent]
         next == IF p = ZeroLabel THEN "classify" ELSE "setCeiling"
     IN  rq' = [rq EXCEPT ![r] = [@ EXCEPT !.pc = next, !.seen = p]]
  /\ UNCHANGED <<sessionState, tokenState>>

(* InitWithCeiling: a compare-and-swap that only fires on an unset ceiling.*)
SetCeiling(r) ==
  /\ rq[r].pc = "setCeiling"
  /\ ceiling' = IF ceiling[rq[r].s] = ZeroLabel
                THEN [ceiling EXCEPT ![rq[r].s] = rq[r].seen] ELSE ceiling
  /\ Goto(r, "classify")
  /\ UNCHANGED <<label, rules, env, owed, tokenState>>

(* The tool is of critical risk, or its arguments fail their schema.       *)
DenyClassified(r) ==
  /\ rq[r].pc = "classify"
  /\ Decide(r, "deny", "classify")
  /\ UNCHANGED <<sessionState, tokenState>>

resourceLabel(x) == IF x.res = ZeroLabel THEN x.own ELSE x.res

touchesSecret(x) == resourceLabel(x).k \cap Secrets # {}

(* Mutant: only an access that the dominance check will pass taints.       *)
MaybeTaintDominated(r) ==
  /\ rq[r].pc = "classify"
  /\ IF touchesSecret(rq[r].q) /\ Dominates(label[rq[r].s], resourceLabel(rq[r].q))
     THEN TaintWithSecret(rq[r].s) ELSE UNCHANGED label
  /\ Goto(r, "dominates")
  /\ UNCHANGED <<ceiling, rules, env, owed, tokenState>>

(* maybeTaint: the session is tainted before any check can refuse, also    *)
(* when the access is then denied.                                         *)
MaybeTaint(r) ==
  /\ rq[r].pc = "classify"
  /\ IF touchesSecret(rq[r].q) THEN TaintWithSecret(rq[r].s) ELSE UNCHANGED label
  /\ Goto(r, "dominates")
  /\ UNCHANGED <<ceiling, rules, env, owed, tokenState>>

(* The session label is read once, for this check and for the next.        *)
CheckDominates(r) ==
  LET l == label[rq[r].s]
  IN  /\ rq[r].pc = "dominates"
      /\ \/ /\ Dominates(l, resourceLabel(rq[r].q))
            /\ rq' = [rq EXCEPT ![r] = [@ EXCEPT !.pc = "ceiling", !.seen = l]]
         \/ /\ ~ Dominates(l, resourceLabel(rq[r].q))
            /\ rq' = [rq EXCEPT ![r] = [@ EXCEPT !.pc = "handle", !.seen = l,
                                                 !.act = "deny", !.layer = "ifc"]]
      /\ UNCHANGED <<sessionState, tokenState>>

(* A ceiling that was never set is the maximum label.                      *)
Ceiling(s) == IF ceiling[s] = ZeroLabel THEN MaxLabel ELSE ceiling[s]

CheckCeiling(r) ==
  /\ rq[r].pc = "ceiling"
  /\ IF Dominates(Ceiling(rq[r].s), rq[r].seen)
     THEN Goto(r, "sink") ELSE Decide(r, "deny", "ceiling")
  /\ UNCHANGED <<sessionState, tokenState>>

(* Snapshot reads the label, then the approval state and the rules.        *)
SnapshotLabel(r) ==
  /\ rq[r].pc = "sink"
  /\ rq' = [rq EXCEPT ![r] = [@ EXCEPT !.pc = "approval", !.seen = label[rq[r].s]]]
  /\ UNCHANGED <<sessionState, tokenState>>

CheckSink(r) ==
  LET snap == [isTainted |-> Tainted(rq[r].seen), rules |-> rules[rq[r].s],
               approval |-> IF rules[rq[r].s] = {} THEN ApprovalNone
                                                   ELSE ApprovalStandingRule]
  IN  /\ rq[r].pc = "approval"
      /\ IF Decision(snap, rq[r].q, 0) = "allow"
         THEN Goto(r, "policies") ELSE Decide(r, "deny", "sink")
      /\ UNCHANGED <<sessionState, tokenState>>

(* A CEL policy, an error of a DENY policy, a panic or the delegation      *)
(* validator refuses; or a policy or an incomplete scan asks for approval. *)
PoliciesDecide(r) == \E action \in {"deny", "require_approval"} :
  /\ rq[r].pc = "policies"
  /\ Decide(r, action, "policy")
  /\ UNCHANGED <<sessionState, tokenState>>

(* The scanner finds a secret in the arguments.                            *)
ScanFinds(r) ==
  /\ rq[r].pc = "policies"
  /\ TaintWithSecret(rq[r].s)
  /\ Decide(r, "require_approval", "scan")
  /\ UNCHANGED <<ceiling, rules, env, owed, tokenState>>

PoliciesPass(r) ==
  /\ rq[r].pc = "policies"
  /\ Goto(r, "elevate")
  /\ UNCHANGED <<sessionState, tokenState>>

ElevateAllowed(r) ==
  /\ rq[r].pc = "elevate"
  /\ IF resourceLabel(rq[r].q).c >= HighConf
     THEN Elevate(rq[r].s, resourceLabel(rq[r].q)) ELSE UNCHANGED label
  /\ Goto(r, "spawn")
  /\ UNCHANGED <<ceiling, rules, env, owed, tokenState>>

(* An agent of a tainted session gets a fresh token for its child.         *)
AllowAgent(r) == \E t \in Tokens :
  /\ rq[r].pc = "spawn"
  /\ rq[r].q.tool = "Agent" /\ Tainted(label[rq[r].s])
  /\ tokState[t] = "unused"
  /\ tokState' = [tokState EXCEPT ![t] = "pending"]
  /\ tokParent' = [tokParent EXCEPT ![t] = rq[r].s]
  /\ rq' = [rq EXCEPT ![r] = [@ EXCEPT !.pc = "handle", !.act = "allow", !.issued = t]]
  /\ UNCHANGED sessionState

Allow(r) ==
  /\ rq[r].pc = "spawn"
  /\ ~ (rq[r].q.tool = "Agent" /\ Tainted(label[rq[r].s]))
  /\ Decide(r, "allow", "none")
  /\ UNCHANGED <<sessionState, tokenState>>

(* Mutant: the handler elevates whatever the decision was.                 *)
HandleAlways(r) ==
  /\ rq[r].pc = "handle"
  /\ Elevate(rq[r].s, rq[r].q.own)
  /\ Goto(r, "respond")
  /\ UNCHANGED <<ceiling, rules, env, owed, tokenState>>

(* handleConnection after Evaluate: unless the answer is a deny, the       *)
(* session is elevated by the label the sender claimed.                    *)
Handle(r) ==
  /\ rq[r].pc = "handle"
  /\ IF rq[r].act # "deny" THEN Elevate(rq[r].s, rq[r].q.own) ELSE UNCHANGED label
  /\ Goto(r, "respond")
  /\ UNCHANGED <<ceiling, rules, env, owed, tokenState>>

(* Did this request touch a secret in a way the engine is to remember?     *)
touched(r) == \/ rq[r].layer = "scan"
              \/ /\ rq[r].layer \notin {"early", "classify"}
                 /\ touchesSecret(rq[r].q)

(* The response is written, the record queued and the event emitted (see   *)
(* AuditWriter and StreamHub).  From here the sender may act on the answer.*)
Respond(r) ==
  /\ rq[r].pc = "respond"
  /\ owed' = [owed EXCEPT ![rq[r].s] = @ \cup {x \in Reasons :
                  \/ x = "secret" /\ touched(r)
                  \/ x = "heir" /\ rq[r].heir}]
  /\ Goto(r, "done")
  /\ UNCHANGED <<label, ceiling, rules, env, tokenState>>
-----------------------------------------------------------------------------
(* The world around the daemon.                                            *)

(* The agent that was allowed starts its child with the token it was given.*)
StartChild(c) == \E r \in Ids :
  /\ env[c] = NoToken
  /\ rq[r].pc = "done" /\ rq[r].issued # NoToken
  /\ \A d \in Children : env[d] # rq[r].issued
  /\ env' = [env EXCEPT ![c] = rq[r].issued]
  /\ UNCHANGED <<label, ceiling, rules, rq, owed, tokenState>>

(* Thirty seconds pass before the token is claimed.                        *)
Expire(t) ==
  /\ tokState[t] = "pending"
  /\ tokState' = [tokState EXCEPT ![t] = "stale"]
  /\ UNCHANGED <<sessionState, tokParent, rq>>

(* The operator approves a rule for a session.                             *)
Grant(s) == \E x \in Rules \ rules[s] :
  /\ rules' = [rules EXCEPT ![s] = @ \cup {x}]
  /\ UNCHANGED <<label, ceiling, env, rq, owed, tokenState>>

Evaluate(r) ==
  \/ DenyEarly(r) \/ ClaimFresh(r) \/ ClaimNothing(r)
  \/ SeeParent(r) \/ TaintChild(r) \/ ReadParent(r) \/ SetCeiling(r)
  \/ DenyClassified(r) \/ MaybeTaint(r) \/ CheckDominates(r) \/ CheckCeiling(r)
  \/ SnapshotLabel(r) \/ CheckSink(r)
  \/ PoliciesDecide(r) \/ ScanFinds(r) \/ PoliciesPass(r)
  \/ ElevateAllowed(r) \/ AllowAgent(r) \/ Allow(r)

Next == \/ \E r \in Ids : Receive(r) \/ Evaluate(r) \/ Handle(r) \/ Respond(r)
        \/ \E c \in Children : StartChild(c)
        \/ \E t \in Tokens : Expire(t)
        \/ \E s \in Sessions : Grant(s)

Spec == Init /\ [][Next]_vars
-----------------------------------------------------------------------------
RequestStates ==
  [pc : Locations, s : Sessions \cup {NoSession}, q : Requests \cup {NoRequest},
   tok : Tokens \cup {NoToken}, parent : Sessions \cup {NoSession}, seen : Labels,
   act : {"none", "allow", "deny", "require_approval"}, layer : Layers,
   heir : BOOLEAN, issued : Tokens \cup {NoToken}, late : SUBSET Reasons]

(* The variables have their types; a request that was received has a       *)
(* session and a body, one that claimed a token is the one that inherits   *)
(* and knows the parent, and a token that was issued names the session it  *)
(* was issued to.                                                          *)
TypeOK ==
  /\ label \in [Sessions -> Labels]
  /\ ceiling \in [Sessions -> Labels]
  /\ rules \in [Sessions -> SUBSET Rules]
  /\ tokState \in [Tokens -> {"unused", "pending", "stale", "taken", "lapsed"}]
  /\ tokParent \in [Tokens -> Sessions \cup {NoSession}]
  /\ env \in [Sessions -> Tokens \cup {NoToken}]
  /\ owed \in [Sessions -> SUBSET Reasons]
  /\ rq \in [Ids -> RequestStates]
  /\ \A r \in Ids : rq[r].pc # "idle" => rq[r].s \in Sessions /\ rq[r].q \in Requests
  /\ \A r \in Ids : rq[r].heir => rq[r].parent \in Sessions
  /\ \A r \in Ids : rq[r].pc \in Inheriting => rq[r].heir
  /\ \A t \in Tokens : tokState[t] # "unused" => tokParent[t] \in Sessions

(* A request that a tainted session may only make with an approval: a      *)
(* restricted sink and a destination that is external or unknown.          *)
egress(x) == /\ isRestrictedSink(x)
             /\ isExternalResource(x) \/ (x.net /\ x.resources = {})

allowedEgress(r) == rq[r].act = "allow" /\ egress(rq[r].q)

approved(r) == allResourcesCovered(rules[rq[r].s], rq[r].q, 0)

(* Once a request of a session that touched a secret has been answered,    *)
(* allowed or not, no egress of that session that arrives later is allowed *)
(* without an approval, however many other requests of the session run at  *)
(* the same time: maybeTaint comes before every check that can refuse, and *)
(* the sink check reads the label afterwards (engine.go 347, 379).         *)
EgressAfterSecretDenied == \A r \in Ids :
  allowedEgress(r) /\ "secret" \in rq[r].late => approved(r)

(* Once a request of a child session that claimed the spawn token of a     *)
(* tainted parent has been answered, no later egress of the child is       *)
(* allowed without an approval: the token is only issued to a tainted      *)
(* session and taint is never taken back, so the claim finds the parent    *)
(* tainted (engine.go 530, 921-955).                                       *)
ChildEgressDenied == \A r \in Ids :
  allowedEgress(r) /\ "heir" \in rq[r].late => approved(r)

(* Whatever labels senders claim and resources have, the label of a        *)
(* session is zero or the bare taint bit: the dominance check lets a       *)
(* session through only to what its label already dominates, so neither    *)
(* the elevation of an allowed access (engine.go 524) nor that of the      *)
(* handler (handler.go 149) can raise it.                                  *)
LabelsZeroOrTaint == \A s \in Sessions : label[s] \in {ZeroLabel, TaintLabel}

(* The ceiling a child gets from its parent never refuses a request: it is *)
(* taken from a tainted parent after the child was tainted, so it allows   *)
(* all that the child can ever hold (engine.go 369, 953).                  *)
CeilingNeverDenies == \A r \in Ids : rq[r].layer # "ceiling"

=============================================================================
