------------------------- MODULE StandingRulesProofs -------------------------
(***************************************************************************)
(* Approvals of a session, for any number of goroutines that grant and     *)
(* check, any requests, any scopes and lifetimes of rules.                 *)
(***************************************************************************)
EXTENDS StandingRules, TLAPS

Approvals == ApprovalNone .. ApprovalSessionGranted
GrantStates == {"idle", "append", "load", "cas", "answer"}
Snapshots == [isTainted : BOOLEAN, approval : Approvals, rules : SUBSET Rules]

ClockTypes ==
  /\ now \in Nat /\ tainted \in BOOLEAN /\ rules \subseteq Rules /\ approval \in Approvals
  /\ pnow \in Nat
GrantTypes ==
  /\ gpc \in [Granters -> GrantStates] /\ grule \in [Granters -> Rules]
  /\ gold \in [Granters -> Approvals] /\ acked \subseteq Rules
CheckTypes ==
  /\ cpc \in [Checkers -> {"idle", "approval", "rules", "decide"}]
  /\ csnap \in [Checkers -> Snapshots]
  /\ verdict = [c \in Checkers |-> verdict[c]]
Types == ClockTypes /\ GrantTypes /\ CheckTypes

(* The session holds granted rules only, and all of them that have not     *)
(* expired; the pruner compares with a time that has passed.               *)
RulesExact ==
  /\ rules \subseteq Granted
  /\ \A r \in Granted : now < r.exp => r \in rules
  /\ pnow <= now

(* The loop of AddStandingRule swaps only what is below the new state.     *)
SwapsUp == \A g \in Granters : gpc[g] = "cas" => gold[g] < ApprovalStandingRule

(* A snapshot is old, but what it holds was granted and still is.          *)
SnapSound(c) ==
  /\ cpc[c] \in {"rules", "decide"} /\ csnap[c].approval = ApprovalSessionGranted
       => approval = ApprovalSessionGranted
  /\ cpc[c] = "decide" => csnap[c].rules \subseteq Granted

Inv == /\ Types /\ RulesExact /\ SwapsUp
       /\ \A c \in Checkers : SnapSound(c)
       /\ NoUnapprovedEgress

-----------------------------------------------------------------------------
(* A decision to allow is lawful when the snapshot is sound.               *)
LEMMA AllowIsLawful ==
  ASSUME NEW snap, NEW req, Decision(snap, req, now) = "allow",
         snap.approval = ApprovalSessionGranted => approval = ApprovalSessionGranted,
         snap.rules \subseteq Granted
  PROVE  Lawful(snap, req)
<1>1. CASE allResourcesCovered(snap.rules, req, now)
  BY <1>1 DEF allResourcesCovered, Lawful
<1>2. CASE ~ allResourcesCovered(snap.rules, req, now)
  BY <1>2 DEF Decision, Lawful
<1> QED
  BY <1>1, <1>2

LEMMA NoRuleType == NoRule \in Rules
BY ScopesAssumption DEF NoRule, Rules

LEMMA NoSnapType == NoSnap \in Snapshots
BY DEF NoSnap, Snapshots, Approvals, ApprovalNone, ApprovalSessionGranted

LEMMA InitInv == Init => Inv
<1> SUFFICES ASSUME Init PROVE Inv
  OBVIOUS
<1>a. ApprovalNone \in Approvals
  BY DEF Approvals, ApprovalNone, ApprovalSessionGranted
<1>b. ClockTypes
  BY <1>a DEF Init, ClockTypes
<1>1. ClockTypes /\ GrantTypes
  BY <1>a, <1>b, NoRuleType DEF Init, GrantTypes, GrantStates
<1>3. CheckTypes
  BY NoSnapType DEF Init, CheckTypes
<1>2. Granted = {}
  BY DEF Init, Granted
<1> QED
  BY <1>1, <1>2, <1>3 DEF Init, Types, Inv, RulesExact, SwapsUp, SnapSound, NoUnapprovedEgress, NoVerdict

-----------------------------------------------------------------------------
(* What the steps of a granter do to what is granted.                      *)
LEMMA GrantedGrows ==
  ASSUME Types, [Next]_vars
  PROVE  /\ Granted \subseteq Granted'
         /\ (\A g \in Granters : ~ AddAppend(g)) => Granted' = Granted
         /\ \A g \in Granters : AddAppend(g) => Granted' = Granted \cup {grule[g]}
<1> DEFINE Past == {"load", "cas", "answer"}
           Holder(g) == gpc[g] \in Past
<1>0. GrantTypes
  BY DEF Types
<1>1. \A r : r \in Granted <=> r \in acked \/ \E h \in Granters : Holder(h) /\ r = grule[h]
  BY DEF Granted
<1>2. \A r : r \in Granted' <=> r \in acked' \/ \E h \in Granters : Holder(h)' /\ r = grule'[h]
  BY DEF Granted
<1>3. ASSUME NEW g \in Granters, handleApprove(g) PROVE Granted' = Granted
  <2>1. /\ ~ Holder(g) /\ ~ Holder(g)' /\ acked' = acked
        /\ \A h \in Granters : h # g => gpc'[h] = gpc[h] /\ grule'[h] = grule[h]
    BY <1>0, <1>3 DEF handleApprove, GrantTypes
  <2>2. \A h \in Granters : (Holder(h)' <=> Holder(h)) /\ (Holder(h) => grule'[h] = grule[h])
    BY <2>1
  <2> HIDE DEF Holder
  <2> QED
    BY <1>1, <1>2, <2>1, <2>2
<1>4. ASSUME NEW g \in Granters, AddAppend(g) PROVE Granted' = Granted \cup {grule[g]}
  <2>1. /\ ~ Holder(g) /\ Holder(g)' /\ acked' = acked /\ grule' = grule
        /\ \A h \in Granters : h # g => gpc'[h] = gpc[h]
    BY <1>0, <1>4 DEF AddAppend, GrantTypes
  <2> QED
    BY <1>1, <1>2, <2>1
<1>5. ASSUME NEW g \in Granters, AddLoad(g) \/ AddCas(g) PROVE Granted' = Granted
  <2>1. /\ Holder(g) /\ Holder(g)' /\ acked' = acked /\ grule' = grule
        /\ \A h \in Granters : h # g => gpc'[h] = gpc[h]
    BY <1>0, <1>5 DEF AddLoad, AddCas, GrantTypes
  <2> QED
    BY <1>1, <1>2, <2>1
<1>6. ASSUME NEW g \in Granters, Answer(g) PROVE Granted' = Granted
  <2>1. /\ Holder(g) /\ ~ Holder(g)' /\ acked' = acked \cup {grule[g]}
        /\ \A h \in Granters : h # g => gpc'[h] = gpc[h] /\ grule'[h] = grule[h]
    BY <1>0, <1>6 DEF Answer, GrantTypes
  <2> QED
    BY <1>1, <1>2, <2>1
<1>7. ASSUME UNCHANGED grantVars PROVE Granted' = Granted
  BY <1>7 DEF grantVars, Granted
<1>8. ASSUME NEW g \in Granters, AddAppend(g), NEW h \in Granters, AddAppend(h)
      PROVE  grule[g] = grule[h]
  <2>1. g = h
    BY <1>0, <1>8 DEF AddAppend, GrantTypes
  <2> QED
    BY <2>1
<1>9. \/ UNCHANGED grantVars
      \/ \E g \in Granters : Grant(g)
  BY DEF Next, vars, Tick, Taint, SetApprovalState, Prune, PruneStart, PruneFilter, PruneLoad,
         PruneCas, Check, SnapLabel, SnapApproval, SnapRules, Decide
<1>10. Granted \subseteq Granted'
  BY <1>3, <1>4, <1>5, <1>6, <1>7, <1>9 DEF Grant
<1>11. (\A g \in Granters : ~ AddAppend(g)) => Granted' = Granted
  BY <1>3, <1>5, <1>6, <1>7, <1>9 DEF Grant
<1> QED
  BY <1>4, <1>10, <1>11

(* The new rule of an approval request.                                    *)
LEMMA NewRule ==
  ASSUME now \in Nat, NEW sc \in Scopes, NEW ttl \in TTLs
  PROVE  [effect |-> sc.effect, pattern |-> sc.pattern, exp |-> Expiry(ttl)] \in Rules
<1>1. sc.effect \in Effects /\ sc.pattern \in SUBSET Resources
  BY ScopesAssumption
<1>2. Expiry(ttl) \in Nat
  <2>1. ttl \in Int /\ DefaultTTL \in Nat
    BY TimeAssumption
  <2> QED
    BY <2>1 DEF Expiry
<1> QED
  BY <1>1, <1>2 DEF Rules

LEMMA ClockTypesStep ==
  ASSUME Types, [Next]_vars
  PROVE  ClockTypes'
<1> USE DEF ClockTypes, Approvals, ApprovalNone, ApprovalStandingRule, ApprovalSessionGranted
<1>0. ClockTypes /\ GrantTypes
  BY DEF Types
<1>1. CASE Tick \/ SetApprovalState
  BY <1>0, <1>1 DEF Tick, SetApprovalState, pruneVars
<1>6. CASE Taint
  <2>1. tainted' \in BOOLEAN /\ UNCHANGED <<now, rules, approval, pnow>>
    BY <1>6 DEF Taint, pruneVars
  <2> QED
    BY <1>0, <2>1
<1>2. CASE Prune
  BY <1>0, <1>2 DEF Prune, PruneStart, PruneFilter, PruneLoad, PruneCas
<1>3. ASSUME NEW g \in Granters, Grant(g) PROVE ClockTypes'
  <2>1. grule[g] \in Rules
    BY <1>0 DEF GrantTypes
  <2> QED
    BY <1>0, <1>3, <2>1 DEF Grant, handleApprove, AddAppend, AddLoad, AddCas, Answer, pruneVars
<1>4. ASSUME NEW c \in Checkers, Check(c) PROVE ClockTypes'
  BY <1>0, <1>4 DEF Check, SnapLabel, SnapApproval, SnapRules, Decide, pruneVars
<1>5. CASE UNCHANGED vars
  BY <1>0, <1>5 DEF vars, pruneVars
<1> QED
  BY <1>1, <1>2, <1>3, <1>4, <1>5, <1>6 DEF Next

LEMMA GrantTypesStep ==
  ASSUME Types, [Next]_vars
  PROVE  GrantTypes'
<1>0. GrantTypes /\ approval \in Approvals /\ now \in Nat
  BY DEF Types, ClockTypes
<1>1. CASE UNCHANGED grantVars
  BY <1>0, <1>1 DEF GrantTypes, grantVars
<1>2. ASSUME NEW g \in Granters, handleApprove(g) PROVE GrantTypes'
  <2>1. \E r \in Rules : grule' = [grule EXCEPT ![g] = r]
    BY <1>0, <1>2, NewRule DEF handleApprove
  <2>2. gpc' = [gpc EXCEPT ![g] = "append"] /\ UNCHANGED <<gold, acked>>
    BY <1>2 DEF handleApprove
  <2> QED
    BY <1>0, <2>1, <2>2 DEF GrantTypes, GrantStates
<1>3. ASSUME NEW g \in Granters, AddAppend(g) \/ AddLoad(g) \/ AddCas(g) PROVE GrantTypes'
  <2>1. \E q \in GrantStates : gpc' = [gpc EXCEPT ![g] = q]
    BY <1>3 DEF AddAppend, AddLoad, AddCas, GrantStates
  <2>2. gold' = gold \/ gold' = [gold EXCEPT ![g] = approval]
    BY <1>3 DEF AddAppend, AddLoad, AddCas
  <2>3. UNCHANGED <<grule, acked>>
    BY <1>3 DEF AddAppend, AddLoad, AddCas
  <2> QED
    BY <1>0, <2>1, <2>2, <2>3 DEF GrantTypes
<1>4. ASSUME NEW g \in Granters, Answer(g) PROVE GrantTypes'
  <2>1. ApprovalNone \in Approvals /\ "idle" \in GrantStates
    BY DEF Approvals, ApprovalNone, ApprovalSessionGranted, GrantStates
  <2> QED
    BY <1>0, <1>4, <2>1, NoRuleType DEF GrantTypes, Answer
<1> QED
  BY <1>1, <1>2, <1>3, <1>4
  DEF Next, vars, Tick, Taint, SetApprovalState, Prune, PruneStart, PruneFilter, PruneLoad,
      PruneCas, Check, SnapLabel, SnapApproval, SnapRules, Decide, Grant

LEMMA CheckTypesStep ==
  ASSUME Types, [Next]_vars
  PROVE  CheckTypes'
<1>0. CheckTypes /\ ClockTypes
  BY DEF Types
<1>1. CASE UNCHANGED checkVars
  BY <1>0, <1>1 DEF CheckTypes, checkVars
<1>2. ASSUME NEW c \in Checkers, Check(c) PROVE CheckTypes'
  <2>1. csnap[c] \in Snapshots
    BY <1>0 DEF CheckTypes
  <2>2. \E q \in {"idle", "approval", "rules", "decide"} : cpc' = [cpc EXCEPT ![c] = q]
    BY <1>2 DEF Check, SnapLabel, SnapApproval, SnapRules, Decide
  <2>3. \E x \in Snapshots : csnap' = [csnap EXCEPT ![c] = x]
    <3>1. CASE SnapLabel(c)
      <4>1. csnap' = [csnap EXCEPT ![c] = [csnap[c] EXCEPT !.isTainted = tainted]]
        BY <3>1 DEF SnapLabel
      <4>2. [csnap[c] EXCEPT !.isTainted = tainted] \in Snapshots
        BY <1>0, <2>1 DEF Snapshots, ClockTypes
      <4> QED
        BY <4>1, <4>2
    <3>2. CASE SnapApproval(c)
      <4>1. csnap' = [csnap EXCEPT ![c] = [csnap[c] EXCEPT !.approval = approval]]
        BY <3>2 DEF SnapApproval
      <4>2. [csnap[c] EXCEPT !.approval = approval] \in Snapshots
        BY <1>0, <2>1 DEF Snapshots, ClockTypes
      <4> QED
        BY <4>1, <4>2
    <3>3. CASE SnapRules(c)
      <4>1. csnap' = [csnap EXCEPT ![c] = [csnap[c] EXCEPT !.rules = rules]]
        BY <3>3 DEF SnapRules
      <4>2. [csnap[c] EXCEPT !.rules = rules] \in Snapshots
        BY <1>0, <2>1 DEF Snapshots, ClockTypes
      <4> QED
        BY <4>1, <4>2
    <3>4. CASE Decide(c)
      BY <3>4, NoSnapType DEF Decide
    <3> QED
      BY <1>2, <3>1, <3>2, <3>3, <3>4 DEF Check
  <2>4. verdict' = [d \in Checkers |-> verdict'[d]]
    <3>1. verdict' = verdict \/ \E v : verdict' = [verdict EXCEPT ![c] = v]
      BY <1>2 DEF Check, SnapLabel, SnapApproval, SnapRules, Decide
    <3>2. verdict = [d \in Checkers |-> verdict[d]]
      BY <1>0 DEF CheckTypes
    <3> QED
      BY <3>1, <3>2
  <2> QED
    BY <1>0, <2>2, <2>3, <2>4 DEF CheckTypes
<1> QED
  BY <1>1, <1>2
  DEF Next, vars, Tick, Taint, SetApprovalState, Prune, PruneStart, PruneFilter, PruneLoad,
      PruneCas, Grant, handleApprove, AddAppend, AddLoad, AddCas, Answer

-----------------------------------------------------------------------------
(* No step takes the blanket approval away: the granter's CAS swaps only   *)
(* what is below a standing rule, the pruner's only a standing rule.       *)
LEMMA ApprovalSticks ==
  ASSUME Types, SwapsUp, [Next]_vars, approval = ApprovalSessionGranted
  PROVE  approval' = ApprovalSessionGranted
<1>1. ASSUME NEW g \in Granters, AddCas(g) PROVE approval' = approval
  BY <1>1 DEF AddCas, SwapsUp, ApprovalStandingRule, ApprovalSessionGranted
<1>2. CASE PruneCas
  BY <1>2 DEF PruneCas, ApprovalStandingRule, ApprovalSessionGranted
<1> QED
  BY <1>1, <1>2
  DEF Next, vars, Tick, Taint, SetApprovalState, Prune, PruneStart, PruneFilter, PruneLoad,
      Grant, handleApprove, AddAppend, AddLoad, Answer,
      Check, SnapLabel, SnapApproval, SnapRules, Decide

LEMMA SwapsUpStep ==
  ASSUME Types, SwapsUp, [Next]_vars
  PROVE  SwapsUp'
<1>0. GrantTypes
  BY DEF Types
<1>1. CASE UNCHANGED grantVars
  BY <1>1 DEF SwapsUp, grantVars
<1>2. ASSUME NEW g \in Granters, Grant(g), NEW h \in Granters, gpc'[h] = "cas"
      PROVE  gold'[h] < ApprovalStandingRule
  <2>1. CASE h = g
    <3>1. AddLoad(g) /\ approval < ApprovalStandingRule /\ gold'[g] = approval
      BY <1>0, <1>2, <2>1
      DEF Grant, handleApprove, AddAppend, AddLoad, AddCas, Answer, GrantTypes
    <3> QED
      BY <2>1, <3>1
  <2>2. CASE h # g
    <3>1. gpc'[h] = gpc[h] /\ gold'[h] = gold[h]
      BY <1>0, <1>2, <2>2
      DEF Grant, handleApprove, AddAppend, AddLoad, AddCas, Answer, GrantTypes
    <3> QED
      BY <1>2, <3>1 DEF SwapsUp
  <2> QED
    BY <2>1, <2>2
<1> QED
  BY <1>1, <1>2
  DEF SwapsUp, Next, vars, Tick, Taint, SetApprovalState, Prune, PruneStart, PruneFilter,
      PruneLoad, PruneCas, Check, SnapLabel, SnapApproval, SnapRules, Decide

(* The rules of the session stay exact: the filter runs under the lock on  *)
(* what is there, and drops only what expired before now.                  *)
LEMMA RulesExactStep ==
  ASSUME Types, RulesExact, [Next]_vars
  PROVE  RulesExact'
<1>0. /\ now \in Nat /\ pnow \in Nat /\ pnow <= now /\ now' \in Nat
      /\ \A r \in rules : r.exp \in Nat
  BY ClockTypesStep DEF Types, ClockTypes, RulesExact, Rules
<1>e. \A r \in Granted : r.exp \in Nat
  <2>1. Granted \subseteq Rules
    BY DEF Granted, Types, GrantTypes
  <2> QED
    BY <2>1 DEF Rules
<1>1. ASSUME NEW g \in Granters, AddAppend(g) PROVE RulesExact'
  <2>1. Granted' = Granted \cup {grule[g]}
    BY <1>1, GrantedGrows
  <2>2. rules' = rules \cup {grule[g]} /\ UNCHANGED <<now, pnow>>
    BY <1>1 DEF AddAppend, pruneVars
  <2> QED
    BY <1>0, <2>1, <2>2 DEF RulesExact
<1>2. ASSUME \A g \in Granters : ~ AddAppend(g) PROVE RulesExact'
  <2>1. Granted' = Granted
    BY <1>2, GrantedGrows
  <2>2. CASE PruneFilter
    <3>1. rules' = {r \in rules : pnow < r.exp} /\ pnow' = 0 /\ now' = now
      BY <2>2 DEF PruneFilter
    <3>2. ASSUME NEW r \in Granted, now < r.exp PROVE r \in rules'
      <4>1. r \in rules /\ pnow < r.exp
        BY <1>0, <1>e, <3>2 DEF RulesExact
      <4> QED
        BY <3>1, <4>1
    <3> QED
      BY <1>0, <2>1, <3>1, <3>2 DEF RulesExact
  <2>3. CASE Tick
    <3>1. now' = now + 1 /\ UNCHANGED <<rules, pnow>>
      BY <2>3 DEF Tick, pruneVars
    <3>2. ASSUME NEW r \in Granted, now' < r.exp PROVE r \in rules'
      <4>1. now < r.exp
        BY <1>0, <1>e, <3>1, <3>2
      <4> QED
        BY <3>1, <4>1 DEF RulesExact
    <3> QED
      BY <1>0, <2>1, <3>1, <3>2 DEF RulesExact
  <2>4. CASE UNCHANGED <<rules, now>> /\ pnow' \in {pnow, now}
    BY <1>0, <2>1, <2>4 DEF RulesExact
  <2> QED
    BY <1>2, <2>2, <2>3, <2>4
    DEF Next, vars, pruneVars, Taint, SetApprovalState, Prune, PruneStart, PruneLoad, PruneCas,
        Grant, handleApprove, AddLoad, AddCas, Answer, Check, SnapLabel, SnapApproval,
        SnapRules, Decide
<1> QED
  BY <1>1, <1>2

LEMMA SnapSoundStep ==
  ASSUME Inv, [Next]_vars, NEW d \in Checkers
  PROVE  SnapSound(d)'
<1>0. Types /\ CheckTypes /\ RulesExact /\ SnapSound(d)
  BY DEF Inv, Types
<1>1. Granted \subseteq Granted' /\ (approval = ApprovalSessionGranted => approval' = ApprovalSessionGranted)
  BY <1>0, GrantedGrows, ApprovalSticks DEF Inv
<1>2. ASSUME cpc'[d] = cpc[d], csnap'[d] = csnap[d] PROVE SnapSound(d)'
  BY <1>0, <1>1, <1>2 DEF SnapSound
<1>3. ASSUME NEW c \in Checkers, Check(c) PROVE SnapSound(d)'
  <2>1. CASE c # d
    <3>1. cpc'[d] = cpc[d] /\ csnap'[d] = csnap[d]
      BY <1>0, <1>3, <2>1 DEF Check, SnapLabel, SnapApproval, SnapRules, Decide, CheckTypes
    <3> QED
      BY <1>2, <3>1
  <2>2. CASE c = d
    <3>1. CASE SnapLabel(d) \/ Decide(d)
      <4>1. cpc'[d] \in {"approval", "idle"}
        BY <1>0, <3>1 DEF SnapLabel, Decide, CheckTypes
      <4> QED
        BY <4>1 DEF SnapSound
    <3>2. CASE SnapApproval(d)
      <4>1. cpc'[d] = "rules" /\ csnap'[d].approval = approval /\ approval' = approval
        <5>1. csnap[d] \in Snapshots
          BY <1>0 DEF CheckTypes
        <5>2. csnap'[d] = [csnap[d] EXCEPT !.approval = approval]
          BY <1>0, <3>2 DEF SnapApproval, CheckTypes
        <5>3. csnap'[d].approval = approval
          BY <5>1, <5>2 DEF Snapshots
        <5> QED
          BY <1>0, <3>2, <5>3 DEF SnapApproval, CheckTypes
      <4> QED
        BY <4>1 DEF SnapSound
    <3>3. CASE SnapRules(d)
      <4>1. csnap'[d] = [csnap[d] EXCEPT !.rules = rules] /\ csnap[d] \in Snapshots
        BY <1>0, <3>3 DEF SnapRules, CheckTypes
      <4>2. csnap'[d].rules = rules /\ csnap'[d].approval = csnap[d].approval
        BY <4>1 DEF Snapshots
      <4>3. cpc[d] = "rules" /\ cpc'[d] = "decide" /\ approval' = approval
        BY <1>0, <3>3 DEF SnapRules, CheckTypes
      <4> QED
        BY <1>0, <1>1, <4>2, <4>3 DEF SnapSound, RulesExact
    <3> QED
      BY <1>3, <2>2, <3>1, <3>2, <3>3 DEF Check
  <2> QED
    BY <2>1, <2>2
<1>4. CASE UNCHANGED checkVars
  BY <1>2, <1>4 DEF checkVars
<1> QED
  BY <1>3, <1>4
  DEF Next, vars, Tick, Taint, SetApprovalState, Prune, PruneStart, PruneFilter, PruneLoad,
      PruneCas, Grant, handleApprove, AddAppend, AddLoad, AddCas, Answer

LEMMA EgressStep ==
  ASSUME Inv, [Next]_vars
  PROVE  NoUnapprovedEgress'
<1>0. CheckTypes /\ NoUnapprovedEgress
  BY DEF Inv, Types
<1>1. CASE UNCHANGED verdict
  BY <1>0, <1>1 DEF NoUnapprovedEgress
<1>2. ASSUME NEW c \in Checkers, SnapLabel(c) \/ Decide(c), NEW d \in Checkers,
             verdict'[d].action = "allow"
      PROVE  verdict'[d].lawful
  <2>0. verdict = [x \in Checkers |-> verdict[x]]
    BY <1>0 DEF CheckTypes
  <2>1. CASE d # c
    <3>1. verdict'[d] = verdict[d]
      BY <1>2, <2>0, <2>1 DEF SnapLabel, Decide
    <3> QED
      BY <1>0, <1>2, <3>1 DEF NoUnapprovedEgress
  <2>2. CASE d = c /\ SnapLabel(c)
    <3>1. verdict'[d] = NoVerdict
      BY <2>0, <2>2 DEF SnapLabel
    <3> QED
      BY <3>1 DEF NoVerdict
  <2>3. CASE d = c /\ Decide(c)
    <3>1. /\ verdict'[c].action = Decision(csnap[c], creq[c], now)
          /\ verdict'[c].lawful = Lawful(csnap[c], creq[c])
      BY <2>0, <2>3 DEF Decide
    <3>2. SnapSound(c) /\ cpc[c] = "decide"
      BY <2>3 DEF Inv, Decide
    <3>3. Lawful(csnap[c], creq[c])
      BY <1>2, <2>3, <3>1, <3>2, AllowIsLawful DEF SnapSound
    <3> QED
      BY <2>3, <3>1, <3>3
  <2> QED
    BY <1>2, <2>1, <2>2, <2>3
<1> QED
  BY <1>1, <1>2
  DEF NoUnapprovedEgress, Next, vars, checkVars, Tick, Taint, SetApprovalState, Prune,
      PruneStart, PruneFilter, PruneLoad, PruneCas, Grant, handleApprove, AddAppend, AddLoad,
      AddCas, Answer, Check, SnapApproval, SnapRules

LEMMA StepInv == Inv /\ [Next]_vars => Inv'
<1> SUFFICES ASSUME Inv, [Next]_vars PROVE Inv'
  OBVIOUS
<1>1. Types'
  BY ClockTypesStep, GrantTypesStep, CheckTypesStep DEF Inv, Types
<1>2. RulesExact' /\ SwapsUp'
  BY RulesExactStep, SwapsUpStep DEF Inv
<1>3. \A c \in Checkers : SnapSound(c)'
  BY SnapSoundStep
<1>4. NoUnapprovedEgress'
  BY EgressStep
<1> QED
  BY <1>1, <1>2, <1>3, <1>4 DEF Inv

-----------------------------------------------------------------------------
(* A rule that the user was told of stays in the session until it expires, *)
(* however grants, prunes and the clock interleave.                        *)
THEOREM NoLostGrantHolds == Spec => []NoLostGrant
<1>1. Inv => NoLostGrant
  BY DEF Inv, RulesExact, Granted, NoLostGrant
<1> QED
  BY <1>1, InitInv, StepInv, PTL DEF Spec

(* An allow of a tainted session's egress is covered by the blanket        *)
(* approval or by unexpired granted rules at the time of the decision,     *)
(* though the three reads of its snapshot are older.                       *)
THEOREM NoUnapprovedEgressHolds == Spec => []NoUnapprovedEgress
<1>1. Inv => NoUnapprovedEgress
  BY DEF Inv
<1> QED
  BY <1>1, InitInv, StepInv, PTL DEF Spec

(* Neither adding nor pruning rules demotes the blanket approval.          *)
THEOREM SessionGrantSticksHolds == Spec => SessionGrantSticks
<1>1. Inv /\ [Next]_vars
        => [approval = ApprovalSessionGranted => approval' = ApprovalSessionGranted]_vars
  BY ApprovalSticks DEF Inv
<1> QED
  BY <1>1, InitInv, StepInv, PTL DEF Spec, SessionGrantSticks
=============================================================================
