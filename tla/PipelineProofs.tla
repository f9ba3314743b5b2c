---------------------------- MODULE PipelineProofs ----------------------------
(***************************************************************************)
(* What the evaluation pipeline guarantees for every number of concurrent  *)
(* requests, sessions and tokens, and every set of requests, categories    *)
(* and rules; and what it decides from: delegation chains, the table of    *)
(* the classifier, the labels of calls and the forms of an IDE.            *)
(***************************************************************************)
EXTENDS PipelineInputs, FiniteSetTheorems, WellFoundedInduction, TLAPS

(* Elevation stays among the labels.                                       *)
LEMMA ElevateType ==
  ASSUME NEW a \in Labels, NEW b \in Labels
  PROVE  elevateLabel(a, b) \in Labels
<1>1. a.c \in Levels /\ a.i \in Levels /\ b.c \in Levels /\ b.i \in Levels
  BY DEF Labels
<1>2. MaxOf(a.c, b.c) \in Levels /\ MaxOf(a.i, b.i) \in Levels
  BY <1>1 DEF MaxOf
<1>3. a.k \cup b.k \in SUBSET Categories
  BY DEF Labels
<1> QED
  BY <1>2, <1>3 DEF Labels, elevateLabel

Low == {ZeroLabel, TaintLabel}

PastDominates == {"ceiling", "sink", "approval", "policies", "elevate", "spawn"}
PastTaint == PastDominates \cup {"dominates"}

(* What a request that got past the dominance check asks for is dominated  *)
(* by a label that is zero or taint, so it is itself zero or taint.        *)
AskedLow(r) == resourceLabel(rq[r].q) \in Low /\ rq[r].q.own \in Low

LabelPart ==
  /\ \A s \in Sessions : label[s] \in Low /\ ceiling[s] \in Low
  /\ \A r \in Ids :
       /\ rq[r].seen \in Low
       /\ rq[r].pc \in PastDominates => AskedLow(r)
       /\ rq[r].pc = "handle" /\ rq[r].act # "deny" => AskedLow(r)
       /\ rq[r].layer # "ceiling"

(* Why the session of a request must be tainted: it owed that when the     *)
(* request came, the request has passed maybeTaint with a secret or was    *)
(* found to carry one, or it has inherited its parent's taint.             *)
MustBeTainted(r) ==
  /\ rq[r].pc # "idle"
  /\ \/ rq[r].late # {}
     \/ rq[r].pc \in PastTaint /\ touchesSecret(rq[r].q)
     \/ rq[r].pc \in {"handle", "respond"} /\ touched(r)
     \/ rq[r].heir /\ rq[r].pc \notin {"isTainted", "taintChild"}

TaintPart ==
  /\ \A s \in Sessions : owed[s] # {} => Tainted(label[s])
  /\ \A t \in Tokens : tokState[t] = "pending" => Tainted(label[tokParent[t]])
  /\ \A r \in Ids :
       /\ rq[r].pc = "isTainted" => Tainted(label[rq[r].parent])
       /\ MustBeTainted(r) => Tainted(label[rq[r].s])

(* The sink check of a request that came late saw the taint, so the        *)
(* request got past it only with an approval.                              *)
SinkOf(r) == rq[r].late # {} =>
  /\ rq[r].pc # "idle"
  /\ rq[r].pc = "approval" => Tainted(rq[r].seen)
  /\ rq[r].pc \in {"policies", "elevate", "spawn"} /\ egress(rq[r].q) => approved(r)
  /\ allowedEgress(r) => approved(r)

SinkPart == \A r \in Ids : SinkOf(r)

PipeInv == TypeOK /\ LabelPart /\ TaintPart /\ SinkPart
-----------------------------------------------------------------------------
LEMMA LowLabels ==
  /\ ZeroLabel \in Labels /\ TaintLabel \in Labels
  /\ Tainted(TaintLabel) /\ ~ Tainted(ZeroLabel)
BY MaxLevelAssumption, TaintBitAssumption
   DEF ZeroLabel, TaintLabel, Labels, Levels, Tainted

LEMMA Names ==
  /\ "enter" \in Locations /\ "isTainted" \in Locations /\ "classify" \in Locations
  /\ "setCeiling" \in Locations /\ "ceiling" \in Locations /\ "approval" \in Locations
  /\ "handle" \in Locations /\ "ifc" \in Layers
BY DEF Locations, Layers

LEMMA IdleType == IdleRequest \in RequestStates
BY LowLabels DEF IdleRequest, RequestStates, Locations, Layers, Reasons

LEMMA ResourceLabelType ==
  ASSUME NEW x \in Requests
  PROVE  x.own \in Labels /\ x.res \in Labels /\ resourceLabel(x) \in Labels
BY RequestsAssumption DEF RequestRecords, resourceLabel

(* The variables keep their types.                                         *)
LEMMA TypeInit == Init => TypeOK
BY LowLabels, IdleType DEF Init, TypeOK, IdleRequest, Reasons, Inheriting

RequestsTyped ==
  /\ rq \in [Ids -> RequestStates]
  /\ \A r \in Ids : rq[r].pc # "idle" => rq[r].s \in Sessions /\ rq[r].q \in Requests
  /\ \A r \in Ids : rq[r].heir => rq[r].parent \in Sessions
  /\ \A r \in Ids : rq[r].pc \in Inheriting => rq[r].heir

LEMMA ReplaceType ==
  ASSUME RequestsTyped, NEW r \in Ids, NEW v \in RequestStates,
         v.pc # "idle" => v.s \in Sessions /\ v.q \in Requests,
         v.heir => v.parent \in Sessions, v.pc \in Inheriting => v.heir,
         rq' = [rq EXCEPT ![r] = v]
  PROVE  RequestsTyped'
BY DEF RequestsTyped

LEMMA GotoType ==
  ASSUME RequestsTyped, NEW r \in Ids, rq[r].pc # "idle", NEW l \in Locations, Goto(r, l),
         l \in Inheriting => rq[r].heir
  PROVE  RequestsTyped'
BY ReplaceType DEF RequestsTyped, Goto, RequestStates

LEMMA DecideType ==
  ASSUME RequestsTyped, NEW r \in Ids, rq[r].pc # "idle",
         NEW a \in {"allow", "deny", "require_approval"}, NEW l \in Layers, Decide(r, a, l)
  PROVE  RequestsTyped'
<1> DEFINE v == [rq[r] EXCEPT !.pc = "handle", !.act = a, !.layer = l]
<1>1. v \in RequestStates /\ v.s = rq[r].s /\ v.q = rq[r].q /\ v.heir = rq[r].heir /\ v.parent = rq[r].parent /\ v.pc = "handle"
  BY Names DEF RequestsTyped, RequestStates
<1>2. rq' = [rq EXCEPT ![r] = v]
  BY DEF Decide
<1> HIDE DEF v
<1> QED
  BY <1>1, <1>2, ReplaceType DEF RequestsTyped, Inheriting

(* The updates of a request's record by the actions, as functions of it.   *)
LEMMA ClaimType ==
  ASSUME NEW q \in RequestStates, NEW p \in Sessions
  PROVE  LET v == [q EXCEPT !.pc = "isTainted", !.heir = TRUE, !.parent = p]
         IN  v \in RequestStates /\ v.s = q.s /\ v.q = q.q /\ v.parent = p /\ v.heir = TRUE
BY Names DEF RequestStates

LEMMA RefuseType ==
  ASSUME NEW q \in RequestStates, NEW l \in Labels
  PROVE  LET v == [q EXCEPT !.pc = "handle", !.seen = l, !.act = "deny", !.layer = "ifc"]
         IN  v \in RequestStates /\ v.s = q.s /\ v.q = q.q
             /\ v.heir = q.heir /\ v.parent = q.parent /\ v.pc = "handle"
BY Names DEF RequestStates

LEMMA IssueType ==
  ASSUME NEW q \in RequestStates, NEW t \in Tokens
  PROVE  LET v == [q EXCEPT !.pc = "handle", !.act = "allow", !.issued = t]
         IN  v \in RequestStates /\ v.s = q.s /\ v.q = q.q
             /\ v.heir = q.heir /\ v.parent = q.parent /\ v.pc = "handle"
BY Names DEF RequestStates

LEMMA TypeStep == TypeOK /\ [Next]_vars => TypeOK'
<1> SUFFICES ASSUME TypeOK, [Next]_vars PROVE TypeOK'
  OBVIOUS
<1> USE DEF sessionState, tokenState
<1>1. ASSUME NEW r \in Ids, Receive(r) PROVE TypeOK'
  <2>1. RequestsTyped'
    <3>1. PICK s \in Sessions, x \in Requests :
            rq' = [rq EXCEPT ![r] = [IdleRequest EXCEPT
                     !.pc = "enter", !.s = s, !.q = x, !.tok = env[s], !.late = owed[s]]]
      BY <1>1 DEF Receive, TypeOK
    <3> DEFINE v == [IdleRequest EXCEPT !.pc = "enter", !.s = s, !.q = x,
                                        !.tok = env[s], !.late = owed[s]]
    <3>2. v \in RequestStates /\ v.s = s /\ v.q = x /\ v.heir = FALSE /\ v.pc = "enter"
      BY IdleType, Names DEF IdleRequest, RequestStates, TypeOK
    <3>3. rq' = [rq EXCEPT ![r] = v]
      BY <3>1
    <3> HIDE DEF v
    <3> QED
      BY <3>2, <3>3, ReplaceType DEF RequestsTyped, TypeOK, Inheriting
  <2> QED
    BY <1>1, <2>1 DEF Receive, RequestsTyped, TypeOK
<1>2. ASSUME NEW r \in Ids, DenyEarly(r) PROVE TypeOK'
  <2>1. RequestsTyped'
    BY <1>2, DecideType DEF DenyEarly, RequestsTyped, Layers, TypeOK
  <2> QED
    BY <1>2, <2>1 DEF DenyEarly, RequestsTyped, TypeOK
<1>3. ASSUME NEW r \in Ids, ClaimFresh(r) PROVE TypeOK'
  <2>1. RequestsTyped'
    <3> DEFINE v == [rq[r] EXCEPT !.pc = "isTainted", !.heir = TRUE, !.parent = tokParent[rq[r].tok]]
    <3>1. v \in RequestStates /\ v.s \in Sessions /\ v.q \in Requests /\ (v.heir => v.parent \in Sessions) /\ (v.pc \in Inheriting => v.heir)
      <4>1. rq[r] \in RequestStates /\ rq[r].s \in Sessions /\ rq[r].q \in Requests
        BY <1>3 DEF ClaimFresh, TypeOK
      <4>2. tokParent[rq[r].tok] \in Sessions
        BY <1>3, <4>1 DEF ClaimFresh, TypeOK
      <4> QED
        BY <4>1, <4>2, ClaimType, Names DEF Inheriting
    <3>2. rq' = [rq EXCEPT ![r] = v]
      BY <1>3 DEF ClaimFresh, TypeOK
    <3> HIDE DEF v
    <3> QED
      BY <3>1, <3>2, ReplaceType DEF RequestsTyped, TypeOK, Inheriting
  <2> QED
    BY <1>3, <2>1 DEF ClaimFresh, RequestsTyped, TypeOK
<1>4. ASSUME NEW r \in Ids, ClaimNothing(r) PROVE TypeOK'
  <2>1. RequestsTyped'
    BY <1>4, GotoType DEF ClaimNothing, RequestsTyped, Locations, TypeOK, Inheriting
  <2> QED
    BY <1>4, <2>1 DEF ClaimNothing, RequestsTyped, TypeOK
<1>5. ASSUME NEW r \in Ids, SeeParent(r) PROVE TypeOK'
  <2>1. RequestsTyped'
    BY <1>5, GotoType DEF SeeParent, RequestsTyped, Locations, TypeOK, Inheriting
  <2> QED
    BY <1>5, <2>1 DEF SeeParent, RequestsTyped, TypeOK
<1>6. ASSUME NEW r \in Ids, TaintChild(r) PROVE TypeOK'
  <2>1. RequestsTyped'
    BY <1>6, GotoType DEF TaintChild, RequestsTyped, Locations, TypeOK, Inheriting
  <2> QED
    BY <1>6, <2>1, LowLabels, ElevateType DEF TaintChild, RequestsTyped, Elevate, TaintWithSecret, TypeOK
<1>7. ASSUME NEW r \in Ids, ReadParent(r) PROVE TypeOK'
  <2>1. RequestsTyped'
    <3> DEFINE nx == IF label[rq[r].parent] = ZeroLabel THEN "classify" ELSE "setCeiling"
    <3> DEFINE v == [rq[r] EXCEPT !.pc = nx, !.seen = label[rq[r].parent]]
    <3>1. v \in RequestStates /\ v.s \in Sessions /\ v.q \in Requests /\ (v.heir => v.parent \in Sessions) /\ (v.pc \in Inheriting => v.heir)
      <4>1. rq[r] \in RequestStates /\ rq[r].s \in Sessions /\ rq[r].q \in Requests
        BY <1>7 DEF ReadParent, TypeOK
      <4>2. label[rq[r].parent] \in Labels /\ (rq[r].heir => rq[r].parent \in Sessions)
        BY <1>7, <4>1 DEF ReadParent, TypeOK, Inheriting
      <4>3. v \in RequestStates
        BY <4>1, <4>2, Names DEF RequestStates
      <4>4. v.s = rq[r].s /\ v.q = rq[r].q /\ v.heir = rq[r].heir /\ v.parent = rq[r].parent /\ v.pc = nx
        BY <4>1 DEF RequestStates
      <4> QED
        BY <4>1, <4>2, <4>3, <4>4, <1>7 DEF Inheriting, ReadParent, TypeOK
    <3>2. rq' = [rq EXCEPT ![r] = v]
      BY <1>7 DEF ReadParent, TypeOK
    <3> HIDE DEF v
    <3> QED
      BY <3>1, <3>2, ReplaceType DEF RequestsTyped, TypeOK, Inheriting
  <2> QED
    BY <1>7, <2>1 DEF ReadParent, RequestsTyped, TypeOK
<1>8. ASSUME NEW r \in Ids, SetCeiling(r) PROVE TypeOK'
  <2>1. RequestsTyped'
    BY <1>8, GotoType DEF SetCeiling, RequestsTyped, Locations, TypeOK, Inheriting
  <2> QED
    BY <1>8, <2>1 DEF SetCeiling, RequestsTyped, RequestStates, TypeOK
<1>9. ASSUME NEW r \in Ids, DenyClassified(r) PROVE TypeOK'
  <2>1. RequestsTyped'
    BY <1>9, DecideType DEF DenyClassified, RequestsTyped, Layers, TypeOK
  <2> QED
    BY <1>9, <2>1 DEF DenyClassified, RequestsTyped, TypeOK
<1>10. ASSUME NEW r \in Ids, MaybeTaint(r) PROVE TypeOK'
  <2>1. RequestsTyped'
    BY <1>10, GotoType DEF MaybeTaint, RequestsTyped, Locations, TypeOK, Inheriting
  <2> QED
    BY <1>10, <2>1, LowLabels, ElevateType DEF MaybeTaint, RequestsTyped, Elevate, TaintWithSecret, TypeOK
<1>11. ASSUME NEW r \in Ids, CheckDominates(r) PROVE TypeOK'
  <2>1. RequestsTyped'
    <3> DEFINE v == [rq[r] EXCEPT !.pc = "ceiling", !.seen = label[rq[r].s]]
               w == [rq[r] EXCEPT !.pc = "handle", !.seen = label[rq[r].s], !.act = "deny", !.layer = "ifc"]
    <3>1. v \in RequestStates /\ v.s \in Sessions /\ v.q \in Requests /\ (v.heir => v.parent \in Sessions) /\ (v.pc \in Inheriting => v.heir)
      <4>1. rq[r] \in RequestStates /\ rq[r].s \in Sessions /\ rq[r].q \in Requests
        BY <1>11 DEF CheckDominates, TypeOK
      <4>2. label[rq[r].s] \in Labels /\ (rq[r].heir => rq[r].parent \in Sessions)
        BY <1>11, <4>1 DEF CheckDominates, TypeOK
      <4>3. v \in RequestStates
        BY <4>1, <4>2, Names DEF RequestStates
      <4>4. v.s = rq[r].s /\ v.q = rq[r].q /\ v.heir = rq[r].heir /\ v.parent = rq[r].parent /\ v.pc = "ceiling"
        BY <4>1 DEF RequestStates
      <4> QED
        BY <4>1, <4>2, <4>3, <4>4 DEF Inheriting
    <3>2. w \in RequestStates /\ w.s \in Sessions /\ w.q \in Requests /\ (w.heir => w.parent \in Sessions) /\ w.pc \notin Inheriting
      <4>1. rq[r] \in RequestStates /\ rq[r].s \in Sessions /\ rq[r].q \in Requests
        BY <1>11 DEF CheckDominates, TypeOK
      <4>2. label[rq[r].s] \in Labels /\ (rq[r].heir => rq[r].parent \in Sessions)
        BY <1>11, <4>1 DEF CheckDominates, TypeOK
      <4> QED
        BY <4>1, <4>2, RefuseType, Names DEF Inheriting
    <3>3. rq' = [rq EXCEPT ![r] = v] \/ rq' = [rq EXCEPT ![r] = w]
      BY <1>11 DEF CheckDominates, TypeOK
    <3> HIDE DEF v, w
    <3> QED
      BY <3>1, <3>2, <3>3, ReplaceType DEF RequestsTyped, TypeOK, Inheriting
  <2> QED
    BY <1>11, <2>1 DEF CheckDominates, RequestsTyped, TypeOK
<1>12. ASSUME NEW r \in Ids, CheckCeiling(r) PROVE TypeOK'
  <2>1. RequestsTyped'
    BY <1>12, GotoType, DecideType DEF CheckCeiling, RequestsTyped, Locations, Layers, TypeOK, Inheriting
  <2> QED
    BY <1>12, <2>1 DEF CheckCeiling, RequestsTyped, TypeOK
<1>13. ASSUME NEW r \in Ids, SnapshotLabel(r) PROVE TypeOK'
  <2>1. RequestsTyped'
    <3> DEFINE v == [rq[r] EXCEPT !.pc = "approval", !.seen = label[rq[r].s]]
    <3>1. v \in RequestStates /\ v.s \in Sessions /\ v.q \in Requests /\ (v.heir => v.parent \in Sessions) /\ (v.pc \in Inheriting => v.heir)
      <4>1. rq[r] \in RequestStates /\ rq[r].s \in Sessions /\ rq[r].q \in Requests
        BY <1>13 DEF SnapshotLabel, TypeOK
      <4>2. label[rq[r].s] \in Labels /\ (rq[r].heir => rq[r].parent \in Sessions)
        BY <1>13, <4>1 DEF SnapshotLabel, TypeOK
      <4>3. v \in RequestStates
        BY <4>1, <4>2, Names DEF RequestStates
      <4>4. v.s = rq[r].s /\ v.q = rq[r].q /\ v.heir = rq[r].heir /\ v.parent = rq[r].parent /\ v.pc = "approval"
        BY <4>1 DEF RequestStates
      <4> QED
        BY <4>1, <4>2, <4>3, <4>4 DEF Inheriting
    <3>2. rq' = [rq EXCEPT ![r] = v]
      BY <1>13 DEF SnapshotLabel, TypeOK
    <3> HIDE DEF v
    <3> QED
      BY <3>1, <3>2, ReplaceType DEF RequestsTyped, TypeOK, Inheriting
  <2> QED
    BY <1>13, <2>1 DEF SnapshotLabel, RequestsTyped, TypeOK
<1>14. ASSUME NEW r \in Ids, CheckSink(r) PROVE TypeOK'
  <2>1. RequestsTyped'
    BY <1>14, GotoType, DecideType DEF CheckSink, RequestsTyped, Locations, Layers, TypeOK, Inheriting
  <2> QED
    BY <1>14, <2>1 DEF CheckSink, RequestsTyped, TypeOK
<1>15. ASSUME NEW r \in Ids, PoliciesDecide(r) PROVE TypeOK'
  <2>1. RequestsTyped'
    BY <1>15, DecideType DEF PoliciesDecide, RequestsTyped, Layers, TypeOK
  <2> QED
    BY <1>15, <2>1 DEF PoliciesDecide, RequestsTyped, TypeOK
<1>16. ASSUME NEW r \in Ids, ScanFinds(r) PROVE TypeOK'
  <2>1. RequestsTyped'
    BY <1>16, DecideType DEF ScanFinds, RequestsTyped, Layers, TypeOK
  <2> QED
    BY <1>16, <2>1, LowLabels, ElevateType DEF ScanFinds, RequestsTyped, Elevate, TaintWithSecret, TypeOK
<1>17. ASSUME NEW r \in Ids, PoliciesPass(r) PROVE TypeOK'
  <2>1. RequestsTyped'
    BY <1>17, GotoType DEF PoliciesPass, RequestsTyped, Locations, TypeOK, Inheriting
  <2> QED
    BY <1>17, <2>1 DEF PoliciesPass, RequestsTyped, TypeOK
<1>18. ASSUME NEW r \in Ids, ElevateAllowed(r) PROVE TypeOK'
  <2>1. RequestsTyped'
    BY <1>18, GotoType DEF ElevateAllowed, RequestsTyped, Locations, TypeOK, Inheriting
  <2> QED
    BY <1>18, <2>1, ResourceLabelType, ElevateType DEF ElevateAllowed, RequestsTyped, Elevate, TypeOK
<1>19. ASSUME NEW r \in Ids, AllowAgent(r) PROVE TypeOK'
  <2>1. RequestsTyped'
    <3>1. PICK t \in Tokens : rq' = [rq EXCEPT ![r] = [@ EXCEPT !.pc = "handle", !.act = "allow", !.issued = t]]
      BY <1>19 DEF AllowAgent, TypeOK
    <3> DEFINE v == [rq[r] EXCEPT !.pc = "handle", !.act = "allow", !.issued = t]
    <3>2. v \in RequestStates /\ v.s \in Sessions /\ v.q \in Requests /\ (v.heir => v.parent \in Sessions) /\ (v.pc \in Inheriting => v.heir)
      <4>1. rq[r] \in RequestStates /\ rq[r].s \in Sessions /\ rq[r].q \in Requests
        BY <1>19 DEF AllowAgent, TypeOK
      <4>2. rq[r].heir => rq[r].parent \in Sessions
        BY <1>19, <4>1 DEF AllowAgent, TypeOK
      <4> QED
        BY <4>1, <4>2, IssueType, Names DEF Inheriting
    <3>3. rq' = [rq EXCEPT ![r] = v]
      BY <3>1
    <3> HIDE DEF v
    <3> QED
      BY <3>2, <3>3, ReplaceType DEF RequestsTyped, TypeOK, Inheriting
  <2> QED
    BY <1>19, <2>1 DEF AllowAgent, RequestsTyped, TypeOK
<1>20. ASSUME NEW r \in Ids, Allow(r) PROVE TypeOK'
  <2>1. RequestsTyped'
    BY <1>20, DecideType DEF Allow, RequestsTyped, Layers, TypeOK
  <2> QED
    BY <1>20, <2>1 DEF Allow, RequestsTyped, TypeOK
<1>21. ASSUME NEW r \in Ids, Handle(r) PROVE TypeOK'
  <2>1. RequestsTyped'
    BY <1>21, GotoType DEF Handle, RequestsTyped, Locations, TypeOK, Inheriting
  <2> QED
    BY <1>21, <2>1, ResourceLabelType, ElevateType DEF Handle, RequestsTyped, Elevate, TypeOK
<1>22. ASSUME NEW r \in Ids, Respond(r) PROVE TypeOK'
  <2>1. RequestsTyped'
    BY <1>22, GotoType DEF Respond, RequestsTyped, Locations, TypeOK, Inheriting
  <2> QED
    BY <1>22, <2>1 DEF Respond, RequestsTyped, Reasons, TypeOK
<1>23. ASSUME NEW c \in Children, StartChild(c) PROVE TypeOK'
  BY <1>23 DEF StartChild, RequestStates, Sessions, TypeOK
<1>24. ASSUME NEW t \in Tokens, Expire(t) PROVE TypeOK'
  BY <1>24 DEF Expire, TypeOK
<1>25. ASSUME NEW s \in Sessions, Grant(s) PROVE TypeOK'
  BY <1>25 DEF Grant, TypeOK
<1>26. CASE UNCHANGED vars
  BY <1>26 DEF vars, TypeOK
<1> QED
  BY <1>1, <1>2, <1>3, <1>4, <1>5, <1>6, <1>7, <1>8, <1>9, <1>10, <1>11, <1>12, <1>13, <1>14, <1>15, <1>16, <1>17, <1>18, <1>19, <1>20, <1>21, <1>22, <1>23, <1>24, <1>25, <1>26 DEF Next, Evaluate
-----------------------------------------------------------------------------
LEMMA TaintedLow ==
  ASSUME NEW l \in Low
  PROVE  Tainted(l) <=> l = TaintLabel
BY LowLabels DEF Low

(* Elevating zero or taint by zero or taint.                               *)
LEMMA ElevateLow ==
  ASSUME NEW l \in Low, NEW m \in Low
  PROVE  /\ elevateLabel(l, m) \in Low
         /\ Tainted(l) \/ Tainted(m) => Tainted(elevateLabel(l, m))
BY DEF Low, ZeroLabel, TaintLabel, elevateLabel, MaxOf, Tainted

(* Zero and taint dominate nothing but zero and taint.                     *)
LEMMA DominatedLow ==
  ASSUME NEW l \in Low, NEW m \in Labels, Dominates(l, m)
  PROVE  m \in Low
<1>1. m = [c |-> m.c, i |-> m.i, k |-> m.k]
  BY DEF Labels
<1>2. m.c = 0 /\ m.i = 0 /\ m.k \subseteq {TaintBit}
  BY DEF Low, ZeroLabel, TaintLabel, Dominates, Labels, Levels
<1>3. m.k = {} \/ m.k = {TaintBit}
  BY <1>2
<1> QED
  BY <1>1, <1>2, <1>3 DEF Low, ZeroLabel, TaintLabel

LEMMA CeilingLow ==
  ASSUME NEW l \in Low
  PROVE  Dominates(TaintLabel, l) /\ Dominates(MaxLabel, l)
BY MaxLevelAssumption, TaintBitAssumption
   DEF Low, ZeroLabel, TaintLabel, MaxLabel, Dominates

(* If what the checks compare is zero or taint, so is what the sender      *)
(* claims: the labeler never gives the taint bit.                          *)
LEMMA OwnLow ==
  ASSUME NEW x \in Requests, resourceLabel(x) \in Low
  PROVE  x.own \in Low
<1>1. CASE x.res = ZeroLabel
  BY <1>1 DEF resourceLabel
<1>2. CASE x.res # ZeroLabel
  <2>1. x.res = TaintLabel
    BY <1>2 DEF resourceLabel, Low
  <2>2. TaintBit \in x.res.k
    BY <2>1 DEF TaintLabel
  <2> QED
    BY <2>2, RequestsAssumption
<1> QED
  BY <1>1, <1>2

LEMMA LabelInit == Init => LabelPart
BY LowLabels DEF Init, LabelPart, Low, IdleRequest, PastDominates

(* No step lowers a label or raises it above taint.                        *)
LEMMA LabelStep ==
  ASSUME TypeOK, LabelPart, [Next]_vars
  PROVE  LabelPart' /\ \A s \in Sessions : Tainted(label[s]) => Tainted(label'[s])
<1> DEFINE Goal == LabelPart' /\ \A s \in Sessions : Tainted(label[s]) => Tainted(label'[s])
<1> USE DEF sessionState, tokenState, LabelPart, AskedLow
<1>1. ASSUME NEW r \in Ids, Receive(r) PROVE Goal
  BY <1>1 DEF Receive, TypeOK, IdleRequest, PastDominates, Low
<1>2. ASSUME NEW r \in Ids, DenyEarly(r) PROVE Goal
  BY <1>2 DEF DenyEarly, TypeOK, RequestStates, PastDominates, Decide
<1>3. ASSUME NEW r \in Ids, ClaimFresh(r) PROVE Goal
  BY <1>3 DEF ClaimFresh, TypeOK, RequestStates, PastDominates
<1>4. ASSUME NEW r \in Ids, ClaimNothing(r) PROVE Goal
  BY <1>4 DEF ClaimNothing, TypeOK, RequestStates, PastDominates, Goto
<1>5. ASSUME NEW r \in Ids, SeeParent(r) PROVE Goal
  BY <1>5 DEF SeeParent, TypeOK, RequestStates, PastDominates, Goto
<1>6. ASSUME NEW r \in Ids, TaintChild(r) PROVE Goal
  BY <1>6, ElevateLow, LowLabels DEF TaintChild, TypeOK, RequestStates, PastDominates, Goto, Elevate, TaintWithSecret, Low
<1>7. ASSUME NEW r \in Ids, ReadParent(r) PROVE Goal
  <2>1. label[rq[r].parent] \in Low
    BY <1>7 DEF ReadParent, TypeOK, Inheriting
  <2> QED
    BY <1>7, <2>1 DEF ReadParent, TypeOK, RequestStates, PastDominates
<1>8. ASSUME NEW r \in Ids, SetCeiling(r) PROVE Goal
  BY <1>8 DEF SetCeiling, TypeOK, RequestStates, PastDominates, Goto
<1>9. ASSUME NEW r \in Ids, DenyClassified(r) PROVE Goal
  BY <1>9 DEF DenyClassified, TypeOK, RequestStates, PastDominates, Decide
<1>10. ASSUME NEW r \in Ids, MaybeTaint(r) PROVE Goal
  BY <1>10, ElevateLow, LowLabels DEF MaybeTaint, TypeOK, RequestStates, PastDominates, Goto, Elevate, TaintWithSecret, Low
<1>11. ASSUME NEW r \in Ids, CheckDominates(r) PROVE Goal
  <2>1. rq[r].q \in Requests /\ label[rq[r].s] \in Low
    BY <1>11 DEF CheckDominates, TypeOK
  <2>2. Dominates(label[rq[r].s], resourceLabel(rq[r].q)) =>
          resourceLabel(rq[r].q) \in Low /\ rq[r].q.own \in Low
    BY <2>1, DominatedLow, OwnLow, ResourceLabelType
  <2>3. label' = label /\ ceiling' = ceiling
    BY <1>11 DEF CheckDominates
  <2>4. CASE /\ Dominates(label[rq[r].s], resourceLabel(rq[r].q))
             /\ rq' = [rq EXCEPT ![r] = [@ EXCEPT !.pc = "ceiling", !.seen = label[rq[r].s]]]
    BY <2>1, <2>2, <2>3, <2>4 DEF TypeOK, RequestStates, PastDominates
  <2>5. CASE rq' = [rq EXCEPT ![r] = [@ EXCEPT !.pc = "handle", !.seen = label[rq[r].s],
                                               !.act = "deny", !.layer = "ifc"]]
    BY <2>1, <2>3, <2>5 DEF TypeOK, RequestStates, PastDominates
  <2> QED
    BY <1>11, <2>4, <2>5 DEF CheckDominates
<1>12. ASSUME NEW r \in Ids, CheckCeiling(r) PROVE Goal
  BY <1>12, CeilingLow DEF CheckCeiling, TypeOK, RequestStates, PastDominates, Goto, Decide, Ceiling, Low
<1>13. ASSUME NEW r \in Ids, SnapshotLabel(r) PROVE Goal
  BY <1>13 DEF SnapshotLabel, TypeOK, RequestStates, PastDominates
<1>14. ASSUME NEW r \in Ids, CheckSink(r) PROVE Goal
  <2>1. /\ rq[r].pc = "approval" /\ label' = label /\ ceiling' = ceiling
        /\ Goto(r, "policies") \/ Decide(r, "deny", "sink")
    BY <1>14 DEF CheckSink
  <2>2. CASE Goto(r, "policies")
    BY <2>1, <2>2 DEF TypeOK, RequestStates, PastDominates, Goto
  <2>3. CASE Decide(r, "deny", "sink")
    BY <2>1, <2>3 DEF TypeOK, RequestStates, PastDominates, Decide
  <2> QED
    BY <2>1, <2>2, <2>3
<1>15. ASSUME NEW r \in Ids, PoliciesDecide(r) PROVE Goal
  BY <1>15 DEF PoliciesDecide, TypeOK, RequestStates, PastDominates, Decide
<1>16. ASSUME NEW r \in Ids, ScanFinds(r) PROVE Goal
  BY <1>16, ElevateLow, LowLabels DEF ScanFinds, TypeOK, RequestStates, PastDominates, Decide, Elevate, TaintWithSecret, Low
<1>17. ASSUME NEW r \in Ids, PoliciesPass(r) PROVE Goal
  BY <1>17 DEF PoliciesPass, TypeOK, RequestStates, PastDominates, Goto
<1>18. ASSUME NEW r \in Ids, ElevateAllowed(r) PROVE Goal
  BY <1>18, ElevateLow, LowLabels DEF ElevateAllowed, TypeOK, RequestStates, PastDominates, Goto, Elevate
<1>19. ASSUME NEW r \in Ids, AllowAgent(r) PROVE Goal
  BY <1>19 DEF AllowAgent, TypeOK, RequestStates, PastDominates
<1>20. ASSUME NEW r \in Ids, Allow(r) PROVE Goal
  BY <1>20 DEF Allow, TypeOK, RequestStates, PastDominates, Decide
<1>21. ASSUME NEW r \in Ids, Handle(r) PROVE Goal
  BY <1>21, ElevateLow, LowLabels DEF Handle, TypeOK, RequestStates, PastDominates, Goto, Elevate
<1>22. ASSUME NEW r \in Ids, Respond(r) PROVE Goal
  BY <1>22 DEF Respond, TypeOK, RequestStates, PastDominates, Goto
<1>23. ASSUME NEW c \in Children, StartChild(c) PROVE Goal
  BY <1>23 DEF StartChild
<1>24. ASSUME NEW t \in Tokens, Expire(t) PROVE Goal
  BY <1>24 DEF Expire
<1>25. ASSUME NEW s \in Sessions, Grant(s) PROVE Goal
  BY <1>25 DEF Grant
<1>26. CASE UNCHANGED vars
  BY <1>26 DEF vars
<1> QED
  BY <1>1, <1>2, <1>3, <1>4, <1>5, <1>6, <1>7, <1>8, <1>9, <1>10, <1>11, <1>12, <1>13, <1>14, <1>15, <1>16, <1>17, <1>18, <1>19, <1>20, <1>21, <1>22, <1>23, <1>24, <1>25, <1>26 DEF Next, Evaluate
-----------------------------------------------------------------------------
LEMMA TaintInit == Init => TaintPart
BY DEF Init, TaintPart, MustBeTainted, touched, IdleRequest, PastTaint, PastDominates

(* A step of request r that leaves tokens and debts alone has only to      *)
(* account for r itself.                                                   *)
LEMMA TaintFrame ==
  ASSUME TypeOK, TaintPart, NEW r \in Ids,
         \A s \in Sessions : Tainted(label[s]) => Tainted(label'[s]),
         UNCHANGED <<owed, tokState, tokParent>>,
         \A q \in Ids \ {r} : rq'[q] = rq[q],
         rq'[r].pc # "isTainted",
         MustBeTainted(r)' => Tainted(label'[rq'[r].s])
  PROVE  TaintPart'
<1>1. \A s \in Sessions : owed'[s] # {} => Tainted(label'[s])
  BY DEF TaintPart
<1>2. \A t \in Tokens : tokState'[t] = "pending" => Tainted(label'[tokParent'[t]])
  BY DEF TaintPart, TypeOK
<1>3. ASSUME NEW q \in Ids \ {r}
      PROVE  /\ rq'[q].pc = "isTainted" => Tainted(label'[rq'[q].parent])
             /\ MustBeTainted(q)' => Tainted(label'[rq'[q].s])
  <2>1. rq'[q] = rq[q]
    OBVIOUS
  <2>2. rq[q].pc = "isTainted" => rq[q].parent \in Sessions
    BY DEF TypeOK, Inheriting
  <2>3. MustBeTainted(q) => rq[q].s \in Sessions
    BY DEF TypeOK, MustBeTainted
  <2> QED
    BY <2>1, <2>2, <2>3 DEF TaintPart, MustBeTainted, touched
<1> QED
  BY <1>1, <1>2, <1>3 DEF TaintPart

LEMMA TaintStep ==
  ASSUME TypeOK, LabelPart, TaintPart, [Next]_vars,
         \A s \in Sessions : Tainted(label[s]) => Tainted(label'[s])
  PROVE  TaintPart'
<1> USE DEF sessionState, tokenState
<1>1. ASSUME NEW r \in Ids, Receive(r) PROVE TaintPart'
  BY <1>1 DEF Receive, TypeOK, IdleRequest, PastTaint, PastDominates, TaintPart, MustBeTainted, touched
<1>2. ASSUME NEW r \in Ids, DenyEarly(r) PROVE TaintPart'
  BY <1>2 DEF DenyEarly, TypeOK, RequestStates, PastTaint, PastDominates, Inheriting, Decide, TaintPart, MustBeTainted, touched
<1>3. ASSUME NEW r \in Ids, ClaimFresh(r) PROVE TaintPart'
  BY <1>3 DEF ClaimFresh, TypeOK, RequestStates, PastTaint, PastDominates, Inheriting, TaintPart, MustBeTainted, touched
<1>4. ASSUME NEW r \in Ids, ClaimNothing(r) PROVE TaintPart'
  BY <1>4 DEF ClaimNothing, TypeOK, RequestStates, PastTaint, PastDominates, Inheriting, Goto, TaintPart, MustBeTainted, touched
<1>5. ASSUME NEW r \in Ids, SeeParent(r) PROVE TaintPart'
  BY <1>5 DEF SeeParent, TypeOK, RequestStates, PastTaint, PastDominates, Inheriting, Goto, TaintPart, MustBeTainted, touched
<1>6. ASSUME NEW r \in Ids, TaintChild(r) PROVE TaintPart'
  <2>1. Tainted(label'[rq[r].s])
    BY <1>6, ElevateLow, LowLabels DEF TaintChild, TypeOK, LabelPart, Low, TaintWithSecret, Elevate
  <2>2. /\ \A q \in Ids \ {r} : rq'[q] = rq[q]
        /\ rq'[r].pc # "isTainted" /\ rq'[r].s = rq[r].s /\ rq'[r].q = rq[r].q
        /\ rq'[r].late = rq[r].late /\ rq'[r].heir = rq[r].heir /\ rq'[r].pc = "readParent"
        /\ rq[r].s \in Sessions
    BY <1>6 DEF TaintChild, TypeOK, RequestStates, Goto
  <2>3. MustBeTainted(r)' => Tainted(label'[rq'[r].s])
    BY <1>6, <2>1, <2>2 DEF TaintChild, PastTaint, PastDominates, TaintPart, MustBeTainted, touched
  <2> QED
    BY <1>6, <2>2, <2>3, TaintFrame DEF TaintChild
<1>7. ASSUME NEW r \in Ids, ReadParent(r) PROVE TaintPart'
  BY <1>7 DEF ReadParent, TypeOK, RequestStates, PastTaint, PastDominates, Inheriting, TaintPart, MustBeTainted, touched
<1>8. ASSUME NEW r \in Ids, SetCeiling(r) PROVE TaintPart'
  BY <1>8 DEF SetCeiling, TypeOK, RequestStates, PastTaint, PastDominates, Inheriting, Goto, TaintPart, MustBeTainted, touched
<1>9. ASSUME NEW r \in Ids, DenyClassified(r) PROVE TaintPart'
  BY <1>9 DEF DenyClassified, TypeOK, RequestStates, PastTaint, PastDominates, Inheriting, Decide, TaintPart, MustBeTainted, touched
<1>10. ASSUME NEW r \in Ids, MaybeTaint(r) PROVE TaintPart'
  <2>1. touchesSecret(rq[r].q) => Tainted(label'[rq[r].s])
    BY <1>10, ElevateLow, LowLabels DEF MaybeTaint, TypeOK, LabelPart, Low, TaintWithSecret, Elevate
  <2>2. /\ \A q \in Ids \ {r} : rq'[q] = rq[q]
        /\ rq'[r].pc # "isTainted" /\ rq'[r].s = rq[r].s /\ rq'[r].q = rq[r].q
        /\ rq'[r].late = rq[r].late /\ rq'[r].heir = rq[r].heir /\ rq'[r].pc = "dominates"
        /\ rq[r].s \in Sessions
    BY <1>10 DEF MaybeTaint, TypeOK, RequestStates, Goto
  <2>3. MustBeTainted(r)' => Tainted(label'[rq'[r].s])
    BY <1>10, <2>1, <2>2 DEF MaybeTaint, PastTaint, PastDominates, TaintPart, MustBeTainted, touched
  <2> QED
    BY <1>10, <2>2, <2>3, TaintFrame DEF MaybeTaint
<1>11. ASSUME NEW r \in Ids, CheckDominates(r) PROVE TaintPart'
  <2>1. /\ rq[r].pc = "dominates" /\ UNCHANGED <<label, owed, tokState, tokParent>>
        /\ \/ rq' = [rq EXCEPT ![r] = [@ EXCEPT !.pc = "ceiling", !.seen = label[rq[r].s]]]
           \/ rq' = [rq EXCEPT ![r] = [@ EXCEPT !.pc = "handle", !.seen = label[rq[r].s], !.act = "deny", !.layer = "ifc"]]
    BY <1>11 DEF CheckDominates
  <2>2. CASE rq' = [rq EXCEPT ![r] = [@ EXCEPT !.pc = "ceiling", !.seen = label[rq[r].s]]]
    BY <2>1, <2>2 DEF TypeOK, RequestStates, PastTaint, PastDominates, Inheriting, Goto, Decide, TaintPart, MustBeTainted, touched
  <2>3. CASE rq' = [rq EXCEPT ![r] = [@ EXCEPT !.pc = "handle", !.seen = label[rq[r].s], !.act = "deny", !.layer = "ifc"]]
    BY <2>1, <2>3 DEF TypeOK, RequestStates, PastTaint, PastDominates, Inheriting, Goto, Decide, TaintPart, MustBeTainted, touched
  <2> QED
    BY <2>1, <2>2, <2>3
<1>12. ASSUME NEW r \in Ids, CheckCeiling(r) PROVE TaintPart'
  <2>1. /\ rq[r].pc = "ceiling" /\ UNCHANGED <<label, owed, tokState, tokParent>>
        /\ \/ Goto(r, "sink")
           \/ Decide(r, "deny", "ceiling")
    BY <1>12 DEF CheckCeiling
  <2>2. CASE Goto(r, "sink")
    BY <2>1, <2>2 DEF TypeOK, RequestStates, PastTaint, PastDominates, Inheriting, Goto, Decide, TaintPart, MustBeTainted, touched
  <2>3. CASE Decide(r, "deny", "ceiling")
    BY <2>1, <2>3 DEF TypeOK, RequestStates, PastTaint, PastDominates, Inheriting, Goto, Decide, TaintPart, MustBeTainted, touched
  <2> QED
    BY <2>1, <2>2, <2>3
<1>13. ASSUME NEW r \in Ids, SnapshotLabel(r) PROVE TaintPart'
  BY <1>13 DEF SnapshotLabel, TypeOK, RequestStates, PastTaint, PastDominates, Inheriting, TaintPart, MustBeTainted, touched
<1>14. ASSUME NEW r \in Ids, CheckSink(r) PROVE TaintPart'
  <2>1. /\ rq[r].pc = "approval" /\ UNCHANGED <<label, owed, tokState, tokParent>>
        /\ \/ Goto(r, "policies")
           \/ Decide(r, "deny", "sink")
    BY <1>14 DEF CheckSink
  <2>2. CASE Goto(r, "policies")
    BY <2>1, <2>2 DEF TypeOK, RequestStates, PastTaint, PastDominates, Inheriting, Goto, Decide, TaintPart, MustBeTainted, touched
  <2>3. CASE Decide(r, "deny", "sink")
    BY <2>1, <2>3 DEF TypeOK, RequestStates, PastTaint, PastDominates, Inheriting, Goto, Decide, TaintPart, MustBeTainted, touched
  <2> QED
    BY <2>1, <2>2, <2>3
<1>15. ASSUME NEW r \in Ids, PoliciesDecide(r) PROVE TaintPart'
  BY <1>15 DEF PoliciesDecide, TypeOK, RequestStates, PastTaint, PastDominates, Inheriting, Decide, TaintPart, MustBeTainted, touched
<1>16. ASSUME NEW r \in Ids, ScanFinds(r) PROVE TaintPart'
  <2>1. Tainted(label'[rq[r].s])
    BY <1>16, ElevateLow, LowLabels DEF ScanFinds, TypeOK, LabelPart, Low, TaintWithSecret, Elevate
  <2>2. /\ \A q \in Ids \ {r} : rq'[q] = rq[q]
        /\ rq'[r].pc # "isTainted" /\ rq'[r].s = rq[r].s /\ rq'[r].q = rq[r].q
        /\ rq'[r].late = rq[r].late /\ rq'[r].heir = rq[r].heir /\ rq'[r].pc = "handle"
        /\ rq[r].s \in Sessions
    BY <1>16 DEF ScanFinds, TypeOK, RequestStates, Decide
  <2>3. MustBeTainted(r)' => Tainted(label'[rq'[r].s])
    BY <1>16, <2>1, <2>2 DEF ScanFinds, PastTaint, PastDominates, TaintPart, MustBeTainted, touched
  <2> QED
    BY <1>16, <2>2, <2>3, TaintFrame DEF ScanFinds
<1>17. ASSUME NEW r \in Ids, PoliciesPass(r) PROVE TaintPart'
  BY <1>17 DEF PoliciesPass, TypeOK, RequestStates, PastTaint, PastDominates, Inheriting, Goto, TaintPart, MustBeTainted, touched
<1>18. ASSUME NEW r \in Ids, ElevateAllowed(r) PROVE TaintPart'
  <2>1. /\ \A q \in Ids \ {r} : rq'[q] = rq[q]
        /\ rq'[r].pc # "isTainted" /\ rq'[r].s = rq[r].s /\ rq'[r].q = rq[r].q
        /\ rq'[r].late = rq[r].late /\ rq'[r].heir = rq[r].heir /\ rq'[r].pc = "spawn"
        /\ rq[r].s \in Sessions
    BY <1>18 DEF ElevateAllowed, TypeOK, RequestStates, Goto
  <2>2. MustBeTainted(r)' => Tainted(label'[rq'[r].s])
    BY <1>18, <2>1 DEF ElevateAllowed, PastTaint, PastDominates, TaintPart, MustBeTainted, touched
  <2> QED
    BY <1>18, <2>1, <2>2, TaintFrame DEF ElevateAllowed
<1>19. ASSUME NEW r \in Ids, AllowAgent(r) PROVE TaintPart'
  BY <1>19 DEF AllowAgent, TypeOK, RequestStates, PastTaint, PastDominates, Inheriting, TaintPart, MustBeTainted, touched
<1>20. ASSUME NEW r \in Ids, Allow(r) PROVE TaintPart'
  BY <1>20 DEF Allow, TypeOK, RequestStates, PastTaint, PastDominates, Inheriting, Decide, TaintPart, MustBeTainted, touched
<1>21. ASSUME NEW r \in Ids, Handle(r) PROVE TaintPart'
  <2>1. /\ \A q \in Ids \ {r} : rq'[q] = rq[q]
        /\ rq'[r].pc # "isTainted" /\ rq'[r].s = rq[r].s /\ rq'[r].q = rq[r].q
        /\ rq'[r].late = rq[r].late /\ rq'[r].heir = rq[r].heir /\ rq'[r].pc = "respond" /\ rq'[r].layer = rq[r].layer
        /\ rq[r].s \in Sessions
    BY <1>21 DEF Handle, TypeOK, RequestStates, Goto
  <2>2. MustBeTainted(r)' => Tainted(label'[rq'[r].s])
    BY <1>21, <2>1 DEF Handle, PastTaint, PastDominates, TaintPart, MustBeTainted, touched
  <2> QED
    BY <1>21, <2>1, <2>2, TaintFrame DEF Handle
<1>22. ASSUME NEW r \in Ids, Respond(r) PROVE TaintPart'
  BY <1>22 DEF Respond, TypeOK, RequestStates, PastTaint, PastDominates, Inheriting, Goto, TaintPart, MustBeTainted, touched
<1>23. ASSUME NEW c \in Children, StartChild(c) PROVE TaintPart'
  BY <1>23 DEF StartChild, TaintPart, MustBeTainted, touched
<1>24. ASSUME NEW t \in Tokens, Expire(t) PROVE TaintPart'
  BY <1>24 DEF Expire, TypeOK, TaintPart, MustBeTainted, touched
<1>25. ASSUME NEW s \in Sessions, Grant(s) PROVE TaintPart'
  BY <1>25 DEF Grant, TypeOK, TaintPart, MustBeTainted, touched
<1>26. CASE UNCHANGED vars
  BY <1>26 DEF vars, TaintPart, MustBeTainted, touched
<1> QED
  BY <1>1, <1>2, <1>3, <1>4, <1>5, <1>6, <1>7, <1>8, <1>9, <1>10, <1>11, <1>12, <1>13, <1>14, <1>15, <1>16, <1>17, <1>18, <1>19, <1>20, <1>21, <1>22, <1>23, <1>24, <1>25, <1>26 DEF Next, Evaluate
-----------------------------------------------------------------------------
LEMMA SinkInit == Init => SinkPart
BY DEF Init, SinkPart, SinkOf, IdleRequest

LEMMA SinkStep ==
  ASSUME TypeOK, TaintPart, SinkPart, [Next]_vars
  PROVE  SinkPart'
<1> USE DEF sessionState, tokenState
<1>1. ASSUME NEW r \in Ids, Receive(r) PROVE SinkPart'
  BY <1>1 DEF Receive, SinkPart, SinkOf, allowedEgress, approved, TypeOK, IdleRequest
<1>2. ASSUME NEW r \in Ids, DenyEarly(r) PROVE SinkPart'
  BY <1>2 DEF DenyEarly, SinkPart, SinkOf, allowedEgress, approved, TypeOK, RequestStates, Decide
<1>3. ASSUME NEW r \in Ids, ClaimFresh(r) PROVE SinkPart'
  BY <1>3 DEF ClaimFresh, SinkPart, SinkOf, allowedEgress, approved, TypeOK, RequestStates
<1>4. ASSUME NEW r \in Ids, ClaimNothing(r) PROVE SinkPart'
  BY <1>4 DEF ClaimNothing, SinkPart, SinkOf, allowedEgress, approved, TypeOK, RequestStates, Goto
<1>5. ASSUME NEW r \in Ids, SeeParent(r) PROVE SinkPart'
  BY <1>5 DEF SeeParent, SinkPart, SinkOf, allowedEgress, approved, TypeOK, RequestStates, Goto
<1>6. ASSUME NEW r \in Ids, TaintChild(r) PROVE SinkPart'
  BY <1>6 DEF TaintChild, SinkPart, SinkOf, allowedEgress, approved, TypeOK, RequestStates, Goto
<1>7. ASSUME NEW r \in Ids, ReadParent(r) PROVE SinkPart'
  BY <1>7 DEF ReadParent, SinkPart, SinkOf, allowedEgress, approved, TypeOK, RequestStates
<1>8. ASSUME NEW r \in Ids, SetCeiling(r) PROVE SinkPart'
  BY <1>8 DEF SetCeiling, SinkPart, SinkOf, allowedEgress, approved, TypeOK, RequestStates, Goto
<1>9. ASSUME NEW r \in Ids, DenyClassified(r) PROVE SinkPart'
  BY <1>9 DEF DenyClassified, SinkPart, SinkOf, allowedEgress, approved, TypeOK, RequestStates, Decide
<1>10. ASSUME NEW r \in Ids, MaybeTaint(r) PROVE SinkPart'
  BY <1>10 DEF MaybeTaint, SinkPart, SinkOf, allowedEgress, approved, TypeOK, RequestStates, Goto
<1>11. ASSUME NEW r \in Ids, CheckDominates(r) PROVE SinkPart'
  <2>1. CASE rq' = [rq EXCEPT ![r] = [@ EXCEPT !.pc = "ceiling", !.seen = label[rq[r].s]]]
    BY <1>11, <2>1 DEF CheckDominates, SinkPart, SinkOf, allowedEgress, approved, TypeOK, RequestStates
  <2>2. CASE rq' = [rq EXCEPT ![r] = [@ EXCEPT !.pc = "handle", !.seen = label[rq[r].s],
                                               !.act = "deny", !.layer = "ifc"]]
    BY <1>11, <2>2 DEF CheckDominates, SinkPart, SinkOf, allowedEgress, approved, TypeOK, RequestStates
  <2> QED
    BY <1>11, <2>1, <2>2 DEF CheckDominates
<1>12. ASSUME NEW r \in Ids, CheckCeiling(r) PROVE SinkPart'
  <2>1. CASE Goto(r, "sink")
    BY <1>12, <2>1 DEF CheckCeiling, SinkPart, SinkOf, allowedEgress, approved, TypeOK, RequestStates, Goto
  <2>2. CASE Decide(r, "deny", "ceiling")
    BY <1>12, <2>2 DEF CheckCeiling, SinkPart, SinkOf, allowedEgress, approved, TypeOK, RequestStates, Decide
  <2> QED
    BY <1>12, <2>1, <2>2 DEF CheckCeiling
<1>13. ASSUME NEW r \in Ids, SnapshotLabel(r) PROVE SinkPart'
  <2>1. rq[r].late # {} => Tainted(label[rq[r].s])
    BY <1>13 DEF SnapshotLabel, TaintPart, MustBeTainted
  <2> QED
    BY <1>13, <2>1 DEF SnapshotLabel, SinkPart, SinkOf, allowedEgress, approved, TypeOK, RequestStates
<1>14. ASSUME NEW r \in Ids, CheckSink(r) PROVE SinkPart'
  <2> DEFINE snap == [isTainted |-> Tainted(rq[r].seen), rules |-> rules[rq[r].s],
                      approval |-> IF rules[rq[r].s] = {} THEN ApprovalNone
                                                          ELSE ApprovalStandingRule]
  <2>1. CASE Decision(snap, rq[r].q, 0) = "allow"
    <3>1. rq[r].late # {} /\ egress(rq[r].q) => approved(r)
      <4>1. rq[r].late # {} => Tainted(rq[r].seen)
        BY <1>14 DEF CheckSink, SinkPart, SinkOf
      <4>2. snap.approval # ApprovalSessionGranted /\ snap.rules = rules[rq[r].s]
            /\ snap.isTainted = Tainted(rq[r].seen)
        BY DEF ApprovalNone, ApprovalStandingRule, ApprovalSessionGranted
      <4> HIDE DEF snap
      <4> QED
        BY <2>1, <4>1, <4>2 DEF Decision, egress, approved
    <3>2. Goto(r, "policies")
      BY <1>14, <2>1 DEF CheckSink
    <3> HIDE DEF snap
    <3> QED
      BY <1>14, <3>1, <3>2 DEF CheckSink, SinkPart, SinkOf, allowedEgress, approved, TypeOK, RequestStates, Goto
  <2>2. CASE Decision(snap, rq[r].q, 0) # "allow"
    <3>1. Decide(r, "deny", "sink")
      BY <1>14, <2>2 DEF CheckSink
    <3> HIDE DEF snap
    <3> QED
      BY <1>14, <3>1 DEF CheckSink, SinkPart, SinkOf, allowedEgress, approved, TypeOK, RequestStates, Decide
  <2> QED
    BY <2>1, <2>2
<1>15. ASSUME NEW r \in Ids, PoliciesDecide(r) PROVE SinkPart'
  BY <1>15 DEF PoliciesDecide, SinkPart, SinkOf, allowedEgress, approved, TypeOK, RequestStates, Decide
<1>16. ASSUME NEW r \in Ids, ScanFinds(r) PROVE SinkPart'
  BY <1>16 DEF ScanFinds, SinkPart, SinkOf, allowedEgress, approved, TypeOK, RequestStates, Decide
<1>17. ASSUME NEW r \in Ids, PoliciesPass(r) PROVE SinkPart'
  BY <1>17 DEF PoliciesPass, SinkPart, SinkOf, allowedEgress, approved, TypeOK, RequestStates, Goto
<1>18. ASSUME NEW r \in Ids, ElevateAllowed(r) PROVE SinkPart'
  BY <1>18 DEF ElevateAllowed, SinkPart, SinkOf, allowedEgress, approved, TypeOK, RequestStates, Goto
<1>19. ASSUME NEW r \in Ids, AllowAgent(r) PROVE SinkPart'
  BY <1>19 DEF AllowAgent, SinkPart, SinkOf, allowedEgress, approved, TypeOK, RequestStates
<1>20. ASSUME NEW r \in Ids, Allow(r) PROVE SinkPart'
  BY <1>20 DEF Allow, SinkPart, SinkOf, allowedEgress, approved, TypeOK, RequestStates, Decide
<1>21. ASSUME NEW r \in Ids, Handle(r) PROVE SinkPart'
  BY <1>21 DEF Handle, SinkPart, SinkOf, allowedEgress, approved, TypeOK, RequestStates, Goto
<1>22. ASSUME NEW r \in Ids, Respond(r) PROVE SinkPart'
  BY <1>22 DEF Respond, SinkPart, SinkOf, allowedEgress, approved, TypeOK, RequestStates, Goto
<1>23. ASSUME NEW c \in Children, StartChild(c) PROVE SinkPart'
  BY <1>23 DEF StartChild, SinkPart, SinkOf, allowedEgress, approved
<1>24. ASSUME NEW t \in Tokens, Expire(t) PROVE SinkPart'
  BY <1>24 DEF Expire, SinkPart, SinkOf, allowedEgress, approved
<1>25. ASSUME NEW s \in Sessions, Grant(s) PROVE SinkPart'
  <2>1. rq' = rq /\ \A u \in Sessions : rules[u] \subseteq rules'[u]
    BY <1>25 DEF Grant, TypeOK
  <2>2. ASSUME NEW r \in Ids, rq[r].late # {} PROVE rq[r].s \in Sessions
    BY <2>2 DEF TypeOK, SinkPart, SinkOf
  <2>3. ASSUME NEW r \in Ids, rq[r].s \in Sessions, approved(r) PROVE approved(r)'
    BY <2>1, <2>3 DEF approved, allResourcesCovered
  <2> QED
    BY <2>1, <2>2, <2>3 DEF SinkPart, SinkOf, allowedEgress
<1>26. CASE UNCHANGED vars
  BY <1>26 DEF vars, SinkPart, SinkOf, allowedEgress, approved
<1> QED
  BY <1>1, <1>2, <1>3, <1>4, <1>5, <1>6, <1>7, <1>8, <1>9, <1>10, <1>11, <1>12, <1>13, <1>14, <1>15, <1>16, <1>17, <1>18, <1>19, <1>20, <1>21, <1>22, <1>23, <1>24, <1>25, <1>26 DEF Next, Evaluate
-----------------------------------------------------------------------------
LEMMA PipeInvInit == Init => PipeInv
BY TypeInit, LabelInit, TaintInit, SinkInit DEF PipeInv

LEMMA PipeInvStep == PipeInv /\ [Next]_vars => PipeInv'
<1> SUFFICES ASSUME PipeInv, [Next]_vars PROVE PipeInv'
  OBVIOUS
<1>1. TypeOK'
  BY TypeStep DEF PipeInv
<1>2. LabelPart' /\ \A s \in Sessions : Tainted(label[s]) => Tainted(label'[s])
  BY LabelStep DEF PipeInv
<1>3. TaintPart'
  BY <1>2, TaintStep DEF PipeInv
<1>4. SinkPart'
  BY SinkStep DEF PipeInv
<1> QED
  BY <1>1, <1>2, <1>3, <1>4 DEF PipeInv

LEMMA PipeInvHolds == Spec => []PipeInv
BY PipeInvInit, PipeInvStep, PTL DEF Spec

(* The variables of the pipeline have their types; a request that claimed  *)
(* a spawn token knows the session that issued it (engine.go 921-945).     *)
THEOREM TypeCorrect == Spec => []TypeOK
<1>1. PipeInv => TypeOK
  BY DEF PipeInv
<1> QED
  BY <1>1, PipeInvHolds, PTL

(* Whatever is claimed and accessed, by however many requests at once, the *)
(* label of a session is zero or the bare taint bit (engine.go 347, 524,   *)
(* handler.go 149).                                                        *)
THEOREM LabelsZeroOrTaintHolds == Spec => []LabelsZeroOrTaint
<1>1. PipeInv => LabelsZeroOrTaint
  BY DEF PipeInv, LabelPart, LabelsZeroOrTaint, Low
<1> QED
  BY <1>1, PipeInvHolds, PTL

(* The ceiling inherited from a parent never refuses a request             *)
(* (engine.go 369, 953).                                                   *)
THEOREM CeilingNeverDeniesHolds == Spec => []CeilingNeverDenies
<1>1. PipeInv => CeilingNeverDenies
  BY DEF PipeInv, LabelPart, CeilingNeverDenies
<1> QED
  BY <1>1, PipeInvHolds, PTL

(* A session one of whose answered requests touched a secret is allowed no *)
(* later egress without an approval, for every interleaving of its         *)
(* requests (engine.go 347, 379).                                          *)
THEOREM EgressAfterSecretDeniedHolds == Spec => []EgressAfterSecretDenied
<1>1. PipeInv => EgressAfterSecretDenied
  BY DEF PipeInv, SinkPart, SinkOf, EgressAfterSecretDenied
<1> QED
  BY <1>1, PipeInvHolds, PTL

(* A child session that claimed its parent's token and was answered is     *)
(* allowed no later egress without an approval (engine.go 530, 921-955).   *)
THEOREM ChildEgressDeniedHolds == Spec => []ChildEgressDenied
<1>1. PipeInv => ChildEgressDenied
  BY DEF PipeInv, SinkPart, SinkOf, ChildEgressDenied
<1> QED
  BY <1>1, PipeInvHolds, PTL
-----------------------------------------------------------------------------
(* Delegation chains.                                                      *)
LEMMA ChainTokens ==
  ASSUME NEW refs, IsChain(refs)
  PROVE  LET ts == tokensOf(refs)
         IN  /\ Len(ts) \in Nat \ {0} /\ DOMAIN ts = 1 .. Len(ts) /\ DOMAIN ts = DOMAIN refs
             /\ \A i \in DOMAIN ts : ts[i].exp \in Nat /\ ts[i].caps.risk \in Int
<1> DEFINE ts == tokensOf(refs)
           Sent == {refs[i].token : i \in DOMAIN refs}
<1>1. Len(refs) \in Nat \ {0} /\ DOMAIN refs = 1 .. Len(refs)
  BY DEF IsChain
<1>2. ts \in [1 .. Len(refs) -> Sent] /\ DOMAIN ts = DOMAIN refs
  BY <1>1 DEF tokensOf
<1>3. Len(ts) = Len(refs)
  BY <1>1, <1>2
<1>4. \A i \in DOMAIN ts : ts[i] = refs[i].token
  BY DEF tokensOf
<1> QED BY <1>1, <1>2, <1>3, <1>4 DEF IsChain

(* A set of times, or of places, that is not empty has a first.            *)
LEMMA FirstTime ==
  ASSUME NEW T, T \subseteq Nat, T # {}
  PROVE  Min(T) \in T /\ \A x \in T : Min(T) <= x
<1> DEFINE Less == {ss \in Nat \X Nat : ss[1] < ss[2]}
<1>1. IsWellFoundedOn(Less, Nat)
  BY NatLessThanWellFounded, Zenon DEF OpToRel
<1>2. PICK m \in T : \A y \in T : ~ (<<y, m>> \in Less)
  <2> HIDE DEF Less
  <2> QED BY <1>1, WFMin, Zenon
<1>3. \A y \in T : m <= y
  <2> SUFFICES ASSUME NEW y \in T, ~ m <= y PROVE FALSE
    OBVIOUS
  <2>1. y \in Nat /\ m \in Nat /\ y < m
    OBVIOUS
  <2>2. <<y, m>> \in Nat \X Nat /\ <<y, m>>[1] < <<y, m>>[2]
    BY <2>1
  <2>3. <<y, m>> \in Less
    BY <2>2, Zenon
  <2> QED
    BY <1>2, <2>3
<1>4. \E x \in T : \A y \in T : x <= y
  BY <1>3
<1> QED
  BY <1>4, Zenon DEF Min

LEMMA LesserRisk ==
  ASSUME NEW a \in Int, NEW b \in Int
  PROVE  Min({a, b}) \in Int /\ Min({a, b}) <= a /\ Min({a, b}) <= b
<1>1. \E x \in {a, b} : \A y \in {a, b} : x <= y
  OBVIOUS
<1> QED
  BY <1>1 DEF Min

(* What is accepted: the three conditions of buildChain under the two of   *)
(* ValidateChain, and the chain that comes of it.                          *)
LEMMA AcceptedChain ==
  ASSUME NEW refs, NEW trusted, NEW now, refs # <<>>,
         ValidateChain(refs, trusted, now).ok
  PROVE  LET ts == tokensOf(refs)
             chain == ValidateChain(refs, trusted, now)
         IN  /\ Len(refs) <= maxChainDepth /\ decodeAndVerify(refs, trusted)
             /\ \A i \in 1 .. Len(ts) : now <= ts[i].exp
             /\ chain = buildChain(ts, now)
             /\ chain.tokens = ts /\ chain.depth = Len(ts)
<1>1. Refused.ok = FALSE
  BY DEF Refused
<1>2. /\ Len(refs) <= maxChainDepth /\ decodeAndVerify(refs, trusted)
      /\ ValidateChain(refs, trusted, now) = buildChain(tokensOf(refs), now)
  BY <1>1 DEF ValidateChain
<1> QED
  BY <1>1, <1>2 DEF buildChain

(* The first two grants; only they are looked at, since a longer chain is  *)
(* given the ceiling for reading.                                          *)
LEMMA FirstGrants ==
  ASSUME NEW ts, Len(ts) \in 1 .. 2
  PROVE  /\ granted(ts)[1] = ts[1].caps
         /\ Len(ts) = 2 => granted(ts)[2] = Intersect(ts[1].caps, ts[2].caps)
<1> DEFINE D == 1 .. Len(ts)
           Fits(f) == f = [i \in D |-> IF i = 1 THEN ts[1].caps ELSE Intersect(f[i - 1], ts[i].caps)]
           two == [i \in D |-> IF i = 1 THEN ts[1].caps ELSE Intersect(ts[1].caps, ts[2].caps)]
<1>1. D \subseteq {1, 2} /\ 1 \in D /\ (Len(ts) = 2 => 2 \in D)
  <2>1. PICK n \in 1 .. 2 : n = Len(ts)
    OBVIOUS
  <2>2. 1 .. n \subseteq {1, 2} /\ 1 \in 1 .. n /\ (n = 2 => 2 \in 1 .. n)
    OBVIOUS
  <2> QED BY <2>1, <2>2
<1>2. Fits(two)
  <2>1. \A i \in D : two[i] = IF i = 1 THEN ts[1].caps ELSE Intersect(two[i - 1], ts[i].caps)
    BY <1>1
  <2>2. two = [i \in D |-> two[i]]
    OBVIOUS
  <2> HIDE DEF two, D
  <2> QED BY <2>1, <2>2
<1>3. granted(ts) = CHOOSE f : Fits(f)
  BY DEF granted
<1>4. Fits(granted(ts))
  <2> HIDE DEF Fits, two
  <2> QED BY <1>2, <1>3, Zenon
<1> HIDE DEF D
<1>5. granted(ts)[1] = ts[1].caps
  BY <1>1, <1>4
<1>6. Len(ts) = 2 => granted(ts)[2] = Intersect(granted(ts)[2 - 1], ts[2].caps)
  BY <1>1, <1>4
<1> QED
  BY <1>5, <1>6

(* A signature of the chain is one by a trusted key over what the token    *)
(* says.                                                                   *)
LEMMA Signed ==
  ASSUME NEW refs, NEW trusted, decodeAndVerify(refs, trusted), NEW i \in DOMAIN refs
  PROVE  LET t == tokensOf(refs)[i]
         IN  t.sig.key \in trusted /\ t.sig.over.caps = t.caps
<1> DEFINE t == refs[i].token
<1>1. PICK key \in trusted : t.sig = [key |-> key, over |-> Hash(t)]
  BY DEF decodeAndVerify, verifyWithAnyKey, verifySignature
<1>2. t.sig.key = key /\ t.sig.over = Hash(t)
  BY <1>1
<1>3. Hash(t).caps = t.caps
  BY DEF Hash
<1>4. tokensOf(refs)[i] = t
  BY DEF tokensOf
<1> QED BY <1>2, <1>3, <1>4

(* What a chain permits, its tokens grant and were signed for, and a chain *)
(* of more than two tokens permits reading only (chain.go buildChain and   *)
(* Permits): for chains of any tokens, any trusted keys and any request.   *)
THEOREM ChainPermitsWithin ==
  ASSUME NEW refs, IsChain(refs), NEW trusted, NEW now,
         ValidateChain(refs, trusted, now).ok,
         NEW asked, asked.risk \in Int
  PROVE  PermitsWithin(ValidateChain(refs, trusted, now), trusted, asked)
<1> DEFINE ts == tokensOf(refs)
           chain == ValidateChain(refs, trusted, now)
<1>1. /\ decodeAndVerify(refs, trusted) /\ chain = buildChain(ts, now)
      /\ chain.tokens = ts /\ chain.depth = Len(ts)
  BY AcceptedChain DEF IsChain
<1>2. /\ DOMAIN ts = DOMAIN refs /\ Len(ts) \in Nat \ {0} /\ DOMAIN ts = 1 .. Len(ts)
      /\ \A i \in DOMAIN ts : ts[i].caps.risk \in Int
  BY ChainTokens
<1>3. chain.grants = IF Len(ts) > 2 THEN ReadOnlyCeiling ELSE granted(ts)[Len(ts)]
  BY <1>1 DEF buildChain, Refused
<1> HIDE DEF ts, chain
<1> SUFFICES ASSUME Permits(chain, asked.ops, asked.effects, asked.resources, asked.risk)
             PROVE  IF chain.depth <= 2
                    THEN \A i \in DOMAIN chain.tokens :
                           /\ chain.tokens[i].sig.key \in trusted
                           /\ IsSubsetOf(asked, chain.tokens[i].sig.over.caps)
                    ELSE asked.ops \subseteq {"read"} /\ asked.effects = {} /\ asked.risk <= 0
  BY DEF PermitsWithin, chain
<1>4. CASE Len(ts) > 2
  BY <1>1, <1>2, <1>3, <1>4 DEF Permits, ReadOnlyCeiling, Capabilities
<1>5. CASE Len(ts) <= 2
  <2>1. \A i \in DOMAIN ts : IsSubsetOf(asked, ts[i].caps)
    <3>1. CASE Len(ts) = 1
      BY <1>2, <1>3, <3>1, FirstGrants DEF Permits, IsSubsetOf
    <3>2. CASE Len(ts) = 2
      <4>1. chain.grants = Intersect(ts[1].caps, ts[2].caps)
        BY <1>2, <1>3, <3>2, FirstGrants
      <4>2. /\ chain.grants.risk <= ts[1].caps.risk /\ chain.grants.risk <= ts[2].caps.risk
            /\ chain.grants.risk \in Int
        <5>1. chain.grants.risk = Min({ts[1].caps.risk, ts[2].caps.risk})
          BY <4>1 DEF Intersect, Capabilities
        <5>2. ts[1].caps.risk \in Int /\ ts[2].caps.risk \in Int
          BY <1>2, <3>2
        <5> QED BY <5>1, <5>2, LesserRisk
      <4>3. \A i \in {1, 2} : /\ chain.grants.ops \subseteq ts[i].caps.ops
                              /\ chain.grants.effects \subseteq ts[i].caps.effects
                              /\ chain.grants.resources \subseteq ts[i].caps.resources
        BY <4>1 DEF Intersect, Capabilities
      <4>4. \A i \in {1, 2} : IsSubsetOf(asked, ts[i].caps)
        BY <1>2, <3>2, <4>2, <4>3 DEF Permits, IsSubsetOf
      <4> QED BY <1>2, <3>2, <4>4
    <3> QED BY <1>2, <1>5, <3>1, <3>2
  <2>2. \A i \in DOMAIN ts : ts[i].sig.key \in trusted /\ ts[i].sig.over.caps = ts[i].caps
    BY <1>1, <1>2, Signed DEF ts
  <2> QED BY <1>1, <1>2, <1>5, <2>1, <2>2
<1> QED BY <1>2, <1>4, <1>5

(* A chain that the engine may track: it has tokens, each with an expiry.  *)
Tracked(chain) ==
  /\ \E n \in Nat \ {0} : DOMAIN chain.tokens = 1 .. n
  /\ \A i \in DOMAIN chain.tokens : chain.tokens[i].exp \in Nat

(* The earliest expiry of a chain is that of its first token to expire.    *)
LEMMA CeilingEnds ==
  ASSUME NEW chain, Tracked(chain)
  PROVE  LET ends == EffectiveCeiling(chain).expiresAt
         IN  /\ ends \in Nat
             /\ \A t \in Int : t <= ends <=> \A i \in DOMAIN chain.tokens : t <= chain.tokens[i].exp
<1> DEFINE T == {chain.tokens[i].exp : i \in DOMAIN chain.tokens}
           ends == EffectiveCeiling(chain).expiresAt
<1>1. T \subseteq Nat /\ T # {} /\ \A i \in DOMAIN chain.tokens : chain.tokens[i].exp \in Nat
  <2>1. 1 \in DOMAIN chain.tokens
    BY DEF Tracked
  <2> QED BY <2>1 DEF Tracked
<1>2. ends = Min(T)
  BY DEF EffectiveCeiling
<1>3. ends \in T /\ \A x \in T : ends <= x
  <2> HIDE DEF T, ends
  <2> QED BY <1>1, <1>2, FirstTime
<1>4. PICK i \in DOMAIN chain.tokens : ends = chain.tokens[i].exp
  BY <1>3
<1>5. \A j \in DOMAIN chain.tokens : ends <= chain.tokens[j].exp
  BY <1>3
<1> HIDE DEF T, ends
<1>6. ends \in Nat
  BY <1>1, <1>4
<1>7. ASSUME NEW t \in Int
      PROVE  t <= ends <=> \A j \in DOMAIN chain.tokens : t <= chain.tokens[j].exp
  BY <1>1, <1>4, <1>5, <1>6
<1> QED BY <1>6, <1>7 DEF ends

(* A chain that was accepted once is accepted, tracked and listed until    *)
(* the same time: validation, sweep and ceiling agree on when it ends      *)
(* (chain.go 167, engine.go 238), for chains of any tokens.                *)
THEOREM ChainEndsAtCeiling ==
  ASSUME NEW refs, IsChain(refs), NEW trusted, NEW now,
         ValidateChain(refs, trusted, now).ok, NEW t \in Int, NEW tool
  PROVE  EndsAtCeiling(refs, trusted, ValidateChain(refs, trusted, now), t, tool)
<1> DEFINE ts == tokensOf(refs)
           chain == ValidateChain(refs, trusted, now)
           ends == EffectiveCeiling(chain).expiresAt
<1>1. /\ Len(refs) <= maxChainDepth /\ decodeAndVerify(refs, trusted)
      /\ chain = buildChain(ts, now) /\ chain.tokens = ts
  BY AcceptedChain DEF IsChain
<1>2. /\ Len(ts) \in Nat \ {0} /\ DOMAIN ts = 1 .. Len(ts)
      /\ \A i \in DOMAIN ts : ts[i].exp \in Nat
  BY ChainTokens
<1>3. refs # <<>> /\ Tracked(chain)
  <2>1. refs # <<>>
    BY DEF IsChain
  <2>2. Tracked(chain)
    <3> HIDE DEF ts, chain
    <3> QED BY <1>1, <1>2, Zenon DEF Tracked
  <2> QED BY <2>1, <2>2
<1>4. /\ ends \in Nat
      /\ t <= ends <=> \A i \in DOMAIN ts : t <= ts[i].exp
  <2> HIDE DEF ts, chain
  <2> QED BY <1>1, <1>2, <1>3, CeilingEnds
<1>5. ValidateChain(refs, trusted, t).ok <=> t <= ends
  <2>1. /\ \A i \in 2 .. Len(ts) : ts[i].parent = <<Hash(ts[i - 1])>>
        /\ \A i \in 2 .. Len(ts) : IsSubsetOf(ts[i].caps, granted(ts)[i - 1])
    BY <1>1 DEF buildChain, Refused
  <2>2. buildChain(ts, t).ok <=> \A i \in DOMAIN ts : t <= ts[i].exp
    BY <1>2, <2>1 DEF buildChain, Refused
  <2>3. ValidateChain(refs, trusted, t) = buildChain(ts, t)
    BY <1>1, <1>3 DEF ValidateChain
  <2> QED BY <1>4, <2>2, <2>3
<1>6. isChainExpired(chain, t) <=> t > ends
  <2> HIDE DEF ts, chain, ends
  <2> QED BY <1>1, <1>2, <1>4 DEF isChainExpired
<1>7. ApplyCeiling(tool, EffectiveCeiling(chain), t) <=> t <= ends
  <2>1. EffectiveCeiling(chain).capabilities = {}
    BY DEF EffectiveCeiling
  <2> QED BY <2>1 DEF ApplyCeiling
<1> QED BY <1>5, <1>6, <1>7 DEF EndsAtCeiling

(* The sweep removes and tells of exactly the chains whose ceiling has     *)
(* expired, however many are tracked, and lists none of them (engine.go    *)
(* 194, chain.go Ceiling).                                                 *)
THEOREM SweepIsExact ==
  ASSUME NEW active, NEW t \in Int,
         \A id \in DOMAIN active : Tracked(active[id])
  PROVE  SweepExact(active, t)
<1> DEFINE left == removeExpired(active, t)
<1>1. \A id \in DOMAIN active :
        isChainExpired(active[id], t) <=> ~ (t <= EffectiveCeiling(active[id]).expiresAt)
  <2> SUFFICES ASSUME NEW id \in DOMAIN active
               PROVE  isChainExpired(active[id], t) <=> ~ (t <= EffectiveCeiling(active[id]).expiresAt)
    OBVIOUS
  <2>1. t <= EffectiveCeiling(active[id]).expiresAt
          <=> \A i \in DOMAIN active[id].tokens : t <= active[id].tokens[i].exp
    BY CeilingEnds
  <2>2. \A i \in DOMAIN active[id].tokens : active[id].tokens[i].exp \in Nat
    BY DEF Tracked
  <2> QED BY <2>1, <2>2 DEF isChainExpired
<1>2. /\ left.emitted = {id \in DOMAIN active : isChainExpired(active[id], t)}
      /\ DOMAIN left.active = DOMAIN active \ left.emitted
      /\ \A id \in DOMAIN left.active : left.active[id] = active[id]
  BY DEF removeExpired
<1>3. \A id \in DOMAIN active :
        id \in DOMAIN left.active <=> t <= EffectiveCeiling(active[id]).expiresAt
  BY <1>1, <1>2
<1>4. \A l \in ListActive(left.active) : t <= l.expiresAt
  <2> SUFFICES ASSUME NEW id \in DOMAIN left.active
               PROVE  t <= EffectiveCeiling(left.active[id]).expiresAt
    BY DEF ListActive
  <2>1. id \in DOMAIN active /\ left.active[id] = active[id]
    BY <1>2
  <2> QED BY <1>3, <2>1
<1> QED BY <1>2, <1>3, <1>4 DEF SweepExact

(* The first token of a chain that is accepted makes a chain of its own,   *)
(* which is accepted.                                                      *)
LEMMA ParentAccepted ==
  ASSUME NEW refs, IsChain(refs), NEW trusted, NEW now,
         ValidateChain(refs, trusted, now).ok
  PROVE  IsChain(<<refs[1]>>) /\ ValidateChain(<<refs[1]>>, trusted, now).ok
<1> DEFINE one == <<refs[1]>>
           ts == tokensOf(refs)
           us == tokensOf(one)
<1>1. /\ Len(ts) \in Nat \ {0} /\ DOMAIN ts = 1 .. Len(ts) /\ DOMAIN ts = DOMAIN refs
      /\ 1 \in DOMAIN refs /\ 1 \in 1 .. Len(ts)
  BY ChainTokens
<1>2. decodeAndVerify(refs, trusted) /\ \A i \in 1 .. Len(ts) : now <= ts[i].exp
  BY AcceptedChain DEF IsChain
<1>3. one # <<>> /\ Len(one) = 1 /\ DOMAIN one = {1} /\ one[1] = refs[1]
  OBVIOUS
<1>4. IsChain(one)
  <2>1. one \in Seq({one[i] : i \in DOMAIN one})
    OBVIOUS
  <2> HIDE DEF one
  <2> QED BY <1>1, <1>3, <2>1 DEF IsChain
<1>5. decodeAndVerify(one, trusted)
  BY <1>1, <1>2, <1>3 DEF decodeAndVerify
<1>6. us[1] = ts[1] /\ Len(us) = 1
  <2>1. us[1] = ts[1]
    BY <1>1, <1>3 DEF tokensOf
  <2>2. DOMAIN us = 1 .. Len(us) /\ Len(us) \in Nat /\ DOMAIN us = {1}
    BY <1>3, <1>4, ChainTokens
  <2>3. \A n \in Nat : 1 .. n = {1} => n = 1
    OBVIOUS
  <2> QED BY <2>1, <2>2, <2>3
<1>7. buildChain(us, now).ok
  <2>1. \A i \in 1 .. Len(us) : now <= us[i].exp
    BY <1>1, <1>2, <1>6
  <2>2. 2 .. Len(us) = {}
    <3>1. 2 .. 1 = {}
      OBVIOUS
    <3> QED BY <1>6, <3>1
  <2> HIDE DEF us
  <2> QED BY <2>1, <2>2 DEF buildChain
<1>8. ValidateChain(one, trusted, now) = buildChain(us, now)
  BY <1>3, <1>5 DEF ValidateChain, maxChainDepth
<1> QED BY <1>4, <1>7, <1>8

LEMMA AcceptedIsTracked ==
  ASSUME NEW refs, IsChain(refs), NEW trusted, NEW now,
         ValidateChain(refs, trusted, now).ok
  PROVE  Tracked(ValidateChain(refs, trusted, now))
<1>1. ValidateChain(refs, trusted, now).tokens = tokensOf(refs)
  BY AcceptedChain DEF IsChain
<1> QED BY <1>1, ChainTokens DEF Tracked

(* For chains of any tokens, any trusted keys, times and requests: what an *)
(* accepted chain permits its tokens grant and were signed for, it ends    *)
(* when the first of them does for validation, sweep and ceiling alike,    *)
(* and neither the sweep nor a revocation touches another chain (chain.go, *)
(* engine.go of internal/delegation).                                      *)
THEOREM DelegationBoundedHolds == Spec => []DelegationBounded
<1>1. ASSUME NEW refs \in Chains, NEW now \in Moments PROVE ChainBounded(refs, now)
  <2> DEFINE chain == ValidateChain(refs, KeyRing, now)
             parent == ValidateChain(<<refs[1]>>, KeyRing, now)
             inner(a) == Register([id \in {} |-> Refused], a, chain)
             tracked(a, b) == Register(inner(a), b, parent)
  <2>1. SUFFICES ASSUME chain.ok
                 PROVE  /\ parent.ok
                        /\ \A asked \in Asks : PermitsWithin(chain, KeyRing, asked)
                        /\ \A t \in Moments : EndsAtCeiling(refs, KeyRing, chain, t, "Bash")
                        /\ \A a, b \in ChainIds : a # b =>
                             /\ \A t \in Moments : SweepExact(tracked(a, b), t)
                             /\ handleRevoke(tracked(a, b), "POST", a) = [id \in {b} |-> parent]
    BY DEF ChainBounded
  <2>2. IsChain(refs) /\ Moments \subseteq Int /\ NoId \notin ChainIds
    BY DelegationAssumption
  <2>3. IsChain(<<refs[1]>>) /\ parent.ok
    BY <2>1, <2>2, ParentAccepted
  <2>4. Tracked(chain) /\ Tracked(parent)
    BY <2>1, <2>2, <2>3, AcceptedIsTracked
  <2>5. \A asked \in Asks : PermitsWithin(chain, KeyRing, asked)
    BY <2>1, <2>2, DelegationAssumption, ChainPermitsWithin
  <2>6. \A t \in Moments : EndsAtCeiling(refs, KeyRing, chain, t, "Bash")
    BY <2>1, <2>2, ChainEndsAtCeiling
  <2> HIDE DEF chain, parent
  <2>7. ASSUME NEW a \in ChainIds, NEW b \in ChainIds, a # b
        PROVE  /\ \A t \in Moments : SweepExact(tracked(a, b), t)
               /\ handleRevoke(tracked(a, b), "POST", a) = [id \in {b} |-> parent]
    <3>1. DOMAIN inner(a) = {a} /\ inner(a)[a] = chain
      BY DEF Register
    <3>2. tracked(a, b) = [x \in {a, b} |-> IF x = b THEN parent ELSE chain]
      <4> HIDE DEF inner
      <4>1. DOMAIN inner(a) \cup {b} = {a, b}
        BY <3>1
      <4>2. \A x \in {a, b} : x # b => inner(a)[x] = chain
        BY <3>1
      <4> QED BY <4>1, <4>2 DEF Register
    <3>3. ASSUME NEW t \in Moments PROVE SweepExact(tracked(a, b), t)
      <4>1. \A id \in DOMAIN tracked(a, b) : Tracked(tracked(a, b)[id])
        <5> HIDE DEF tracked
        <5> QED BY <2>4, <3>2
      <4> HIDE DEF tracked
      <4> QED BY <2>2, <4>1, SweepIsExact
    <3>4. handleRevoke(tracked(a, b), "POST", a) = Revoke(tracked(a, b), a)
      BY <2>2 DEF handleRevoke
    <3>5. Revoke(tracked(a, b), a) = [id \in {b} |-> parent]
      <4> HIDE DEF tracked
      <4>1. DOMAIN tracked(a, b) \ {a} = {b}
        BY <2>7, <3>2
      <4>2. tracked(a, b)[b] = parent
        BY <3>2
      <4> QED BY <4>1, <4>2 DEF Revoke
    <3> QED BY <3>3, <3>4, <3>5
  <2> QED BY <2>3, <2>5, <2>6, <2>7
<1>2. DelegationBounded
  BY <1>1 DEF DelegationBounded
<1> QED BY <1>2, PTL
-----------------------------------------------------------------------------
(* The table of the classifier.                                            *)

(* Induction over the naturals, for a set in place of a predicate.         *)
LEMMA SetInduction ==
  ASSUME NEW S, 0 \in S, \A n \in Nat : n \in S => n + 1 \in S
  PROVE  Nat \subseteq S
<1> DEFINE Less == {ss \in Nat \X Nat : ss[1] < ss[2]}
           T == Nat \ S
<1> SUFFICES ASSUME T # {} PROVE FALSE
  OBVIOUS
<1>1. IsWellFoundedOn(Less, Nat)
  BY NatLessThanWellFounded, Zenon DEF OpToRel
<1>2. PICK m \in T : \A y \in T : ~ (<<y, m>> \in Less)
  <2>1. T \subseteq Nat
    OBVIOUS
  <2> HIDE DEF Less, T
  <2> QED BY <1>1, <2>1, WFMin, Zenon
<1>3. m \in Nat \ {0} /\ m - 1 \in Nat /\ m - 1 < m /\ (m - 1) + 1 = m
  OBVIOUS
<1>4. <<m - 1, m>> \in Less
  <2>1. <<m - 1, m>> \in Nat \X Nat /\ <<m - 1, m>>[1] < <<m - 1, m>>[2]
    BY <1>3
  <2> QED BY <2>1, Zenon
<1>5. m - 1 \in S
  <2> HIDE DEF Less
  <2> QED BY <1>2, <1>3, <1>4
<1> QED
  BY <1>3, <1>5


(* Linear probing.                                                         *)
LEMMA Wrapped ==
  ASSUME NEW d \in Nat \ {0}, NEW x \in 0 .. d - 1
  PROVE  x % d = x /\ (x + d) % d = x
OBVIOUS

LEMMA RemainderType ==
  ASSUME NEW d \in Nat \ {0}, NEW x \in Nat
  PROVE  x % d \in 0 .. d - 1
OBVIOUS

(* Probing stays in the table and reaches every bucket of it.              *)
LEMMA ProbeReaches ==
  ASSUME NEW n \in Nat \ {0}, NEW T, DOMAIN T = 0 .. n - 1, NEW hash, NEW key, hash[key] \in Nat
  PROVE  /\ steps(T) = 0 .. n - 1
         /\ \A k \in 0 .. n - 1 : probe(T, hash, key, k) \in 0 .. n - 1
         /\ \A b \in 0 .. n - 1 : \E k \in 0 .. n - 1 : probe(T, hash, key, k) = b
<1> DEFINE h == hash[key] % n
<1>1. size(T) = n
  <2>1. Cardinality(0 .. n - 1) = n
    <3>1. 0 \in Int /\ n - 1 \in Int /\ ~ (0 > n - 1) /\ (n - 1) - 0 + 1 = n
      OBVIOUS
    <3> QED BY <3>1, FS_Interval
  <2> QED BY <2>1 DEF size
<1>2. h \in 0 .. n - 1
  BY RemainderType
<1>3. \A k : probe(T, hash, key, k) = (h + k) % n
  BY <1>1 DEF probe
<1> HIDE DEF h
<1>4. steps(T) = 0 .. n - 1
  BY <1>1 DEF steps
<1>5. ASSUME NEW k \in 0 .. n - 1 PROVE probe(T, hash, key, k) \in 0 .. n - 1
  <2>1. h + k \in Nat
    BY <1>2
  <2> QED BY <1>3, <2>1, RemainderType
<1>6. ASSUME NEW b \in 0 .. n - 1 PROVE \E k \in 0 .. n - 1 : probe(T, hash, key, k) = b
  <2>1. CASE h <= b
    <3>1. b - h \in 0 .. n - 1 /\ h + (b - h) = b
      BY <1>2, <2>1
    <3>2. b % n = b
      BY Wrapped
    <3> QED BY <1>3, <3>1, <3>2
  <2>2. CASE b < h
    <3>1. (b - h) + n \in 0 .. n - 1 /\ h + ((b - h) + n) = b + n
      BY <1>2, <2>2
    <3>2. (b + n) % n = b
      BY Wrapped
    <3> QED BY <1>3, <3>1, <3>2
  <2> QED BY <1>2, <2>1, <2>2
<1> QED BY <1>4, <1>5, <1>6

(* A table of n buckets of which at most c are taken.                      *)
Taken(T) == {b \in DOMAIN T : T[b] # NoEntry}

TableOf(T, n, c) ==
  /\ T = [b \in 0 .. n - 1 |-> T[b]]
  /\ \A b \in 0 .. n - 1 : T[b].key = NoName => T[b] = NoEntry
  /\ IsFiniteSet(Taken(T)) /\ Cardinality(Taken(T)) <= c

LEMMA FreeBucket ==
  ASSUME NEW n \in Nat \ {0}, NEW c \in Nat, c < n, NEW T, TableOf(T, n, c)
  PROVE  \E b \in 0 .. n - 1 : T[b] = NoEntry
<1>1. SUFFICES ASSUME \A b \in 0 .. n - 1 : T[b] # NoEntry PROVE FALSE
  OBVIOUS
<1>2. DOMAIN T = 0 .. n - 1
  BY DEF TableOf
<1>3. Taken(T) = 0 .. n - 1
  BY <1>1, <1>2 DEF Taken
<1>4. Cardinality(0 .. n - 1) = n
  <2>1. 0 \in Int /\ n - 1 \in Int /\ ~ (0 > n - 1) /\ (n - 1) - 0 + 1 = n
    OBVIOUS
  <2> QED BY <2>1, FS_Interval
<1> QED BY <1>3, <1>4 DEF TableOf

(* What insert does: the first free bucket from the one of the hash on.    *)
LEMMA InsertTakesFree ==
  ASSUME NEW n \in Nat \ {0}, NEW c \in Nat, c < n, NEW T, TableOf(T, n, c),
         NEW hash, NEW key, hash[key] \in Nat, key # NoName, NEW value
  PROVE  LET U == insert(T, hash, key, value)
         IN  /\ TableOf(U, n, c + 1)
             /\ \E k \in 0 .. n - 1 :
                  /\ T[probe(T, hash, key, k)] = NoEntry
                  /\ \A j \in 0 .. k - 1 : T[probe(T, hash, key, j)] # NoEntry
                  /\ U[probe(T, hash, key, k)] = [key |-> key, value |-> value]
                  /\ \A b \in 0 .. n - 1 : b # probe(T, hash, key, k) => U[b] = T[b]
<1> DEFINE at(k) == probe(T, hash, key, k)
           free == {k \in 0 .. n - 1 : T[at(k)] = NoEntry}
           k0 == Min(free)
           e == [key |-> key, value |-> value]
           U == insert(T, hash, key, value)
<1>1. DOMAIN T = 0 .. n - 1
  BY DEF TableOf
<1>2. /\ steps(T) = 0 .. n - 1
      /\ \A k \in 0 .. n - 1 : at(k) \in 0 .. n - 1
      /\ \A b \in 0 .. n - 1 : \E k \in 0 .. n - 1 : at(k) = b
  BY <1>1, ProbeReaches
<1>3. U = [T EXCEPT ![at(k0)] = e]
  BY <1>2 DEF insert
<1> HIDE DEF at, U
<1>4. free # {} /\ free \subseteq Nat
  <2>1. PICK b \in 0 .. n - 1 : T[b] = NoEntry
    BY FreeBucket
  <2>2. PICK k \in 0 .. n - 1 : at(k) = b
    BY <1>2
  <2> QED BY <2>1, <2>2
<1>5. k0 \in free /\ \A k \in free : k0 <= k
  <2> HIDE DEF free
  <2> QED BY <1>4, FirstTime
<1> HIDE DEF k0
<1>6. k0 \in 0 .. n - 1 /\ T[at(k0)] = NoEntry /\ at(k0) \in 0 .. n - 1
  BY <1>2, <1>5
<1>7. \A j \in 0 .. k0 - 1 : T[at(j)] # NoEntry
  <2> SUFFICES ASSUME NEW j \in 0 .. k0 - 1, T[at(j)] = NoEntry PROVE FALSE
    OBVIOUS
  <2>1. j \in 0 .. n - 1 /\ ~ (k0 <= j)
    BY <1>6
  <2> QED BY <1>5, <2>1
<1>8. /\ U[at(k0)] = e /\ DOMAIN U = 0 .. n - 1 /\ U = [b \in 0 .. n - 1 |-> U[b]]
      /\ \A b \in 0 .. n - 1 : b # at(k0) => U[b] = T[b]
  BY <1>1, <1>3, <1>6
<1>9. e.key # NoName /\ e # NoEntry
  <2>1. e.key = key /\ NoEntry.key = NoName
    BY DEF NoEntry
  <2> HIDE DEF e
  <2> QED BY <2>1
<1>10. TableOf(U, n, c + 1)
  <2> HIDE DEF e
  <2>1. \A b \in 0 .. n - 1 : U[b].key = NoName => U[b] = NoEntry
    BY <1>8, <1>9 DEF TableOf
  <2>2. Taken(U) = Taken(T) \cup {at(k0)}
    BY <1>1, <1>6, <1>8, <1>9 DEF Taken
  <2>3. at(k0) \notin Taken(T)
    BY <1>6 DEF Taken
  <2>4. IsFiniteSet(Taken(T)) /\ Cardinality(Taken(T)) <= c
    BY DEF TableOf
  <2>5. IsFiniteSet(Taken(U)) /\ Cardinality(Taken(U)) = Cardinality(Taken(T)) + 1
    BY <2>2, <2>3, <2>4, FS_AddElement
  <2>6. Cardinality(Taken(T)) \in Nat
    BY <2>4, FS_CardinalityType
  <2> QED BY <1>8, <2>1, <2>4, <2>5, <2>6 DEF TableOf
<1> QED BY <1>6, <1>7, <1>8, <1>10 DEF at, U

(* The definitions of a tool among the first i, and what the table that    *)
(* holds these has to say of the tool: nothing, or the first definition,   *)
(* behind buckets of other tools.                                          *)
Defs(catalog, i, q) == {j \in 1 .. i : catalog[j].tool = q}

EntryOf(catalog, d) == [key |-> catalog[d].tool, value |-> adapterDefToVerdict(catalog[d])]

Found(T, n, hash, catalog, i, q) ==
  /\ Defs(catalog, i, q) = {} => \A b \in 0 .. n - 1 : T[b].key # q
  /\ \A d \in Defs(catalog, i, q) : (\A j \in Defs(catalog, i, q) : d <= j) =>
       \E k \in 0 .. n - 1 :
         /\ T[probe(T, hash, q, k)] = EntryOf(catalog, d)
         /\ \A j \in 0 .. k - 1 : T[probe(T, hash, q, j)].key \notin {NoName, q}

LEMMA FoundStep ==
  ASSUME NEW n \in Nat \ {0}, NEW i \in Nat, i < n, NEW T, TableOf(T, n, i),
         NEW hash, NEW catalog, NEW q, q # NoName, hash[q] \in Nat,
         catalog[i + 1].tool # NoName, hash[catalog[i + 1].tool] \in Nat,
         Found(T, n, hash, catalog, i, q),
         NEW U, U = insert(T, hash, catalog[i + 1].tool, adapterDefToVerdict(catalog[i + 1]))
  PROVE  Found(U, n, hash, catalog, i + 1, q)
<1> DEFINE p == catalog[i + 1].tool
           e == EntryOf(catalog, i + 1)
           at(k) == probe(T, hash, q, k)
           D == Defs(catalog, i, q)
           E == Defs(catalog, i + 1, q)
<1>1. PICK c \in 0 .. n - 1 :
        /\ T[probe(T, hash, p, c)] = NoEntry
        /\ \A j \in 0 .. c - 1 : T[probe(T, hash, p, j)] # NoEntry
        /\ U[probe(T, hash, p, c)] = e
        /\ \A b \in 0 .. n - 1 : b # probe(T, hash, p, c) => U[b] = T[b]
  BY InsertTakesFree DEF EntryOf
<1> DEFINE b0 == probe(T, hash, p, c)
<1>2. TableOf(U, n, i + 1)
  BY InsertTakesFree
<1>3. DOMAIN T = 0 .. n - 1 /\ DOMAIN U = 0 .. n - 1
  BY <1>2 DEF TableOf
<1>4. \A k : probe(U, hash, q, k) = at(k)
  BY <1>3 DEF probe, size
<1>5. /\ \A k \in 0 .. n - 1 : at(k) \in 0 .. n - 1
      /\ \A k \in 0 .. n - 1 : probe(T, hash, p, k) \in 0 .. n - 1
  BY <1>3, ProbeReaches
<1>6. NoEntry.key = NoName /\ e.key = p
  BY DEF NoEntry, EntryOf
<1>7. \A b \in 0 .. n - 1 : T[b].key # NoName => U[b] = T[b]
  <2> HIDE DEF e, p
  <2> QED BY <1>1, <1>6
<1>8. /\ D \subseteq E /\ E \subseteq D \cup {i + 1} /\ (i + 1 \in E <=> p = q)
      /\ \A j \in D : j \in Int /\ j < i + 1
  BY DEF Defs
<1> HIDE DEF at, D, E, e, p
<1>9. CASE D # {}
  <2>1. SUFFICES ASSUME NEW d \in E, \A j \in E : d <= j
                 PROVE  \E k \in 0 .. n - 1 :
                          /\ U[at(k)] = EntryOf(catalog, d)
                          /\ \A j \in 0 .. k - 1 : U[at(j)].key \notin {NoName, q}
    BY <1>4, <1>8, <1>9 DEF Found, E
  <2>2. d \in D /\ \A j \in D : d <= j
    BY <1>8, <1>9, <2>1
  <2>3. PICK k \in 0 .. n - 1 :
          /\ T[at(k)] = EntryOf(catalog, d)
          /\ \A j \in 0 .. k - 1 : T[at(j)].key \notin {NoName, q}
    BY <2>2 DEF Found, D, at
  <2>4. T[at(k)].key = q
    BY <2>2, <2>3 DEF EntryOf, D, Defs
  <2>5. U[at(k)] = T[at(k)]
    BY <1>5, <1>7, <2>4
  <2>6. ASSUME NEW j \in 0 .. k - 1 PROVE U[at(j)].key \notin {NoName, q}
    <3>1. j \in 0 .. n - 1 /\ at(j) \in 0 .. n - 1
      BY <1>5
    <3> QED BY <1>7, <2>3, <3>1
  <2> QED BY <2>3, <2>5, <2>6
<1>10. CASE D = {} /\ p = q
  <2>1. E = {i + 1}
    BY <1>8, <1>10
  <2>2. \A k : at(k) = probe(T, hash, p, k)
    BY <1>10 DEF at
  <2>3. U[at(c)] = e
    BY <1>1, <2>2
  <2>4. ASSUME NEW j \in 0 .. c - 1 PROVE U[at(j)].key \notin {NoName, q}
    <3>1. j \in 0 .. n - 1 /\ at(j) \in 0 .. n - 1
      BY <1>5
    <3>2. T[at(j)] # NoEntry
      BY <1>1, <2>2
    <3>3. T[at(j)].key # NoName
      BY <3>1, <3>2 DEF TableOf
    <3>4. T[at(j)].key # q
      BY <1>10, <3>1 DEF Found, D
    <3> QED BY <1>7, <3>1, <3>3, <3>4
  <2> QED BY <1>4, <2>1, <2>3, <2>4 DEF Found, E, e
<1>11. CASE D = {} /\ p # q
  <2>1. E = {}
    BY <1>8, <1>11
  <2>2. ASSUME NEW b \in 0 .. n - 1 PROVE U[b].key # q
    <3>1. T[b].key # q
      BY <1>11 DEF Found, D
    <3> QED BY <1>1, <1>6, <1>11, <3>1
  <2> QED BY <2>1, <2>2 DEF Found, E
<1> QED BY <1>9, <1>10, <1>11

(* The tables that BuildVerdictMap goes through.                           *)
TableStep(catalog, hash, f, i) ==
  IF i = 0 THEN [b \in 0 .. buckets(Len(catalog)) - 1 |-> NoEntry]
  ELSE insert(f[i - 1], hash, catalog[i].tool, adapterDefToVerdict(catalog[i]))

LEMMA TablesBuilt ==
  ASSUME NEW catalog, NEW hash, Len(catalog) \in Nat
  PROVE  \E f : /\ \A i \in 0 .. Len(catalog) : f[i] = TableStep(catalog, hash, f, i)
                /\ BuildVerdictMap(catalog, hash) = f[Len(catalog)]
<1> DEFINE Fits(n, f) == f = [i \in 0 .. n |-> TableStep(catalog, hash, f, i)]
           S == {n \in Nat : \E f : Fits(n, f)}
<1>1. 0 \in S
  <2>1. Fits(0, [i \in 0 .. 0 |-> TableStep(catalog, hash, <<>>, 0)])
    BY DEF TableStep
  <2> QED BY <2>1
<1>2. ASSUME NEW n \in Nat, n \in S
      PROVE  n + 1 \in S
  <2>1. PICK f : Fits(n, f)
    BY <1>2
  <2> DEFINE last == TableStep(catalog, hash, f, n + 1)
             g == [i \in 0 .. n + 1 |-> IF i = n + 1 THEN last ELSE f[i]]
  <2>2. \A i \in 0 .. n : f[i] = TableStep(catalog, hash, f, i)
    BY <2>1
  <2>3. \A i \in 0 .. n + 1 : TableStep(catalog, hash, g, i) = TableStep(catalog, hash, f, i)
    BY DEF TableStep
  <2>4. \A i \in 0 .. n + 1 : g[i] = TableStep(catalog, hash, g, i)
    BY <2>2, <2>3
  <2>5. g = [i \in 0 .. n + 1 |-> g[i]]
    OBVIOUS
  <2>6. Fits(n + 1, g)
    <3> HIDE DEF g
    <3> QED BY <2>4, <2>5
  <2>7. \E h : Fits(n + 1, h)
    <3> HIDE DEF Fits, g
    <3> QED BY <2>6
  <2> QED BY <2>7
<1>3. Len(catalog) \in S
  <2> HIDE DEF S
  <2> QED BY <1>1, <1>2, SetInduction
<1>4. \E f : Fits(Len(catalog), f)
  BY <1>3
<1> DEFINE tables == CHOOSE f : Fits(Len(catalog), f)
<1>5. Fits(Len(catalog), tables)
  <2> HIDE DEF Fits
  <2> QED BY <1>4, Zenon
<1>6. BuildVerdictMap(catalog, hash) = tables[Len(catalog)]
  BY DEF BuildVerdictMap, TableStep
<1> HIDE DEF tables
<1>7. \A i \in 0 .. Len(catalog) : tables[i] = TableStep(catalog, hash, tables, i)
  BY <1>5
<1> QED BY <1>6, <1>7

(* More buckets than definitions.                                          *)
LEMMA BucketsSuffice ==
  ASSUME NEW n \in 0 .. LargestCatalog
  PROVE  buckets(n) \in Nat \ {0} /\ buckets(n) > n
<1> DEFINE m == (n * 10) \div 7
           top == 1073741824
           large == {p \in Powers : m <= p}
<1>1. n \in Nat /\ m \in Nat /\ 7 * m <= 10 * n /\ 10 * n < 7 * m + 7 /\ m <= top
  BY SMT DEF LargestCatalog
<1>2. Powers \subseteq Nat
  BY SMT DEF Powers
<1>3. top \in Powers
  BY SMT DEF Powers
<1> HIDE DEF m, top
<1>4. m \in Nat /\ m <= top
  BY <1>1
<1>5. top \in large /\ large \subseteq Nat
  BY <1>2, <1>3, <1>4
<1>6. Min(large) \in large
  <2> HIDE DEF large
  <2> QED BY <1>5, FirstTime
<1>7. nextPow2(m) \in Nat /\ m <= nextPow2(m)
  <2>1. nextPow2(m) = Min(large)
    BY DEF nextPow2
  <2> QED BY <1>5, <1>6, <2>1
<1>8. buckets(n) = IF nextPow2(m) < 16 THEN 16 ELSE nextPow2(m)
  BY DEF buckets, m
<1> HIDE DEF large
<1> QED BY <1>1, <1>7, <1>8

(* What BuildVerdictMap returns, for the tool q.                           *)
LEMMA BuiltTable ==
  ASSUME NEW catalog, NEW hash, NEW q, NEW m \in Nat, m = Len(catalog), m \in 0 .. LargestCatalog,
         \A i \in 1 .. m : catalog[i].tool # NoName /\ hash[catalog[i].tool] \in Nat,
         q # NoName, hash[q] \in Nat
  PROVE  LET T == BuildVerdictMap(catalog, hash)
             n == buckets(m)
         IN  TableOf(T, n, m) /\ Found(T, n, hash, catalog, m, q)
<1> DEFINE n == buckets(m)
<1>1. n \in Nat \ {0} /\ n > m
  BY BucketsSuffice
<1>2. PICK f : /\ \A i \in 0 .. m : f[i] = TableStep(catalog, hash, f, i)
               /\ BuildVerdictMap(catalog, hash) = f[m]
  BY TablesBuilt
<1> DEFINE Good(i) == TableOf(f[i], n, i) /\ Found(f[i], n, hash, catalog, i, q)
           S == {i \in Nat : i <= m => Good(i)}
<1>3. f[0] = [b \in 0 .. n - 1 |-> NoEntry]
  <2>1. 0 \in 0 .. m
    OBVIOUS
  <2>2. f[0] = TableStep(catalog, hash, f, 0)
    BY <1>2, <2>1
  <2> QED BY <2>2 DEF TableStep
<1> HIDE DEF n
<1>4. 0 \in S
  <2>1. \A b \in 0 .. n - 1 : f[0][b] = NoEntry
    BY <1>3
  <2>2. Taken(f[0]) = {}
    BY <1>3, <2>1 DEF Taken
  <2>3. TableOf(f[0], n, 0)
    <3>1. IsFiniteSet({}) /\ Cardinality({}) <= 0
      BY FS_EmptySet
    <3>2. f[0] = [b \in 0 .. n - 1 |-> f[0][b]]
      BY <1>3
    <3> QED BY <2>1, <2>2, <3>1, <3>2 DEF TableOf
  <2>4. Defs(catalog, 0, q) = {}
    BY DEF Defs
  <2>5. \A b \in 0 .. n - 1 : f[0][b].key # q
    BY <2>1 DEF NoEntry
  <2>6. Found(f[0], n, hash, catalog, 0, q)
    BY <2>4, <2>5 DEF Found
  <2> QED BY <2>3, <2>6
<1>5. ASSUME NEW i \in Nat, i \in S PROVE i + 1 \in S
  <2>1. ASSUME i + 1 <= m PROVE Good(i + 1)
    <3>1. /\ i + 1 \in 0 .. m /\ i + 1 # 0 /\ (i + 1) - 1 = i /\ i <= m /\ i < n
          /\ i + 1 \in 1 .. m
      BY <1>1, <2>1
    <3>2. TableOf(f[i], n, i) /\ Found(f[i], n, hash, catalog, i, q)
      BY <1>5, <3>1
    <3>3. f[i + 1] = insert(f[i], hash, catalog[i + 1].tool, adapterDefToVerdict(catalog[i + 1]))
      BY <1>2, <3>1 DEF TableStep
    <3>4. catalog[i + 1].tool # NoName /\ hash[catalog[i + 1].tool] \in Nat
      BY <3>1
    <3>5. TableOf(f[i + 1], n, i + 1)
      <4> DEFINE p == catalog[i + 1].tool
                 v == adapterDefToVerdict(catalog[i + 1])
      <4>1. p # NoName /\ hash[p] \in Nat
        BY <3>4
      <4> HIDE DEF p, v
      <4>2. TableOf(insert(f[i], hash, p, v), n, i + 1)
        BY <1>1, <3>1, <3>2, <4>1, InsertTakesFree
      <4> QED BY <3>3, <4>2 DEF p, v
    <3>6. Found(f[i + 1], n, hash, catalog, i + 1, q)
      BY <1>1, <3>1, <3>2, <3>3, <3>4, FoundStep
    <3> QED BY <3>5, <3>6
  <2> QED BY <2>1
<1>6. Good(m)
  <2>1. m \in S
    <3> HIDE DEF S
    <3> QED BY <1>4, <1>5, SetInduction
  <2> QED BY <2>1
<1> QED BY <1>2, <1>6 DEF n

LEMMA TableFinds ==
  ASSUME NEW catalog \in Catalogs, NEW hash \in HashFunctions, NEW tool \in CalledTools
  PROVE  FindsExactly(BuildVerdictMap(catalog, hash), catalog, hash, tool)
<1> DEFINE q == tool.name
           m == Len(catalog)
           n == buckets(m)
           T == BuildVerdictMap(catalog, hash)
           at(k) == probe(T, hash, q, k)
           stop == stops(T, hash, q)
           D == Defs(catalog, m, q)
           found == lookup(T, hash, q)
           entry == Classify(T, hash, tool)
<1>1. /\ m \in Nat /\ DOMAIN catalog = 1 .. m /\ m \in 0 .. MaxDefinitions
      /\ \A i \in 1 .. m : catalog[i].tool \in ToolNames
  <2>1. catalog \in Seq(ToSet(catalog)) /\ Len(catalog) <= MaxDefinitions /\ MaxDefinitions \in Nat
    BY ClassifierAssumption
  <2>2. m \in Nat /\ DOMAIN catalog = 1 .. m
    BY <2>1
  <2>3. \A i \in 1 .. m : catalog[i] \in ToSet(catalog)
    BY <2>2 DEF ToSet
  <2>4. \A def \in ToSet(catalog) : def.tool \in ToolNames
    BY ClassifierAssumption
  <2> QED BY <2>1, <2>2, <2>3, <2>4
<1>2. m \in 0 .. LargestCatalog
  <2>1. LargestCatalog \in Nat
    BY SMT DEF LargestCatalog
  <2> QED BY <1>1, <2>1, ClassifierAssumption
<1>3. /\ NoName \notin ToolNames /\ q \in ToolNames /\ \A x \in ToolNames : hash[x] \in Nat
  BY ClassifierAssumption
<1>4. n \in Nat \ {0} /\ n > m
  BY <1>2, BucketsSuffice
<1>5. TableOf(T, n, m) /\ Found(T, n, hash, catalog, m, q)
  <2>1. \A i \in 1 .. m : catalog[i].tool # NoName /\ hash[catalog[i].tool] \in Nat
    BY <1>1, <1>3
  <2>2. q # NoName /\ hash[q] \in Nat
    BY <1>3
  <2> QED BY <1>1, <1>2, <2>1, <2>2, BuiltTable
<1>6. DOMAIN catalog = 1 .. m /\ D = {i \in DOMAIN catalog : catalog[i].tool = q}
  BY <1>1 DEF Defs
<1> HIDE DEF m, n, T
<1>7. DOMAIN T = 0 .. n - 1
  BY <1>5 DEF TableOf
<1>8. /\ steps(T) = 0 .. n - 1
      /\ \A k \in 0 .. n - 1 : at(k) \in 0 .. n - 1
      /\ \A b \in 0 .. n - 1 : \E k \in 0 .. n - 1 : at(k) = b
  <2>1. hash[q] \in Nat
    BY <1>3
  <2> QED BY <1>4, <1>7, <2>1, ProbeReaches
<1>9. stop = {k \in 0 .. n - 1 : T[at(k)].key \in {NoName, q}} /\ found = T[at(Min(stop))]
  BY <1>8 DEF stops, lookup
<1>10. entry = CASE found.key # NoName -> found.value
                 [] found.key = NoName /\ tool.name \in coordinationTools ->
                      VerdictEntry("unknown", {}, "critical", FALSE)
                 [] found.key = NoName /\ tool.name \notin coordinationTools ->
                      IF tool.mcp THEN classifyByPrefix ELSE heuristic(tool.verb)
  BY DEF Classify
<1> HIDE DEF q, at, stop, found, entry, D
<1>11. stop # {} /\ stop \subseteq Nat
  <2>1. PICK b \in 0 .. n - 1 : T[b] = NoEntry
    BY <1>1, <1>4, <1>5, FreeBucket
  <2>2. PICK k \in 0 .. n - 1 : at(k) = b
    BY <1>8
  <2>3. T[at(k)].key = NoName
    BY <2>1, <2>2 DEF NoEntry
  <2> QED BY <1>9, <2>3
<1>12. Min(stop) \in stop /\ \A k \in stop : Min(stop) <= k
  BY <1>11, FirstTime
<1>13. ASSUME NEW d \in D, \A j \in D : d <= j
       PROVE  entry = adapterDefToVerdict(catalog[d])
  <2>1. PICK k \in 0 .. n - 1 :
          /\ T[at(k)] = EntryOf(catalog, d)
          /\ \A j \in 0 .. k - 1 : T[at(j)].key \notin {NoName, q}
    BY <1>5, <1>13 DEF Found, D, at
  <2>2. catalog[d].tool = q
    BY DEF D, Defs
  <2>3. T[at(k)].key = q /\ T[at(k)].value = adapterDefToVerdict(catalog[d])
    BY <2>1, <2>2 DEF EntryOf
  <2>4. k \in stop
    BY <1>9, <2>3
  <2>5. Min(stop) = k
    <3>1. SUFFICES ASSUME Min(stop) # k PROVE FALSE
      OBVIOUS
    <3>2. Min(stop) \in 0 .. k - 1
      <4>1. Min(stop) \in Nat /\ k \in Nat /\ Min(stop) <= k
        BY <1>11, <1>12, <2>4
      <4> QED BY <3>1, <4>1
    <3> QED BY <1>9, <1>12, <2>1, <3>2
  <2>6. found.key # NoName /\ found.value = adapterDefToVerdict(catalog[d])
    BY <1>3, <1>9, <2>3, <2>5
  <2> QED BY <1>10, <2>6
<1>14. ASSUME D = {}
       PROVE  ~ entry.match /\ (entry.risk = "critical" <=> tool.name \in coordinationTools)
  <2>1. found.key = NoName
    <3>1. found.key \in {NoName, q} /\ at(Min(stop)) \in 0 .. n - 1
      BY <1>8, <1>9, <1>12
    <3>2. found.key # q
      BY <1>5, <1>9, <1>14, <3>1 DEF Found, D
    <3> QED BY <3>1, <3>2
  <2>2. CASE tool.name \in coordinationTools
    <3>1. entry = VerdictEntry("unknown", {}, "critical", FALSE)
      BY <1>10, <2>1, <2>2
    <3> QED BY <2>2, <3>1 DEF VerdictEntry
  <2>3. CASE tool.name \notin coordinationTools
    <3>1. entry = classifyByPrefix \/ entry = heuristic(tool.verb)
      BY <1>10, <2>1, <2>3
    <3>2. classifyByPrefix.match = FALSE /\ classifyByPrefix.risk # "critical"
      BY DEF classifyByPrefix, VerdictEntry
    <3>3. heuristic(tool.verb).match = FALSE /\ heuristic(tool.verb).risk # "critical"
      BY DEF heuristic, VerdictEntry
    <3> QED BY <2>3, <3>1, <3>2, <3>3
  <2> QED BY <2>2, <2>3
<1> QED BY <1>6, <1>11, <1>13, <1>14 DEF FindsExactly, entry, stop, T, q

(* For catalogues of any definitions, up to 2^26 of them, any hash and any *)
(* tool: the table keeps a free bucket, so that every search ends, and     *)
(* what it finds is the first definition of the tool (classify.go,         *)
(* BuildVerdictMap, insert and Classify).                                  *)
THEOREM LookupExactHolds == Spec => []LookupExact
<1>1. \A n \in 0 .. MaxDefinitions : buckets(n) > n
  <2> SUFFICES ASSUME NEW n \in 0 .. MaxDefinitions PROVE buckets(n) > n
    OBVIOUS
  <2>1. n \in 0 .. LargestCatalog
    <3>1. LargestCatalog \in Nat
      BY SMT DEF LargestCatalog
    <3> QED BY <3>1, ClassifierAssumption
  <2> QED BY <2>1, BucketsSuffice
<1>2. LookupExact
  BY <1>1, TableFinds DEF LookupExact
<1> QED BY <1>2, PTL
-----------------------------------------------------------------------------
(* The last place of those in S.                                           *)
LEMMA LastPlace ==
  ASSUME NEW n \in Nat, NEW S, S \subseteq 1 .. n, S # {}
  PROVE  Max(S) \in S /\ \A x \in S : x <= Max(S)
<1> DEFINE T == {n - x : x \in S}
<1>1. T # {} /\ T \subseteq Nat
  <2>1. \A x \in S : x \in 1 .. n /\ n - x \in Nat /\ n - x \in T
    OBVIOUS
  <2> QED BY <2>1
<1>2. Min(T) \in T /\ \A y \in T : Min(T) <= y
  <2> HIDE DEF T
  <2> QED BY <1>1, FirstTime
<1>3. PICK m \in S : Min(T) = n - m
  BY <1>2
<1>4. \A x \in S : m >= x
  <2> SUFFICES ASSUME NEW x \in S PROVE m >= x
    OBVIOUS
  <2>1. n - x \in T
    OBVIOUS
  <2>2. n - m <= n - x
    BY <1>2, <1>3, <2>1
  <2> QED BY <2>2
<1>5. Max(S) \in S /\ \A y \in S : Max(S) >= y
  BY <1>4 DEF Max
<1> QED BY <1>5

LEMMA WordsOf ==
  ASSUME NEW call \in BashCalls \cup OtherCalls, NEW f
  PROVE  stringArg(call.args, f) \in Seq(Resources)
BY CallsAssumption DEF stringArg

(* What a command reads is among the paths that are taken from it.         *)
LEMMA ReadIsExtracted ==
  ASSUME NEW cmd \in Seq(Resources), NEW w \in readBy(cmd)
  PROVE  w \in extractPathsFromCommand(cmd)
<1>1. PICK j \in 2 .. Len(cmd) :
        /\ w = cmd[j]
        /\ \/ "<" \in cmd[j - 1].is
           \/ /\ headOf(cmd, j) # j /\ "reader" \in cmd[headOf(cmd, j)].is
              /\ "dash" \notin cmd[j].has /\ looksLikePath(cmd[j])
  BY DEF readBy
<1>2. Len(cmd) \in Nat /\ j \in Nat /\ 2 <= j /\ j <= Len(cmd) /\ cmd # <<>>
  BY <1>1
<1>3. CASE "<" \in cmd[j - 1].is
  <2>1. j - 1 \in 1 .. Len(cmd) - 1 /\ (j - 1) + 1 = j
    BY <1>2
  <2>2. w \in {cmd[i + 1] : i \in {i \in 1 .. Len(cmd) - 1 : "<" \in cmd[i].is}}
    BY <1>1, <1>3, <2>1
  <2> QED BY <1>2, <2>2 DEF extractPathsFromCommand
<1>4. CASE /\ headOf(cmd, j) # j /\ "reader" \in cmd[headOf(cmd, j)].is
           /\ "dash" \notin cmd[j].has /\ looksLikePath(cmd[j])
  <2> DEFINE heads == {i \in 1 .. j : i = 1 \/ isPipe(cmd[i - 1])}
             h == headOf(cmd, j)
  <2>1. heads \subseteq 1 .. j /\ 1 \in heads
    BY <1>2
  <2>2. h \in heads /\ \A i \in heads : i <= h
    <3>1. h = Max(heads)
      BY DEF headOf
    <3> HIDE DEF heads, h
    <3> QED BY <1>2, <2>1, <3>1, LastPlace
  <2> HIDE DEF h
  <2>3. h \in 1 .. j - 1
    BY <1>2, <1>4, <2>2 DEF h
  <2>4. ASSUME NEW n \in h .. j PROVE ~ isPipe(cmd[n])
    <3>1. CASE n = j
      <4>1. cmd[n] \in Resources
        BY <1>2, <3>1
      <4> QED BY <1>4, <3>1, <4>1, CallsAssumption
    <3>2. CASE n # j
      <4>1. n + 1 \in 1 .. j /\ (n + 1) - 1 = n /\ n + 1 > h
        BY <1>2, <2>3, <3>2
      <4>2. n + 1 \notin heads
        <5> HIDE DEF heads
        <5> QED BY <2>2, <2>3, <4>1
      <4> QED BY <4>1, <4>2
    <3> QED BY <3>1, <3>2
  <2>5. CASE h = 1
    <3>1. "reader" \in cmd[1].is
      BY <1>4, <2>5 DEF h
    <3>2. w \in pathArgs(cmd, 2 .. Len(cmd))
      BY <1>1, <1>4 DEF pathArgs
    <3> QED BY <1>2, <3>1, <3>2 DEF extractPathsFromCommand
  <2>6. CASE h # 1
    <3>1. h \in 2 .. Len(cmd) /\ isPipe(cmd[h - 1]) /\ ~ isPipe(cmd[h])
      BY <1>2, <2>2, <2>3, <2>4, <2>6
    <3>2. h \in laterHeads(cmd) /\ "reader" \in cmd[h].is
      BY <1>4, <3>1 DEF laterHeads, h
    <3>3. j \in segment(cmd, h)
      <4>1. j \in h + 1 .. Len(cmd)
        BY <1>2, <2>3
      <4>2. \A n \in h + 1 .. j : ~ isPipe(cmd[n])
        <5> SUFFICES ASSUME NEW n \in h + 1 .. j PROVE ~ isPipe(cmd[n])
          OBVIOUS
        <5>1. n \in h .. j
          BY <2>3
        <5> QED BY <2>4, <5>1
      <4> QED BY <4>1, <4>2 DEF segment
    <3>4. w \in pathArgs(cmd, segment(cmd, h))
      BY <1>1, <1>4, <3>3 DEF pathArgs
    <3> QED BY <1>2, <3>2, <3>4 DEF extractPathsFromCommand
  <2> QED BY <2>5, <2>6
<1> QED BY <1>1, <1>3, <1>4

(* The kinds of rules that make a secret, and the categories of all rules. *)
secretKinds == {"system", "memory", "maps", "device", "key", "credential", "auditlog"}
ruleCategories == {"credentials", "security_key", "personal", "internal"}

LEMMA PathRules ==
  /\ DOMAIN extDefaultPathRules = 1 .. 10
  /\ \A n \in 1 .. 10 : extDefaultPathRules[n].label.k \subseteq ruleCategories
  /\ \A n \in 1 .. 7 : extDefaultPathRules[n].label.k \cap {"credentials", "security_key"} # {}
  /\ \A n \in 8 .. 10 : extDefaultPathRules[n].kind \notin secretKinds
  /\ \A x \in secretKinds : \E n \in 1 .. 7 : extDefaultPathRules[n].kind = x
<1> DEFINE r == extDefaultPathRules
<1>1. /\ Len(r) = 10 /\ DOMAIN r = 1 .. 10
      /\ r[1] = rule("system", 2000, 500, {"credentials"})
      /\ r[2] = rule("memory", 2000, 500, {"credentials", "security_key"})
      /\ r[3] = rule("maps", 2000, 500, {"credentials"})
      /\ r[4] = rule("device", 2000, 500, {"security_key"})
      /\ r[5] = rule("key", 1500, 500, {"credentials", "security_key"})
      /\ r[6] = rule("credential", 1000, 500, {"credentials"})
      /\ r[7] = rule("auditlog", 800, 400, {"personal", "security_key"})
      /\ r[8] = rule("log", 500, 300, {"personal"})
      /\ r[9] = rule("source", 100, 300, {"internal"})
      /\ r[10] = rule("temp", 0, 0, {})
  BY DEF extDefaultPathRules
<1> HIDE DEF r
<1>2. \A x, c, i, k : rule(x, c, i, k).kind = x /\ rule(x, c, i, k).label.k = k
  BY DEF rule
<1>3. /\ r[1].kind = "system" /\ r[1].label.k = {"credentials"}
      /\ r[2].kind = "memory" /\ r[2].label.k = {"credentials", "security_key"}
      /\ r[3].kind = "maps" /\ r[3].label.k = {"credentials"}
      /\ r[4].kind = "device" /\ r[4].label.k = {"security_key"}
      /\ r[5].kind = "key" /\ r[5].label.k = {"credentials", "security_key"}
      /\ r[6].kind = "credential" /\ r[6].label.k = {"credentials"}
      /\ r[7].kind = "auditlog" /\ r[7].label.k = {"personal", "security_key"}
      /\ r[8].kind = "log" /\ r[8].label.k = {"personal"}
      /\ r[9].kind = "source" /\ r[9].label.k = {"internal"}
      /\ r[10].kind = "temp" /\ r[10].label.k = {}
  BY <1>1, <1>2
<1>4. \A n \in 1 .. 10 : n = 1 \/ n = 2 \/ n = 3 \/ n = 4 \/ n = 5 \/ n = 6 \/ n = 7 \/ n = 8 \/ n = 9 \/ n = 10
  OBVIOUS
<1>5. \A n \in 1 .. 10 : r[n].label.k \subseteq ruleCategories
  BY <1>3, <1>4 DEF ruleCategories
<1>6. \A n \in 1 .. 7 : r[n].label.k \cap {"credentials", "security_key"} # {}
  BY <1>3
<1>7. \A n \in 8 .. 10 : r[n].kind \notin secretKinds
  BY <1>3 DEF secretKinds
<1>8. \A x \in secretKinds : \E n \in 1 .. 7 : r[n].kind = x
  BY <1>3 DEF secretKinds
<1> QED BY <1>1, <1>5, <1>6, <1>7, <1>8 DEF r

LEMMA DomainRules ==
  /\ DOMAIN extDefaultDomainRules = 1 .. 2
  /\ \A n \in 1 .. 2 : extDefaultDomainRules[n].label.k \subseteq ruleCategories
BY DEF extDefaultDomainRules, rule, ruleCategories

(* No rule sets the taint bit; the first rule of a secret path labels it   *)
(* as a secret, whatever other rules match.                                *)
LEMMA FirstMatchClean ==
  ASSUME NEW kinds, NEW n \in Nat, NEW list, DOMAIN list = 1 .. n,
         \A m \in 1 .. n : list[m].label.k \subseteq ruleCategories
  PROVE  TaintBit \notin firstMatch(list, kinds).k
<1> DEFINE m == {x \in DOMAIN list : list[x].kind \in kinds}
<1>1. CASE m = {}
  <2>1. firstMatch(list, kinds) = ZeroLabel
    BY <1>1 DEF firstMatch
  <2> QED BY <2>1 DEF ZeroLabel
<1>2. CASE m # {}
  <2>1. m \subseteq Nat
    OBVIOUS
  <2>2. Min(m) \in m
    <3> HIDE DEF m
    <3> QED BY <1>2, <2>1, FirstTime
  <2>3. firstMatch(list, kinds) = list[Min(m)].label
    BY <1>2 DEF firstMatch
  <2>4. Min(m) \in 1 .. n
    BY <2>2
  <2> HIDE DEF m
  <2> QED BY <2>3, <2>4, LabelerAssumption DEF ruleCategories
<1> QED BY <1>1, <1>2

LEMMA SecretMatched ==
  ASSUME NEW w, isSecret(w)
  PROVE  firstMatch(extDefaultPathRules, w.paths).k \cap Secrets # {}
<1> DEFINE r == extDefaultPathRules
           m == {x \in DOMAIN r : r[x].kind \in w.paths}
<1>1. PICK x \in secretKinds : x \in w.paths
  BY DEF isSecret, secretKinds
<1>2. PICK n \in 1 .. 7 : r[n].kind = x
  BY PathRules
<1>3. n \in m /\ m \subseteq Nat /\ m \subseteq 1 .. 10
  BY <1>1, <1>2, PathRules
<1>4. firstMatch(r, w.paths) = r[Min(m)].label
  BY <1>3 DEF firstMatch
<1>5. Min(m) \in m /\ Min(m) <= n
  <2> HIDE DEF m
  <2> QED BY <1>3, FirstTime
<1>6. Min(m) \in 1 .. 7
  BY <1>3, <1>5
<1> HIDE DEF m
<1> QED BY <1>4, <1>6, PathRules, LabelerAssumption

LEMMA JoinedCategories ==
  ASSUME NEW labels
  PROVE  /\ \A l \in labels : l.k \subseteq joinAll(labels).k
         /\ (\A l \in labels : TaintBit \notin l.k) => TaintBit \notin joinAll(labels).k
<1>1. CASE labels = {}
  BY <1>1 DEF joinAll, ZeroLabel
<1>2. CASE labels # {}
  <2>1. joinAll(labels).k = UNION {l.k : l \in labels}
    BY <1>2 DEF joinAll
  <2> QED BY <2>1
<1> QED BY <1>1, <1>2

(* For calls of any words, in commands of any length: a secret that is     *)
(* read labels the call as a secret, and no label is the taint itself      *)
(* (labeler.go 84, 117, 250, extract.go 103, 128).                         *)
THEOREM SecretsLabelledHolds == Spec => []SecretsLabelled
<1>1. ASSUME NEW call \in BashCalls \cup OtherCalls
      PROVE  LET given == Label(call).label
             IN  /\ (\E w \in reads(call) : isSecret(w)) => given.k \cap Secrets # {}
                 /\ ~ Tainted(given)
  <2> DEFINE given == Label(call).label
             name == call.tool.name
             paths == ExtractPaths(name, call.args) \cup extractBashPaths(commandText(call))
             domains == ExtractDomains(name, call.args)
             labels == {firstMatch(extDefaultPathRules, p.paths) : p \in paths}
                         \cup {firstMatch(extDefaultDomainRules, d.domains) : d \in domains}
  <2>1. given = joinAll(labels)
    BY DEF Label
  <2>2. \A l \in labels : TaintBit \notin l.k
    <3>1. \A p \in paths : TaintBit \notin firstMatch(extDefaultPathRules, p.paths).k
      BY PathRules, FirstMatchClean
    <3>2. \A d \in domains : TaintBit \notin firstMatch(extDefaultDomainRules, d.domains).k
      BY DomainRules, FirstMatchClean
    <3> HIDE DEF paths, domains
    <3> QED BY <3>1, <3>2
  <2>3. ~ Tainted(given)
    <3> HIDE DEF given, labels
    <3> QED BY <2>1, <2>2, JoinedCategories DEF Tainted
  <2>4. ASSUME NEW w \in reads(call), isSecret(w) PROVE given.k \cap Secrets # {}
    <3>1. w \in ExtractPaths(name, call.args)
      <4>1. CASE name = "Bash"
        <5>1. commandText(call) = stringArg(call.args, "command")
          BY <4>1 DEF commandText
        <5>2. w \in readBy(stringArg(call.args, "command"))
          BY <4>1, <5>1 DEF reads
        <5>3. w \in extractPathsFromCommand(stringArg(call.args, "command"))
          BY <5>2, WordsOf, ReadIsExtracted
        <5> QED BY <4>1, <5>3 DEF ExtractPaths
      <4>2. CASE name \in {"Read", "Write"}
        BY <4>2 DEF reads, ExtractPaths
      <4>3. CASE name = "Glob"
        BY <4>3 DEF reads, ExtractPaths
      <4>4. CASE name = "Grep"
        BY <4>4 DEF reads, ExtractPaths
      <4>5. CASE name \notin {"Bash", "Read", "Write", "Glob", "Grep"}
        BY <4>5 DEF reads
      <4> QED BY <4>1, <4>2, <4>3, <4>4, <4>5
    <3>2. firstMatch(extDefaultPathRules, w.paths) \in labels
      BY <3>1
    <3>3. firstMatch(extDefaultPathRules, w.paths).k \cap Secrets # {}
      BY <2>4, SecretMatched
    <3> HIDE DEF given, labels
    <3> QED BY <2>1, <3>2, <3>3, JoinedCategories
  <2> QED BY <2>3, <2>4
<1>2. SecretsLabelled
  BY <1>1 DEF SecretsLabelled
<1> QED BY <1>2, PTL
-----------------------------------------------------------------------------
(* The parts of the request that a sending call becomes.                   *)
LEMMA RequestParts ==
  ASSUME NEW call, NEW table
  PROVE  LET r == requestOf(table, NameHash, call)
             labeled == Label(call).resources
         IN  /\ r.effects = verdictOf(table, NameHash, call).effects
             /\ r.net = (Label(call).net \/ containsNetworkBinary(commandText(call)))
             /\ labeled # {} => r.resources = labeled
             /\ labeled = {} => r.resources = extractResourcePaths(call.tool.name, call.args)
BY DEF requestOf

LEMMA LabelParts ==
  ASSUME NEW call
  PROVE  /\ Label(call).resources = ExtractPaths(call.tool.name, call.args)
                                      \cup extractBashPaths(commandText(call))
                                      \cup ExtractDomains(call.tool.name, call.args)
         /\ Label(call).net = containsNetworkCmd(commandText(call))
BY DEF Label

(* A tainted session without approval is refused what is restricted and    *)
(* goes to an external or an unknown place.                                *)
LEMMA TaintedRefused ==
  ASSUME NEW req, isRestrictedSink(req),
         isExternalResource(req) \/ (req.net /\ req.resources = {})
  PROVE  Decision(TaintedSession, req, 0) = "deny"
BY DEF Decision, TaintedSession, ApprovalNone, ApprovalStandingRule, ApprovalSessionGranted

(* A tool that the deployed catalogue defines has the effects of one of    *)
(* its definitions.                                                        *)
LEMMA DefinedEffects ==
  ASSUME NEW tool \in CalledTools, NEW effect, NEW hasCredentialPattern,
         \E i \in DOMAIN Catalog : Catalog[i].tool = tool.name,
         \A i \in DOMAIN Catalog : Catalog[i].tool = tool.name => effect \in Catalog[i].effects
  PROVE  effect \in ClassifyBash(DeployedTable, NameHash, tool, hasCredentialPattern).effects
<1> DEFINE defs == {i \in DOMAIN Catalog : Catalog[i].tool = tool.name}
           entry == Classify(DeployedTable, NameHash, tool)
<1>1. FindsExactly(DeployedTable, Catalog, NameHash, tool)
  BY CatalogAssumption, TableFinds DEF DeployedTable
<1>2. defs \subseteq Nat /\ defs # {}
  <2>1. Catalog \in Seq(ToSet(Catalog))
    BY CatalogAssumption, ClassifierAssumption
  <2>2. Len(Catalog) \in Nat /\ DOMAIN Catalog = 1 .. Len(Catalog)
    BY <2>1
  <2> QED BY <2>2
<1> DEFINE d == Min(defs)
<1>3. d \in defs /\ \A j \in defs : d <= j
  <2> HIDE DEF defs
  <2> QED BY <1>2, FirstTime
<1>4. entry = adapterDefToVerdict(Catalog[d])
  <2> HIDE DEF d
  <2> QED BY <1>1, <1>3 DEF FindsExactly
<1> HIDE DEF d
<1>5. entry.effects = Catalog[d].effects /\ effect \in Catalog[d].effects
  BY <1>3, <1>4 DEF adapterDefToVerdict, VerdictEntry
<1>6. entry = VerdictEntry(entry.class, entry.effects, entry.risk, entry.match)
  BY <1>4 DEF adapterDefToVerdict, VerdictEntry
<1> HIDE DEF entry, defs
<1>7. CASE hasCredentialPattern
  <2>1. [entry EXCEPT !.effects = @ \cup {"credential_use"}].effects = entry.effects \cup {"credential_use"}
    BY <1>6 DEF VerdictEntry
  <2> QED BY <1>5, <1>7, <2>1 DEF ClassifyBash, entry
<1>8. CASE ~ hasCredentialPattern
  BY <1>5, <1>8 DEF ClassifyBash, entry
<1> QED BY <1>7, <1>8

LEMMA RestrictedByEffect ==
  ASSUME NEW t \in {"WebFetch", "SendMessage"}, Tool(t) \in CalledTools, NEW a
  PROVE  isRestrictedSink(requestOf(DeployedTable, NameHash, ToolCall(t, a, FALSE)))
<1> DEFINE call == ToolCall(t, a, FALSE)
           effect == IF t = "WebFetch" THEN "network_egress" ELSE "message_content"
           pattern == \E w \in ToSet(commandText(call)) : "credential" \in w.has
<1>1. call.tool = Tool(t) /\ Tool(t).name = t
  BY DEF ToolCall, Tool
<1>2. /\ \E i \in DOMAIN Catalog : Catalog[i].tool = t
      /\ \A i \in DOMAIN Catalog : Catalog[i].tool = t => effect \in Catalog[i].effects
  BY CatalogAssumption
<1>3. effect \in RestrictedEffects
  BY LabelerAssumption DEF restrictedEffects
<1> HIDE DEF call, effect, pattern
<1>4. effect \in ClassifyBash(DeployedTable, NameHash, Tool(t), pattern).effects
  BY <1>1, <1>2, DefinedEffects
<1>5. verdictOf(DeployedTable, NameHash, call) = ClassifyBash(DeployedTable, NameHash, Tool(t), pattern)
  BY <1>1 DEF verdictOf, pattern
<1>6. effect \in requestOf(DeployedTable, NameHash, call).effects
  BY <1>4, <1>5, RequestParts
<1> QED BY <1>3, <1>6 DEF isRestrictedSink, call

(* What a call sends is refused to a tainted session without approval.     *)
LEMMA SendingRefused ==
  ASSUME NEW call \in BashCalls \cup OtherCalls, sends(call)
  PROVE  Decision(TaintedSession,
                  requestOf(DeployedTable, NameHash, ToolCall(call.tool.name, call.args, FALSE)), 0) = "deny"
<1> DEFINE name == call.tool.name
           args == call.args
           c == ToolCall(name, args, FALSE)
           r == requestOf(DeployedTable, NameHash, c)
           cmd == stringArg(args, "command")
<1>1. c.tool.name = name /\ c.args = args
  BY DEF ToolCall, Tool
<1>2. Tool(name) \in CalledTools
  BY CallsAssumption
<1>3. \A f : \A w \in oneWord(args, f) : w \in Resources
  BY WordsOf DEF oneWord, ToSet
<1> HIDE DEF c, r, name, args
<1>4. CASE name = "Bash"
  <2>1. commandText(call) = cmd /\ commandText(c) = cmd
    BY <1>1, <1>4 DEF commandText, name, args
  <2>2. cmd \in Seq(Resources) /\ ToSet(cmd) \subseteq Resources
    <3>1. cmd \in Seq(Resources)
      BY WordsOf DEF args
    <3> HIDE DEF cmd
    <3> QED BY <3>1 DEF ToSet
  <2> HIDE DEF cmd
  <2>3. /\ \E w \in ToSet(cmd) : w.is \cap {"net", "miner"} # {}
        /\ \/ \E w \in ToSet(cmd) : "url" \in w.has /\ w.external
           \/ \A w \in ToSet(cmd) : /\ ~ looksLikePath(w) /\ "<" \notin w.is
                                    /\ w.has \cap {"url", "meta", "inner"} = {}
    BY <1>4, <2>1 DEF sends, name
  <2>4. r.net
    <3>1. containsNetworkCmd(commandText(c))
      BY <2>1, <2>3 DEF containsNetworkCmd, networkBinaries
    <3> QED BY <3>1, LabelParts, RequestParts DEF r
  <2>5. Label(c).resources = extractPathsFromCommand(cmd) \cup extractBashPaths(cmd)
                               \cup extractURLsFromCommand(cmd)
    <3>1. ExtractPaths(name, args) = extractPathsFromCommand(cmd)
      BY <1>4 DEF ExtractPaths, cmd
    <3>2. ExtractDomains(name, args) = extractURLsFromCommand(cmd)
      BY <1>4 DEF ExtractDomains, cmd
    <3> QED BY <1>1, <2>1, <3>1, <3>2, LabelParts
  <2>6. CASE \E w \in ToSet(cmd) : "url" \in w.has /\ w.external
    <3>1. PICK w \in ToSet(cmd) : "url" \in w.has /\ w.external
      BY <2>6
    <3>2. w \in Label(c).resources
      BY <2>5, <3>1 DEF extractURLsFromCommand
    <3>3. w \in r.resources
      BY <3>2, RequestParts DEF r
    <3>4. w \in External
      BY <2>2, <3>1, CallsAssumption
    <3> QED BY <2>4, <3>3, <3>4, TaintedRefused DEF isRestrictedSink, isExternalResource, r, c, name, args
  <2>7. CASE \A w \in ToSet(cmd) : /\ ~ looksLikePath(w) /\ "<" \notin w.is
                                   /\ w.has \cap {"url", "meta", "inner"} = {}
    <3>1. \A j \in 1 .. Len(cmd) : cmd[j] \in ToSet(cmd)
      BY <2>2 DEF ToSet
    <3>2. Len(cmd) \in Nat
      BY <2>2
    <3>3. \A at : at \subseteq 1 .. Len(cmd) => pathArgs(cmd, at) = {}
      BY <2>7, <3>1 DEF pathArgs
    <3>4. \A h \in 2 .. Len(cmd) : segment(cmd, h) \subseteq 1 .. Len(cmd)
      BY <3>2 DEF segment
    <3>5. extractPathsFromCommand(cmd) = {}
      <4>1. pathArgs(cmd, 2 .. Len(cmd)) = {}
        BY <3>2, <3>3
      <4>2. {cmd[i + 1] : i \in {i \in 1 .. Len(cmd) - 1 : "<" \in cmd[i].is}} = {}
        BY <2>7, <3>1, <3>2
      <4>3. \A h \in laterHeads(cmd) : pathArgs(cmd, segment(cmd, h)) = {}
        BY <3>3, <3>4 DEF laterHeads
      <4> QED BY <4>1, <4>2, <4>3 DEF extractPathsFromCommand
    <3>6. extractBashPaths(cmd) = {}
      BY <2>7, <3>1, <3>2 DEF extractBashPaths, looksLikePathToken, looksLikePath
    <3>7. extractURLsFromCommand(cmd) = {} /\ extractAllURLsFromCommand(cmd) = {}
      BY <2>7 DEF extractURLsFromCommand, extractAllURLsFromCommand
    <3>8. extractResourcePaths(name, args) = extractAllURLsFromCommand(cmd)
      BY <1>4 DEF extractResourcePaths, cmd
    <3>9. r.resources = {}
      BY <1>1, <2>5, <3>5, <3>6, <3>7, <3>8, RequestParts DEF r
    <3> QED BY <2>4, <3>9, TaintedRefused DEF isRestrictedSink, r, c, name, args
  <2> QED BY <2>3, <2>6, <2>7
<1>5. CASE name = "WebFetch"
  <2>1. PICK w \in oneWord(args, "url") : w.external
    BY <1>5 DEF sends, name, args
  <2>2. w \in Label(c).resources
    <3>1. w \in ExtractDomains(name, args)
      BY <1>5, <2>1 DEF ExtractDomains
    <3> QED BY <1>1, <3>1, LabelParts
  <2>3. w \in r.resources /\ w \in External
    BY <1>3, <2>1, <2>2, RequestParts, CallsAssumption DEF r
  <2>4. isRestrictedSink(r)
    <3>1. name \in {"WebFetch", "SendMessage"}
      BY <1>5
    <3>2. isRestrictedSink(requestOf(DeployedTable, NameHash, ToolCall(name, args, FALSE)))
      BY <1>2, <3>1, RestrictedByEffect, Zenon
    <3> QED BY <3>2 DEF r, c
  <2> QED BY <2>3, <2>4, TaintedRefused DEF isExternalResource, r, c, name, args
<1>6. CASE name = "SendMessage"
  <2>1. PICK w \in oneWord(args, "to") : w.external
    BY <1>6 DEF sends, name, args
  <2>2. Label(c).resources = {}
    <3>1. ExtractPaths(name, args) = {} /\ ExtractDomains(name, args) = {}
      BY <1>6 DEF ExtractPaths, ExtractDomains
    <3>2. commandText(c) = <<>>
      BY <1>1, <1>6 DEF commandText
    <3>3. extractBashPaths(<<>>) = {}
      BY DEF extractBashPaths
    <3> QED BY <1>1, <3>1, <3>2, <3>3, LabelParts
  <2>3. extractResourcePaths(name, args) = oneWord(args, "to")
    BY <1>6 DEF extractResourcePaths
  <2>4. w \in r.resources /\ w \in External
    BY <1>1, <1>3, <2>1, <2>2, <2>3, RequestParts, CallsAssumption DEF r
  <2>5. isRestrictedSink(r)
    <3>1. name \in {"WebFetch", "SendMessage"}
      BY <1>6
    <3>2. isRestrictedSink(requestOf(DeployedTable, NameHash, ToolCall(name, args, FALSE)))
      BY <1>2, <3>1, RestrictedByEffect, Zenon
    <3> QED BY <3>2 DEF r, c
  <2> QED BY <2>4, <2>5, TaintedRefused DEF isExternalResource, r, c, name, args
<1>7. CASE name \notin {"Bash", "WebFetch", "SendMessage"}
  BY <1>7 DEF sends, name
<1> QED BY <1>4, <1>5, <1>6, <1>7

(* Every form of a call is read as that call.                              *)
LEMMA FormParsed ==
  ASSUME NEW tool, tool # NoText, NEW args, NEW raw \in forms(tool, args)
  PROVE  ParseInput(raw) = Parsed(tool, <<args>>, "s")
<1> DEFINE claude == input([hook_event_name |-> "PreToolUse", session_id |-> "s", tool_name |-> tool,
                            tool_input |-> <<args>>])
           both == input([hook_event_name |-> "PreToolUse", session_id |-> "s", conversation_id |-> "c",
                          tool_name |-> tool, tool_input |-> <<args>>])
           cursor == input([conversation_id |-> "s", tool_name |-> tool, input |-> <<args>>])
           named == input([session_id |-> "s", tool |-> tool, args |-> <<args>>])
           null == input([session_id |-> "s", tool |-> tool, tool_name |-> NoText, input |-> <<>>,
                          tool_input |-> <<args>>])
<1>1. raw = claude \/ raw = both \/ raw = cursor \/ raw = named \/ raw = null
  BY DEF forms
<1>2. <<args>> # <<>>
  OBVIOUS
<1>3. NoText # "PreToolUse" /\ NoText # "s" /\ NoText # "c"
  BY TextAssumption
<1>4. CASE raw = claude
  <2>1. /\ Text(raw, "hook_event_name") = "PreToolUse" /\ Text(raw, "session_id") = "s"
        /\ Text(raw, "tool_name") = tool /\ Args(raw, "tool_input") = <<args>>
    BY <1>4 DEF Text, Args, input
  <2> QED BY <1>3, <2>1 DEF ParseInput, ParseInputClaudeCode, detectAdapter, DetectClaudeCode
<1>5. CASE raw = both
  <2>1. /\ Text(raw, "hook_event_name") = "PreToolUse" /\ Text(raw, "session_id") = "s"
        /\ Text(raw, "tool_name") = tool /\ Args(raw, "tool_input") = <<args>>
    BY <1>5 DEF Text, Args, input
  <2> QED BY <1>3, <2>1 DEF ParseInput, ParseInputClaudeCode, detectAdapter, DetectClaudeCode
<1>6. CASE raw = cursor
  <2>1. /\ Text(raw, "hook_event_name") = NoText /\ Text(raw, "conversation_id") = "s"
        /\ Text(raw, "tool_name") = tool /\ Args(raw, "input") = <<args>>
    BY <1>6 DEF Text, Args, input
  <2> QED BY <1>3, <2>1 DEF ParseInput, ParseInputCursor, detectAdapter, DetectClaudeCode, DetectCursor
<1>7. CASE raw = named
  <2>1. /\ Text(raw, "hook_event_name") = NoText /\ Text(raw, "conversation_id") = NoText
        /\ Text(raw, "session_id") = "s" /\ Text(raw, "tool_name") = NoText /\ Text(raw, "tool") = tool
        /\ Args(raw, "input") = <<>> /\ Args(raw, "tool_input") = <<>> /\ Args(raw, "args") = <<args>>
        /\ raw.valid
    BY <1>7 DEF Text, Args, input
  <2>2. resolveArgs(raw) = <<args>> /\ resolveToolName(raw) = tool
    BY <1>2, <2>1 DEF resolveArgs, resolveToolName
  <2>3. detectAdapter(raw) = "generic"
    BY <2>1 DEF detectAdapter, DetectClaudeCode, DetectCursor
  <2> QED BY <2>1, <2>2, <2>3 DEF ParseInput, ParseInputGeneric
<1>8. CASE raw = null
  <2>1. /\ Text(raw, "hook_event_name") = NoText /\ Text(raw, "conversation_id") = NoText
        /\ Text(raw, "session_id") = "s" /\ Text(raw, "tool_name") = NoText /\ Text(raw, "tool") = tool
        /\ Args(raw, "input") = <<>> /\ Args(raw, "tool_input") = <<args>> /\ raw.valid
    BY <1>8 DEF Text, Args, input
  <2>2. resolveArgs(raw) = <<args>> /\ resolveToolName(raw) = tool
    BY <1>2, <2>1 DEF resolveArgs, resolveToolName
  <2>3. detectAdapter(raw) = "generic"
    BY <2>1 DEF detectAdapter, DetectClaudeCode, DetectCursor
  <2> QED BY <2>1, <2>2, <2>3 DEF ParseInput, ParseInputGeneric
<1> QED BY <1>1, <1>4, <1>5, <1>6, <1>7, <1>8

(* A refusal of the daemon is told to the IDE by every adapter.            *)
LEMMA RefusalTold ==
  ASSUME NEW raw, ParseInput(raw).ok
  PROVE  main(raw, "deny").says = "deny"
<1>1. "deny" # NoText
  BY NoTextAssumption
<1>2. main(raw, "deny") = FormatOutput(raw, "deny")
  BY <1>1 DEF main
<1>3. /\ FormatOutputClaudeCode("deny").says = "deny" /\ FormatOutputGeneric("deny").says = "deny"
      /\ FormatOutputCursor("deny").says = "deny"
  BY DEF FormatOutputClaudeCode, FormatOutputGeneric, FormatOutputCursor, Told, permission
<1> QED BY <1>2, <1>3 DEF FormatOutput

(* For calls of any words, from every IDE: what a tainted session without  *)
(* approval sends is denied, and the IDE is told so (engine.go 383-393,    *)
(* enforcer.go 116, the adapters of cmd/nixis-hook).                       *)
THEOREM TaintedEgressStoppedHolds == Spec => []TaintedEgressStopped
<1>1. ASSUME NEW call \in BashCalls \cup OtherCalls, sends(call),
             NEW raw \in forms(call.tool.name, call.args)
      PROVE  main(raw, answerTo(DeployedTable, ParseInput(raw))).says = "deny"
  <2> DEFINE req == ParseInput(raw)
             c == ToolCall(call.tool.name, call.args, FALSE)
  <2>1. call.tool.name # NoText
    <3>1. Tool(call.tool.name) \in CalledTools /\ Tool(call.tool.name).name = call.tool.name
      BY CallsAssumption DEF Tool
    <3> QED BY <3>1, ClassifierAssumption, TextAssumption
  <2>2. req = Parsed(call.tool.name, <<call.args>>, "s")
    BY <2>1, FormParsed
  <2>3. req.ok /\ req.tool = call.tool.name /\ Head(req.args) = call.args /\ req.session = "s"
    BY <2>2 DEF Parsed
  <2> HIDE DEF req
  <2>4. Decision(TaintedSession, requestOf(DeployedTable, NameHash, c), 0) = "deny"
    BY <1>1, SendingRefused
  <2>5. answerTo(DeployedTable, req) = "deny"
    BY <2>3, <2>4 DEF answerTo
  <2> QED BY <2>3, <2>5, RefusalTold DEF req
<1>2. TaintedEgressStopped
  BY <1>1 DEF TaintedEgressStopped
<1> QED BY <1>2, PTL
=============================================================================
