------------------------- MODULE SessionLabelsProofs -------------------------
(***************************************************************************)
(* Proofs about security labels and the registry of session labels, for    *)
(* any number of sessions, goroutines, levels and categories.              *)
(***************************************************************************)
EXTENDS SessionLabels, TLAPS

-----------------------------------------------------------------------------
(* What elevation computes, for every range of levels and every set of     *)
(* category bits: the least upper bound of the dominance order.            *)

LEMMA MaxOfType ==
  ASSUME NEW x \in Levels, NEW y \in Levels
  PROVE  MaxOf(x, y) \in Levels /\ MaxOf(x, y) >= x /\ MaxOf(x, y) >= y
BY MaxLevelAssumption DEF MaxOf, Levels

(* elevateLabel returns a label, and it dominates both of its arguments:   *)
(* neither what the session had nor what it touched is forgotten.          *)
LEMMA ElevateUpperBound ==
  ASSUME NEW a \in Labels, NEW b \in Labels
  PROVE  /\ elevateLabel(a, b) \in Labels
         /\ Dominates(elevateLabel(a, b), a)
         /\ Dominates(elevateLabel(a, b), b)
<1>1. a.c \in Levels /\ a.i \in Levels /\ b.c \in Levels /\ b.i \in Levels
  BY DEF Labels
<1>2. MaxOf(a.c, b.c) \in Levels /\ MaxOf(a.c, b.c) >= a.c /\ MaxOf(a.c, b.c) >= b.c
  BY <1>1, MaxOfType
<1>3. MaxOf(a.i, b.i) \in Levels /\ MaxOf(a.i, b.i) >= a.i /\ MaxOf(a.i, b.i) >= b.i
  BY <1>1, MaxOfType
<1>4. a.k \cup b.k \in SUBSET Categories
  BY DEF Labels
<1> QED
  BY <1>2, <1>3, <1>4 DEF Labels, elevateLabel, Dominates

(* ... and it is the least such label: elevation never adds more than what *)
(* was touched, so a session is not restricted beyond need.                *)
LEMMA ElevateLeast ==
  ASSUME NEW a \in Labels, NEW b \in Labels, NEW u \in Labels,
         Dominates(u, a), Dominates(u, b)
  PROVE  Dominates(u, elevateLabel(a, b))
BY DEF Labels, Levels, Dominates, elevateLabel, MaxOf

LEMMA DominatesReflexive ==
  ASSUME NEW a \in Labels
  PROVE  Dominates(a, a)
BY DEF Labels, Levels, Dominates

LEMMA DominatesTransitive ==
  ASSUME NEW a \in Labels, NEW b \in Labels, NEW c \in Labels,
         Dominates(a, b), Dominates(b, c)
  PROVE  Dominates(a, c)
BY DEF Labels, Levels, Dominates

LEMMA DominatesAntisymmetric ==
  ASSUME NEW a \in Labels, NEW b \in Labels, Dominates(a, b), Dominates(b, a)
  PROVE  a = b
<1>1. a.c = b.c /\ a.i = b.i /\ a.k = b.k
  BY DEF Labels, Levels, Dominates
<1> QED
  BY <1>1 DEF Labels

LEMMA ZeroMaxLabels == ZeroLabel \in Labels /\ MaxLabel \in Labels
BY MaxLevelAssumption DEF ZeroLabel, MaxLabel, Labels, Levels

(* Dominates is a partial order on labels and elevateLabel is its least    *)
(* upper bound, for all levels and categories.                             *)
THEOREM ElevationIsLeastUpperBound ==
  \A a, b \in Labels :
    /\ elevateLabel(a, b) \in Labels
    /\ Dominates(elevateLabel(a, b), a)
    /\ Dominates(elevateLabel(a, b), b)
    /\ \A u \in Labels :
         Dominates(u, a) /\ Dominates(u, b) => Dominates(u, elevateLabel(a, b))
BY ElevateUpperBound, ElevateLeast

-----------------------------------------------------------------------------
(* The registry.                                                           *)

(* An entry that is not the stored one has never been written.             *)
UnstoredFresh ==
  \A s \in Sessions, t \in Threads :
    t # creator[s] => label[s][t] = ZeroLabel /\ state[s][t] = Fresh

(* Which kinds of call reach which program points, and the comparison that *)
(* precedes the CAS of advanceState.                                       *)
Control(t) ==
  /\ pc[t] \in {"load", "cas"} => op[t].kind = "elevate"
  /\ pc[t] = "ceil" => op[t].kind = "ceiling"
  /\ pc[t] \in {"stLoad", "stCas"} => op[t].kind \in {"elevate", "declassify"}
  /\ pc[t] = "stCas" => oldState[t] < Target(t)

(* A committed Elevate: its result is at or above the resource, and the    *)
(* session is still at or above the result.                                *)
Committed(t) ==
  op[t].kind = "elevate" /\ pc[t] \in After =>
    /\ Dominates(Current(op[t].s), result[t])
    /\ Dominates(result[t], op[t].r)

(* ... and the state machine it still has to advance, or has advanced.     *)
Advanced(t) ==
  op[t].kind = "elevate" =>
    /\ pc[t] \in {"stLoad", "stCas"} => result[t] # ZeroLabel
    /\ pc[t] = "ret" =>
         /\ Tainted(result[t]) => LabelState(op[t].s) >= TaintedBySecret
         /\ result[t] # ZeroLabel => LabelState(op[t].s) >= Escalated

IInv == /\ TypeOK
        /\ UnstoredFresh
        /\ \A t \in Threads : Control(t) /\ Committed(t) /\ Advanced(t)
        /\ NoLostElevation
        /\ LifecycleFollowsLabel

-----------------------------------------------------------------------------
(* Facts about labels in the vocabulary of the registry.                   *)

LEMMA NonZeroAbove ==
  ASSUME NEW a \in Labels, NEW b \in Labels, Dominates(a, b)
  PROVE  /\ b # ZeroLabel => a # ZeroLabel
         /\ Tainted(b) => Tainted(a)
<1>1. ASSUME a = ZeroLabel PROVE b = ZeroLabel
  <2>1. b.c = 0 /\ b.i = 0 /\ b.k = {}
    BY <1>1 DEF Dominates, ZeroLabel, Labels, Levels
  <2> QED
    BY <2>1 DEF ZeroLabel, Labels
<1>2. Tainted(b) => Tainted(a)
  BY DEF Dominates, Tainted
<1> QED
  BY <1>1, <1>2

LEMMA ZeroNotTainted == ~ Tainted(ZeroLabel)
BY DEF Tainted, ZeroLabel

(* The label and the ordinal of a session are a label and an ordinal.      *)
LEMMA ReadTypes ==
  ASSUME TypeOK, NEW s \in Sessions
  PROVE  /\ Current(s) \in Labels
         /\ LabelState(s) \in Fresh .. Declassified
BY ZeroMaxLabels DEF TypeOK, Types, Current, LabelState, Fresh, Declassified

LEMMA ReadTypesAfter ==
  ASSUME TypeOK', NEW s \in Sessions
  PROVE  /\ Current(s)' \in Labels
         /\ LabelState(s)' \in Fresh .. Declassified
BY ZeroMaxLabels DEF TypeOK, Types, Current, LabelState, Fresh, Declassified

LEMMA TargetType ==
  ASSUME NEW t \in Threads
  PROVE  Target(t) \in Escalated .. Declassified
BY DEF Target, Escalated, TaintedBySecret, Declassified

(* Writing one word of one entry.                                          *)
LEMMA WriteWord ==
  ASSUME NEW S, NEW T, NEW V, NEW f \in [S -> [T -> V]], NEW a \in S, NEW b \in T, NEW q \in V
  PROVE  /\ [f EXCEPT ![a][b] = q] \in [S -> [T -> V]]
         /\ \A x \in S, y \in T :
              [f EXCEPT ![a][b] = q][x][y] = IF x = a /\ y = b THEN q ELSE f[x][y]
<1> DEFINE g == [f[a] EXCEPT ![b] = q]
<1>1. f[a] \in [T -> V]
  OBVIOUS
<1>2. g \in [T -> V] /\ \A y \in T : g[y] = IF y = b THEN q ELSE f[a][y]
  BY <1>1
<1>3. [f EXCEPT ![a][b] = q] = [f EXCEPT ![a] = g]
  OBVIOUS
<1> HIDE DEF g
<1>4. [f EXCEPT ![a] = g] \in [S -> [T -> V]]
  BY <1>2
<1>5. \A x \in S, y \in T :
        [f EXCEPT ![a] = g][x][y] = IF x = a /\ y = b THEN q ELSE f[x][y]
  BY <1>2
<1> QED
  BY <1>3, <1>4, <1>5

-----------------------------------------------------------------------------
(* Types are preserved by every step.                                      *)
LEMMA InitType == Init => TypeOK
BY ZeroMaxLabels DEF Init, TypeOK, Types, Ops, Kinds, NoCall, PCs, Fresh, Declassified

LEMMA OpFields ==
  ASSUME Types, NEW t \in Threads
  PROVE  /\ op[t].kind \in Kinds /\ op[t].s \in Sessions /\ op[t].r \in Labels
         /\ Body(op[t].kind) \in {"load", "ceil", "stLoad"}
BY DEF Types, Ops, Kinds, Body

LEMMA StepTypes == Types /\ [Next]_vars => Types'
<1> SUFFICES ASSUME Types, [Next]_vars PROVE Types'
  OBVIOUS
<1>1. CASE UNCHANGED vars
  BY <1>1 DEF Types, vars
<1>2. ASSUME NEW t \in Threads, Call(t) PROVE Types'
  <2>1. op' \in [Threads -> Ops]
    <3>1. \A s \in Sessions : NoCall(s) \in Ops
      BY ZeroMaxLabels DEF NoCall, Ops, Kinds
    <3>2. \A s \in Sessions, r \in Labels :
            /\ [kind |-> "elevate", s |-> s, r |-> r] \in Ops
            /\ [kind |-> "ceiling", s |-> s, r |-> r] \in Ops
      BY DEF Ops, Kinds
    <3>3. \E x \in Ops : op' = [op EXCEPT ![t] = x]
      BY <1>2, <3>1, <3>2, InputsAssumption DEF Call
    <3> QED
      BY <3>3 DEF Types
  <2>2. pc' \in [Threads -> PCs]
    BY <1>2 DEF Types, Call, PCs
  <2> QED
    BY <1>2, <2>1, <2>2 DEF Types, Call
<1>3. ASSUME NEW t \in Threads, Lookup(t) PROVE Types'
  <2>1. pc' \in [Threads -> PCs] /\ ref' \in [Threads -> Threads]
    <3>1. creator[op[t].s] \in Threads \cup {NoThread}
      BY OpFields DEF Types
    <3>2. \E q \in PCs : pc' = [pc EXCEPT ![t] = q]
      BY <1>3, OpFields DEF Lookup, PCs
    <3>3. ref' = ref \/ \E q \in Threads : ref' = [ref EXCEPT ![t] = q]
      BY <1>3, <3>1 DEF Lookup
    <3> QED
      BY <3>2, <3>3 DEF Types
  <2> QED
    BY <1>3, <2>1 DEF Types, Lookup
<1>4. ASSUME NEW t \in Threads, LoadOrStore(t) PROVE Types'
  <2>1. creator[op[t].s] \in Threads \cup {NoThread}
    BY OpFields DEF Types
  <2>2. /\ pc' \in [Threads -> PCs] /\ ref' \in [Threads -> Threads]
        /\ creator' \in [Sessions -> Threads \cup {NoThread}]
    BY <1>4, <2>1, OpFields DEF Types, LoadOrStore, PCs
  <2> QED
    BY <1>4, <2>2 DEF Types, LoadOrStore
<1>5. ASSUME NEW t \in Threads, LoadLabel(t) PROVE Types'
  <2>1. label[op[t].s][ref[t]] \in Labels
    BY OpFields DEF Types
  <2>2. /\ pc' \in [Threads -> PCs] /\ old' \in [Threads -> Labels]
        /\ result' \in [Threads -> Labels]
    BY <1>5, <2>1 DEF Types, LoadLabel, PCs, AfterLabel
  <2> QED
    BY <1>5, <2>2 DEF Types, LoadLabel
<1>6. ASSUME NEW t \in Threads, CasLabel(t) PROVE Types'
  <2>1. elevateLabel(old[t], op[t].r) \in Labels
    BY OpFields, ElevateUpperBound DEF Types
  <2>2. /\ pc' \in [Threads -> PCs] /\ result' \in [Threads -> Labels]
        /\ label' \in [Sessions -> [Threads -> Labels]]
    <3>1. \E q \in PCs : pc' = [pc EXCEPT ![t] = q]
      BY <1>6 DEF CasLabel, PCs, AfterLabel
    <3>2. result' = result \/ \E q \in Labels : result' = [result EXCEPT ![t] = q]
      BY <1>6, <2>1 DEF CasLabel
    <3>3. label' = label \/ \E q \in Labels : label' = [label EXCEPT ![op[t].s][ref[t]] = q]
      BY <1>6, <2>1 DEF CasLabel
    <3>4. label' \in [Sessions -> [Threads -> Labels]]
      <4>1. /\ label \in [Sessions -> [Threads -> Labels]]
            /\ op[t].s \in Sessions /\ ref[t] \in Threads
        BY OpFields DEF Types
      <4>2. \A q \in Labels :
              [label EXCEPT ![op[t].s][ref[t]] = q] \in [Sessions -> [Threads -> Labels]]
        BY <4>1, WriteWord
      <4> QED
        BY <3>3, <4>1, <4>2
    <3> QED
      BY <3>1, <3>2, <3>4 DEF Types
  <2> QED
    BY <1>6, <2>2 DEF Types, CasLabel
<1>7. ASSUME NEW t \in Threads, CasCeiling(t) PROVE Types'
  <2>1. ceiling' \in [Sessions -> [Threads -> Labels]] /\ pc' \in [Threads -> PCs]
    BY <1>7, OpFields, ZeroMaxLabels DEF Types, CasCeiling, PCs
  <2> QED
    BY <1>7, <2>1 DEF Types, CasCeiling
<1>8. ASSUME NEW t \in Threads, LoadState(t) PROVE Types'
  <2>1. pc' \in [Threads -> PCs] /\ oldState' \in [Threads -> Fresh .. Declassified]
    <3>1. state[op[t].s][ref[t]] \in Fresh .. Declassified
      BY OpFields DEF Types
    <3>2. \E q \in PCs : pc' = [pc EXCEPT ![t] = q]
      BY <1>8 DEF LoadState, PCs
    <3>3. \/ oldState' = oldState
          \/ \E q \in Fresh .. Declassified : oldState' = [oldState EXCEPT ![t] = q]
      BY <1>8, <3>1 DEF LoadState
    <3> QED
      BY <3>2, <3>3 DEF Types
  <2> QED
    BY <1>8, <2>1 DEF Types, LoadState
<1>9. ASSUME NEW t \in Threads, CasState(t) PROVE Types'
  <2>1. Target(t) \in Fresh .. Declassified
    BY TargetType DEF Fresh, Escalated, Declassified
  <2>2. /\ state' \in [Sessions -> [Threads -> Fresh .. Declassified]]
        /\ pc' \in [Threads -> PCs]
    <3>1. \E q \in PCs : pc' = [pc EXCEPT ![t] = q]
      BY <1>9 DEF CasState, PCs
    <3>2. \/ state' = state
          \/ \E q \in Fresh .. Declassified : state' = [state EXCEPT ![op[t].s][ref[t]] = q]
      BY <1>9, <2>1 DEF CasState
    <3>3. state' \in [Sessions -> [Threads -> Fresh .. Declassified]]
      <4>1. /\ state \in [Sessions -> [Threads -> Fresh .. Declassified]]
            /\ op[t].s \in Sessions /\ ref[t] \in Threads
        BY OpFields DEF Types
      <4>2. \A q \in Fresh .. Declassified :
              [state EXCEPT ![op[t].s][ref[t]] = q]
                \in [Sessions -> [Threads -> Fresh .. Declassified]]
        BY <4>1, WriteWord
      <4> QED
        BY <3>2, <4>1, <4>2
    <3> QED
      BY <3>1, <3>3 DEF Types
  <2> QED
    BY <1>9, <2>2 DEF Types, CasState
<1>10. ASSUME NEW t \in Threads, Return(t) PROVE Types'
  <2>1. NoCall(op[t].s) \in Ops
    BY OpFields, ZeroMaxLabels DEF NoCall, Ops, Kinds
  <2>2. op' \in [Threads -> Ops] /\ pc' \in [Threads -> PCs]
    BY <1>10, <2>1 DEF Types, Return, PCs
  <2>3. done' \in [Sessions -> SUBSET Labels]
    BY <1>10, OpFields DEF Types, Return
  <2> QED
    BY <1>10, <2>2, <2>3, ZeroMaxLabels DEF Types, Return, Fresh, Declassified
<1> QED
  BY <1>1, <1>2, <1>3, <1>4, <1>5, <1>6, <1>7, <1>8, <1>9, <1>10 DEF Next, Step

(* A call past getOrCreate keeps working on the stored entry, because a    *)
(* stored entry is never replaced.                                         *)
LEMMA StepType == TypeOK /\ [Next]_vars => TypeOK'
<1> SUFFICES ASSUME TypeOK, [Next]_vars PROVE TypeOK'
  OBVIOUS
<1>1. Types /\ Types'
  BY StepTypes DEF TypeOK
<1> DEFINE Held(u) == pc[u] \notin {"idle", "lookup", "store"} => ref[u] = creator[op[u].s]
<1>2. ASSUME NEW s \in Sessions, creator[s] # NoThread PROVE creator'[s] = creator[s]
  <2>1. ASSUME NEW t \in Threads, LoadOrStore(t) PROVE creator'[s] = creator[s]
    BY <1>1, <1>2, <2>1 DEF Types, LoadOrStore
  <2>2. ASSUME UNCHANGED creator PROVE creator'[s] = creator[s]
    BY <2>2
  <2> QED
    BY <2>1, <2>2 DEF Next, Step, vars, Call, Lookup, LoadLabel, CasLabel, CasCeiling,
                      LoadState, CasState, Return
<1>3. ASSUME NEW u \in Threads, UNCHANGED <<pc[u], op[u], ref[u]>> PROVE Held(u)'
  <2>1. Held(u)
    BY DEF TypeOK
  <2>2. ref[u] \in Threads /\ op[u].s \in Sessions
    BY <1>1, OpFields DEF Types
  <2> QED
    BY <1>2, <1>3, <2>1, <2>2, NoThreadAssumption
<1>4. ASSUME NEW t \in Threads, NEW u \in Threads, u # t, Call(t) \/ Step(t)
      PROVE  UNCHANGED <<pc[u], op[u], ref[u]>>
  BY <1>1, <1>4 DEF Types, Step, Call, Lookup, LoadOrStore, LoadLabel, CasLabel,
                    CasCeiling, LoadState, CasState, Return
<1>5. ASSUME NEW t \in Threads, Call(t) \/ Step(t) PROVE Held(t)'
  <2>1. CASE Call(t) \/ Return(t)
    BY <1>1, <2>1 DEF Types, Call, Return
  <2>2. CASE Lookup(t)
    BY <1>1, <2>2, OpFields DEF Types, Lookup
  <2>3. CASE LoadOrStore(t)
    BY <1>1, <2>3, OpFields DEF Types, LoadOrStore
  <2>4. CASE LoadLabel(t) \/ CasLabel(t) \/ CasCeiling(t) \/ LoadState(t) \/ CasState(t)
    <3>1. Held(t) /\ pc[t] \notin {"idle", "lookup", "store"}
      BY <2>4 DEF TypeOK, LoadLabel, CasLabel, CasCeiling, LoadState, CasState
    <3>2. UNCHANGED <<op, ref, creator>>
      BY <2>4 DEF LoadLabel, CasLabel, CasCeiling, LoadState, CasState
    <3> QED
      BY <3>1, <3>2
  <2> QED
    BY <1>5, <2>1, <2>2, <2>3, <2>4 DEF Step
<1>6. \A u \in Threads : Held(u)'
  <2>1. CASE UNCHANGED vars
    BY <1>3, <2>1 DEF vars
  <2>2. ASSUME NEW t \in Threads, Call(t) \/ Step(t), NEW u \in Threads PROVE Held(u)'
    BY <1>3, <1>4, <1>5, <2>2
  <2> QED
    BY <2>1, <2>2 DEF Next
<1> QED
  BY <1>1, <1>6 DEF TypeOK

LEMMA HeldEntry ==
  ASSUME TypeOK, NEW t \in Threads, pc[t] \notin {"idle", "lookup", "store"}
  PROVE  ref[t] = creator[op[t].s] /\ creator[op[t].s] # NoThread
BY NoThreadAssumption DEF TypeOK, Types

-----------------------------------------------------------------------------
(* The heart of the argument: whatever goroutine moves, the label and the  *)
(* ordinal read by Current and LabelState only go up.  A new entry is      *)
(* fresh, a CAS replaces what was read by its elevation, and advanceState  *)
(* swaps in an ordinal above the one it compared with.                     *)
Rises(s) == /\ Dominates(Current(s)', Current(s))
            /\ LabelState(s)' >= LabelState(s)

LEMMA NothingFalls ==
  ASSUME IInv, [Next]_vars, NEW s \in Sessions
  PROVE  Rises(s)
<1> USE DEF IInv
<1>1. Current(s) \in Labels /\ LabelState(s) \in Fresh .. Declassified
  BY ReadTypes
<1>0. Types
  BY DEF TypeOK
<1>2. ASSUME UNCHANGED <<creator, label, state>> PROVE Rises(s)
  <2>1. Current(s)' = Current(s) /\ LabelState(s)' = LabelState(s)
    BY <1>2 DEF Current, LabelState
  <2> QED
    BY <1>1, <2>1, DominatesReflexive DEF Rises, Fresh, Declassified
<1>3. ASSUME NEW t \in Threads, LoadOrStore(t) PROVE Rises(s)
  <2>1. CASE creator'[s] = creator[s]
    <3>1. Current(s)' = Current(s) /\ LabelState(s)' = LabelState(s)
      BY <1>3, <2>1 DEF LoadOrStore, Current, LabelState
    <3> QED
      BY <1>1, <3>1, DominatesReflexive DEF Rises, Fresh, Declassified
  <2>2. CASE creator'[s] # creator[s]
    <3>1. creator[s] = NoThread /\ creator'[s] = t
      BY <1>3, <2>2 DEF TypeOK, Types, LoadOrStore, Ops
    <3>2. label'[s][t] = ZeroLabel /\ state'[s][t] = Fresh
      BY <1>3, <3>1, NoThreadAssumption DEF UnstoredFresh, LoadOrStore
    <3>3. Current(s)' = Current(s) /\ LabelState(s)' = LabelState(s)
      BY <3>1, <3>2, NoThreadAssumption DEF Current, LabelState
    <3> QED
      BY <1>1, <3>3, DominatesReflexive DEF Rises, Fresh, Declassified
  <2> QED
    BY <2>1, <2>2
<1>4. ASSUME NEW t \in Threads, CasLabel(t) PROVE Rises(s)
  <2>1. CASE s = op[t].s /\ label[s][ref[t]] = old[t]
    <3>1. ref[t] = creator[s] /\ creator[s] # NoThread
      BY <1>4, <2>1, HeldEntry DEF CasLabel
    <3>2. Current(s) = old[t]
      BY <2>1, <3>1 DEF Current
    <3>3. Current(s)' = elevateLabel(old[t], op[t].r)
      BY <1>4, <2>1, <3>1 DEF TypeOK, Types, CasLabel, Current
    <3>4. op[t].r \in Labels
      BY DEF TypeOK, Types, Ops
    <3>5. Dominates(Current(s)', Current(s))
      BY <1>1, <3>2, <3>3, <3>4, ElevateUpperBound
    <3>6. LabelState(s)' = LabelState(s)
      BY <1>4 DEF CasLabel, LabelState
    <3> QED
      BY <1>1, <3>5, <3>6 DEF Rises, Fresh, Declassified
  <2>2. CASE ~(s = op[t].s /\ label[s][ref[t]] = old[t])
    <3>1. Current(s)' = Current(s) /\ LabelState(s)' = LabelState(s)
      BY <1>4, <2>2 DEF TypeOK, Types, CasLabel, Current, LabelState
    <3> QED
      BY <1>1, <3>1, DominatesReflexive DEF Rises, Fresh, Declassified
  <2> QED
    BY <2>1, <2>2
<1>5. ASSUME NEW t \in Threads, CasState(t) PROVE Rises(s)
  <2>1. Current(s)' = Current(s)
    BY <1>5 DEF CasState, Current
  <2>2. oldState[t] < Target(t)
    BY <1>5 DEF CasState, Control
  <2>3. LabelState(s)' >= LabelState(s)
    <3>1. CASE s = op[t].s /\ state[s][ref[t]] = oldState[t]
      <4>1. ref[t] = creator[s] /\ creator[s] # NoThread
        BY <1>5, <3>1, HeldEntry DEF CasState
      <4>2. LabelState(s) = oldState[t] /\ LabelState(s)' = Target(t)
        BY <1>5, <3>1, <4>1 DEF TypeOK, Types, CasState, LabelState
      <4> QED
        BY <1>1, <2>2, <4>2, TargetType DEF Fresh, Escalated, Declassified
    <3>2. CASE ~(s = op[t].s /\ state[s][ref[t]] = oldState[t])
      <4>1. LabelState(s)' = LabelState(s)
        BY <1>5, <3>2 DEF TypeOK, Types, CasState, LabelState
      <4> QED
        BY <1>1, <4>1 DEF Fresh, Declassified
    <3> QED
      BY <3>1, <3>2
  <2> QED
    BY <1>1, <2>1, <2>3, DominatesReflexive DEF Rises
<1>6. ASSUME NEW t \in Threads,
             \/ Call(t) \/ Lookup(t) \/ LoadLabel(t) \/ CasCeiling(t)
             \/ LoadState(t) \/ Return(t)
      PROVE  UNCHANGED <<creator, label, state>>
  BY <1>6 DEF Call, Lookup, LoadLabel, CasCeiling, LoadState, Return
<1>7. UNCHANGED vars => UNCHANGED <<creator, label, state>>
  BY DEF vars
<1> QED
  BY <1>2, <1>3, <1>4, <1>5, <1>6, <1>7 DEF Next, Step

-----------------------------------------------------------------------------
(* The remaining parts of the invariant, one thread at a time.             *)

LEMMA UnstoredStep == IInv /\ [Next]_vars => UnstoredFresh'
<1> SUFFICES ASSUME IInv, [Next]_vars, NEW s \in Sessions, NEW u \in Threads,
                    u # creator'[s]
             PROVE  label'[s][u] = ZeroLabel /\ state'[s][u] = Fresh
  BY DEF UnstoredFresh
<1> USE DEF IInv
<1>0. Types
  BY DEF TypeOK
<1>1. u # creator[s] => label[s][u] = ZeroLabel /\ state[s][u] = Fresh
  BY DEF UnstoredFresh
<1>2. ASSUME NEW t \in Threads, LoadOrStore(t) PROVE u # creator[s]
  BY <1>0, <1>2, OpFields, NoThreadAssumption DEF Types, LoadOrStore
<1>3. ASSUME NEW t \in Threads, CasLabel(t)
      PROVE  label'[s][u] = ZeroLabel /\ state'[s][u] = Fresh
  <2>1. creator' = creator /\ state' = state
    BY <1>3 DEF CasLabel
  <2>2. ref[t] = creator[op[t].s]
    BY <1>3, HeldEntry DEF CasLabel
  <2>3. label'[s][u] = label[s][u]
    <3>1. /\ label \in [Sessions -> [Threads -> Labels]]
          /\ op[t].s \in Sessions /\ ref[t] \in Threads /\ old[t] \in Labels
          /\ elevateLabel(old[t], op[t].r) \in Labels
      BY <1>0, OpFields, ElevateUpperBound DEF Types
    <3>2. \/ label' = label
          \/ label' = [label EXCEPT ![op[t].s][ref[t]] = elevateLabel(old[t], op[t].r)]
      BY <1>3 DEF CasLabel
    <3>3. ~ (s = op[t].s /\ u = ref[t])
      BY <2>1, <2>2
    <3> DEFINE word == elevateLabel(old[t], op[t].r)
    <3>4. label' = [label EXCEPT ![op[t].s][ref[t]] = word] => label'[s][u] = label[s][u]
      <4> HIDE DEF word
      <4> QED
        BY <3>1, <3>3, WriteWord
    <3> QED
      BY <3>2, <3>4
  <2> QED
    BY <1>1, <2>1, <2>3
<1>4. ASSUME NEW t \in Threads, CasState(t)
      PROVE  label'[s][u] = ZeroLabel /\ state'[s][u] = Fresh
  <2>1. creator' = creator /\ label' = label
    BY <1>4 DEF CasState
  <2>2. ref[t] = creator[op[t].s]
    BY <1>4, HeldEntry DEF CasState
  <2>3. state'[s][u] = state[s][u]
    <3>1. /\ state \in [Sessions -> [Threads -> Fresh .. Declassified]]
          /\ op[t].s \in Sessions /\ ref[t] \in Threads
          /\ Target(t) \in Fresh .. Declassified
      BY <1>0, OpFields, TargetType DEF Types, Fresh, Escalated, Declassified
    <3>2. state' = state \/ state' = [state EXCEPT ![op[t].s][ref[t]] = Target(t)]
      BY <1>4 DEF CasState
    <3>3. ~ (s = op[t].s /\ u = ref[t])
      BY <2>1, <2>2
    <3> DEFINE word == Target(t)
    <3>4. state' = [state EXCEPT ![op[t].s][ref[t]] = word] => state'[s][u] = state[s][u]
      <4> HIDE DEF word
      <4> QED
        BY <3>1, <3>3, WriteWord
    <3> QED
      BY <3>2, <3>4
  <2> QED
    BY <1>1, <2>1, <2>3
<1>5. ASSUME UNCHANGED <<creator, label, state>>
      PROVE  label'[s][u] = ZeroLabel /\ state'[s][u] = Fresh
  BY <1>1, <1>5
<1>6. ASSUME NEW t \in Threads,
             \/ Call(t) \/ Lookup(t) \/ LoadLabel(t) \/ CasCeiling(t)
             \/ LoadState(t) \/ Return(t)
      PROVE  UNCHANGED <<creator, label, state>>
  BY <1>6 DEF Call, Lookup, LoadLabel, CasCeiling, LoadState, Return
<1>7. ASSUME NEW t \in Threads, LoadOrStore(t)
      PROVE  label'[s][u] = ZeroLabel /\ state'[s][u] = Fresh
  BY <1>1, <1>2, <1>7 DEF LoadOrStore
<1>8. UNCHANGED vars => UNCHANGED <<creator, label, state>>
  BY DEF vars
<1> QED
  BY <1>3, <1>4, <1>5, <1>6, <1>7, <1>8 DEF Next, Step

(* A thread that does not move keeps its part of the invariant, because    *)
(* what it relies on only rises.                                           *)
Locals(u) == <<pc[u], op[u], old[u], oldState[u], result[u]>>

LEMMA OtherThreads ==
  ASSUME IInv, TypeOK', [Next]_vars, NEW u \in Threads, UNCHANGED Locals(u)
  PROVE  (Control(u) /\ Committed(u) /\ Advanced(u))'
<1> USE DEF IInv
<1>1. pc'[u] = pc[u] /\ op'[u] = op[u] /\ oldState'[u] = oldState[u] /\ result'[u] = result[u]
  BY DEF Locals
<1>2. op[u].s \in Sessions /\ op[u].r \in Labels /\ result[u] \in Labels
  BY OpFields DEF TypeOK, Types
<1>3. Control(u)'
  BY <1>1 DEF Control, Target
<1>s. PICK s \in Sessions : s = op[u].s
  BY <1>2
<1>4. Rises(s)
  BY NothingFalls
<1>5. /\ Current(s) \in Labels /\ Current(s)' \in Labels
      /\ LabelState(s) \in Int /\ LabelState(s)' \in Int
  BY ReadTypes, ReadTypesAfter DEF Fresh, Declassified
<1>6. Committed(u)'
  <2>1. ASSUME op[u].kind = "elevate", pc[u] \in After
        PROVE  Dominates(Current(s)', result[u]) /\ Dominates(result[u], op[u].r)
    <3>1. Dominates(Current(s), result[u]) /\ Dominates(result[u], op[u].r)
      BY <1>s, <2>1 DEF Committed
    <3>2. Dominates(Current(s)', Current(s))
      BY <1>4 DEF Rises
    <3> QED
      BY <1>2, <1>5, <3>1, <3>2, DominatesTransitive
  <2> QED
    BY <1>1, <1>s, <2>1 DEF Committed
<1>7. Advanced(u)'
  <2>1. LabelState(s)' >= LabelState(s)
    BY <1>4 DEF Rises
  <2>2. /\ LabelState(s) >= TaintedBySecret => LabelState(s)' >= TaintedBySecret
        /\ LabelState(s) >= Escalated => LabelState(s)' >= Escalated
    BY <1>5, <2>1 DEF TaintedBySecret, Escalated
  <2> QED
    BY <1>1, <1>s, <2>2 DEF Advanced
<1> QED
  BY <1>3, <1>6, <1>7

(* The thread that moves.                                                  *)
LEMMA MovingThread ==
  ASSUME IInv, TypeOK', [Next]_vars, NEW t \in Threads, Call(t) \/ Step(t)
  PROVE  (Control(t) /\ Committed(t) /\ Advanced(t))'
<1> USE DEF IInv
<1>0. Types /\ Types'
  BY DEF TypeOK
<1>1. op[t].s \in Sessions /\ op[t].r \in Labels /\ op[t].kind \in Kinds
  BY <1>0, OpFields
<1>s. PICK s \in Sessions : s = op[t].s
  BY <1>1
<1>2. /\ Current(s) \in Labels /\ Current(s)' \in Labels
      /\ LabelState(s) \in Fresh .. Declassified /\ LabelState(s)' \in Fresh .. Declassified
  BY ReadTypes, ReadTypesAfter
<1>3. CASE Call(t) \/ Return(t)
  <2>1. pc'[t] \in {"lookup", "idle"}
    BY <1>0, <1>3 DEF Types, Call, Return
  <2> QED
    BY <2>1 DEF Control, Committed, Advanced, After
<1>4. CASE Lookup(t) \/ LoadOrStore(t)
  <2>1. op'[t] = op[t]
    BY <1>4 DEF Lookup, LoadOrStore
  <2>2. \/ pc'[t] = "store"
        \/ pc'[t] = "load" /\ op[t].kind = "elevate"
        \/ pc'[t] = "ceil" /\ op[t].kind = "ceiling"
        \/ pc'[t] = "stLoad" /\ op[t].kind = "declassify"
    BY <1>0, <1>1, <1>4 DEF Types, Kinds, Lookup, LoadOrStore, Body
  <2> QED
    BY <2>1, <2>2 DEF Control, Committed, Advanced, After
<1>5. CASE CasCeiling(t)
  <2>1. op'[t] = op[t] /\ pc'[t] = "ret" /\ op[t].kind = "ceiling"
    BY <1>0, <1>5 DEF Types, CasCeiling, Control
  <2> QED
    BY <2>1 DEF Control, Committed, Advanced
<1>6. CASE LoadLabel(t)
  <2>1. /\ op'[t] = op[t] /\ op[t].kind = "elevate"
        /\ creator' = creator /\ label' = label /\ state' = state
    BY <1>6 DEF LoadLabel, Control
  <2>2. ref[t] = creator[s] /\ creator[s] # NoThread
    BY <1>6, <1>s, HeldEntry DEF LoadLabel
  <2>3. label[op[t].s][ref[t]] = Current(s) /\ Current(s)' = Current(s)
    BY <1>s, <2>1, <2>2 DEF Current
  <2>4. CASE pc'[t] = "cas"
    BY <2>1, <2>4 DEF Control, Committed, Advanced, After
  <2>5. CASE pc'[t] # "cas"
    <3>1. /\ result'[t] = Current(s) /\ elevateLabel(Current(s), op[t].r) = Current(s)
          /\ pc'[t] = AfterLabel(Current(s))
      BY <1>0, <1>6, <2>3, <2>5 DEF Types, LoadLabel
    <3>2. Dominates(Current(s), op[t].r)
      BY <1>1, <1>2, <3>1, ElevateUpperBound
    <3>3. Committed(t)'
      BY <1>2, <1>s, <2>1, <2>3, <3>1, <3>2, DominatesReflexive DEF Committed
    <3>4. Control(t)' /\ Advanced(t)'
      BY <2>1, <3>1, ZeroNotTainted DEF Control, Advanced, AfterLabel
    <3> QED
      BY <3>3, <3>4
  <2> QED
    BY <2>4, <2>5
<1>7. CASE CasLabel(t)
  <2>1. /\ op'[t] = op[t] /\ op[t].kind = "elevate"
        /\ creator' = creator /\ state' = state
    BY <1>7 DEF CasLabel, Control
  <2>2. ref[t] = creator[s] /\ creator[s] # NoThread /\ ref[t] \in Threads
    BY <1>0, <1>7, <1>s, HeldEntry DEF CasLabel, Types
  <2>3. CASE pc'[t] = "load"
    BY <2>1, <2>3 DEF Control, Committed, Advanced, After
  <2>4. CASE pc'[t] # "load"
    <3> DEFINE e == elevateLabel(old[t], op[t].r)
    <3>1. /\ result'[t] = e /\ pc'[t] = AfterLabel(e)
          /\ label' = [label EXCEPT ![op[t].s][ref[t]] = e]
      BY <1>0, <1>7, <2>4 DEF Types, CasLabel
    <3>2. e \in Labels /\ Dominates(e, op[t].r)
      BY <1>0, <1>1, ElevateUpperBound DEF Types
    <3> HIDE DEF e
    <3>3. Current(s)' = e
      <4>1. label \in [Sessions -> [Threads -> Labels]]
        BY <1>0 DEF Types
      <4>2. label'[s][creator[s]] = e
        BY <1>s, <2>2, <3>1, <3>2, <4>1, WriteWord
      <4> QED
        BY <2>1, <2>2, <4>2 DEF Current
    <3>4. Committed(t)'
      BY <1>s, <2>1, <3>1, <3>2, <3>3, DominatesReflexive DEF Committed
    <3>5. Control(t)' /\ Advanced(t)'
      BY <2>1, <3>1, ZeroNotTainted DEF Control, Advanced, AfterLabel
    <3> QED
      BY <3>4, <3>5
  <2> QED
    BY <2>3, <2>4
<1>8. CASE LoadState(t)
  <2>1. /\ op'[t] = op[t] /\ result'[t] = result[t] /\ pc[t] = "stLoad"
        /\ creator' = creator /\ label' = label /\ state' = state
    BY <1>8 DEF LoadState
  <2>2. ref[t] = creator[s] /\ creator[s] # NoThread
    BY <1>8, <1>s, HeldEntry DEF LoadState
  <2>3. state[op[t].s][ref[t]] = LabelState(s) /\ LabelState(s)' = LabelState(s)
        /\ Current(s)' = Current(s)
    BY <1>s, <2>1, <2>2 DEF LabelState, Current
  <2>4. Committed(t)'
    BY <1>s, <2>1, <2>3 DEF Committed, After
  <2>5. Target(t)' = Target(t)
    BY <2>1 DEF Target
  <2>6. CASE LabelState(s) >= Target(t)
    <3>0. ~ LabelState(s) < Target(t)
      BY <1>2, <2>6, TargetType DEF Fresh, Escalated, Declassified
    <3>1. pc'[t] = "ret"
      BY <1>0, <1>8, <2>3, <3>0 DEF Types, LoadState
    <3>2. Advanced(t)'
      BY <1>2, <1>s, <2>1, <2>3, <2>6, <3>1
      DEF Advanced, Target, TaintedBySecret, Escalated, Declassified, Fresh
    <3> QED
      BY <2>4, <3>1, <3>2 DEF Control
  <2>7. CASE ~ LabelState(s) >= Target(t)
    <3>1. pc'[t] = "stCas" /\ oldState'[t] = LabelState(s)
      BY <1>0, <1>8, <2>3, <2>7 DEF Types, LoadState
    <3>2. LabelState(s) < Target(t)
      BY <1>2, <2>7, TargetType DEF Fresh, Escalated, Declassified
    <3> QED
      BY <2>1, <2>4, <2>5, <3>1, <3>2 DEF Control, Advanced
  <2> QED
    BY <2>6, <2>7
<1>9. CASE CasState(t)
  <2>1. /\ op'[t] = op[t] /\ result'[t] = result[t] /\ pc[t] = "stCas"
        /\ creator' = creator /\ label' = label
    BY <1>9 DEF CasState
  <2>2. ref[t] = creator[s] /\ creator[s] # NoThread /\ ref[t] \in Threads
    BY <1>0, <1>9, <1>s, HeldEntry DEF CasState, Types
  <2>3. Current(s)' = Current(s)
    BY <2>1 DEF Current
  <2>4. CASE pc'[t] = "stLoad"
    BY <1>s, <2>1, <2>3, <2>4 DEF Control, Committed, Advanced, After
  <2>5. CASE pc'[t] # "stLoad"
    <3>1. pc'[t] = "ret" /\ state' = [state EXCEPT ![op[t].s][ref[t]] = Target(t)]
      BY <1>0, <1>9, <2>5 DEF Types, CasState
    <3>2. LabelState(s)' = Target(t)
      <4>1. /\ state \in [Sessions -> [Threads -> Fresh .. Declassified]]
            /\ Target(t) \in Fresh .. Declassified
        BY <1>0, TargetType DEF Types, Fresh, Escalated, Declassified
      <4>2. state'[s][creator[s]] = Target(t)
        BY <1>s, <2>2, <3>1, <4>1, WriteWord
      <4> QED
        BY <2>1, <2>2, <4>2 DEF LabelState
    <3>3. Advanced(t)'
      <4>1. /\ op[t].kind = "elevate" /\ Tainted(result[t]) => Target(t) >= TaintedBySecret
            /\ Target(t) >= Escalated
        BY DEF Target, TaintedBySecret, Escalated, Declassified
      <4> QED
        BY <1>s, <2>1, <3>1, <3>2, <4>1 DEF Advanced
    <3>4. Committed(t)'
      BY <1>s, <2>1, <2>3, <3>1 DEF Committed, After
    <3> QED
      BY <3>1, <3>3, <3>4 DEF Control
  <2> QED
    BY <2>4, <2>5
<1> QED
  BY <1>3, <1>4, <1>5, <1>6, <1>7, <1>8, <1>9 DEF Step

LEMMA ThreadsStep ==
  ASSUME IInv, TypeOK', [Next]_vars, NEW u \in Threads
  PROVE  (Control(u) /\ Committed(u) /\ Advanced(u))'
<1>0. Types
  BY DEF IInv, TypeOK
<1>1. CASE UNCHANGED vars
  BY <1>1, OtherThreads DEF vars, Locals
<1>2. ASSUME NEW t \in Threads, Call(t) \/ Step(t)
      PROVE  (Control(u) /\ Committed(u) /\ Advanced(u))'
  <2>1. CASE u = t
    BY <1>2, <2>1, MovingThread
  <2>2. CASE u # t
    <3>1. UNCHANGED Locals(u)
      BY <1>0, <1>2, <2>2
      DEF Types, Locals, Step, Call, Lookup, LoadOrStore, LoadLabel, CasLabel,
          CasCeiling, LoadState, CasState, Return
    <3> QED
      BY <3>1, OtherThreads
  <2> QED
    BY <2>1, <2>2
<1> QED
  BY <1>1, <1>2 DEF Next

(* What a session has been raised to: a new member of done is the resource *)
(* of a committed call, and the label has only risen since.                *)
LEMMA DoneStep ==
  ASSUME IInv, TypeOK', [Next]_vars, NEW s \in Sessions, NEW r \in done'[s]
  PROVE  /\ Dominates(Current(s)', r)
         /\ Tainted(r) => LabelState(s)' >= TaintedBySecret
         /\ r # ZeroLabel => LabelState(s)' >= Escalated
<1> USE DEF IInv
<1>0. Types /\ r \in Labels
  BY DEF TypeOK, Types
<1>1. /\ Current(s) \in Labels /\ Current(s)' \in Labels
      /\ LabelState(s) \in Int /\ LabelState(s)' \in Int
  BY ReadTypes, ReadTypesAfter DEF Fresh, Declassified
<1>2. Dominates(Current(s)', Current(s)) /\ LabelState(s)' >= LabelState(s)
  BY NothingFalls DEF Rises
<1>3. /\ Dominates(Current(s), r)
      /\ Tainted(r) => LabelState(s) >= TaintedBySecret
      /\ r # ZeroLabel => LabelState(s) >= Escalated
  <2>1. CASE r \in done[s]
    BY <2>1 DEF NoLostElevation, LifecycleFollowsLabel
  <2>2. CASE r \notin done[s]
    <3>1. PICK t \in Threads : Return(t)
      <4>1. done' # done
        BY <2>2
      <4> QED
        BY <4>1 DEF Next, Step, vars, Call, Lookup, LoadOrStore, LoadLabel, CasLabel,
                    CasCeiling, LoadState, CasState
    <3>2. op[t].kind = "elevate" /\ op[t].s = s /\ op[t].r = r /\ pc[t] = "ret"
      BY <1>0, <2>2, <3>1 DEF Types, Return
    <3>3. Dominates(Current(s), result[t]) /\ Dominates(result[t], r) /\ result[t] \in Labels
      BY <1>0, <3>2 DEF Committed, After, Types
    <3>4. /\ Tainted(result[t]) => LabelState(s) >= TaintedBySecret
          /\ result[t] # ZeroLabel => LabelState(s) >= Escalated
      BY <3>2 DEF Advanced
    <3>5. Dominates(Current(s), r)
      BY <1>0, <1>1, <3>3, DominatesTransitive
    <3>6. (Tainted(r) => Tainted(result[t])) /\ (r # ZeroLabel => result[t] # ZeroLabel)
      BY <1>0, <3>3, NonZeroAbove
    <3> QED
      BY <3>4, <3>5, <3>6
  <2> QED
    BY <2>1, <2>2
<1>4. Dominates(Current(s)', r)
  BY <1>0, <1>1, <1>2, <1>3, DominatesTransitive
<1>5. /\ LabelState(s) >= TaintedBySecret => LabelState(s)' >= TaintedBySecret
      /\ LabelState(s) >= Escalated => LabelState(s)' >= Escalated
  BY <1>1, <1>2 DEF TaintedBySecret, Escalated
<1> QED
  BY <1>3, <1>4, <1>5

(* The ordinal never runs ahead of the label: it is set by a committed     *)
(* call, whose result the label still dominates.                           *)
LEMMA OrdinalStep ==
  ASSUME IInv, TypeOK', [Next]_vars, NEW s \in Sessions
  PROVE  /\ LabelState(s)' = TaintedBySecret => Tainted(Current(s)')
         /\ LabelState(s)' = Escalated => Current(s)' # ZeroLabel
<1> USE DEF IInv
<1>0. Types
  BY DEF TypeOK
<1>1. Current(s) \in Labels /\ Current(s)' \in Labels
  BY ReadTypes, ReadTypesAfter
<1>2. Dominates(Current(s)', Current(s))
  BY NothingFalls DEF Rises
<1>3. /\ Tainted(Current(s)) => Tainted(Current(s)')
      /\ Current(s) # ZeroLabel => Current(s)' # ZeroLabel
  BY <1>1, <1>2, NonZeroAbove
<1>4. CASE LabelState(s)' = LabelState(s)
  BY <1>3, <1>4 DEF LifecycleFollowsLabel
<1>5. CASE LabelState(s)' # LabelState(s)
  <2>1. CASE \E t \in Threads : LoadOrStore(t)
    <3>1. PICK t \in Threads : LoadOrStore(t)
      BY <2>1
    <3>2. CASE creator'[s] = creator[s]
      BY <1>5, <3>1, <3>2 DEF LoadOrStore, LabelState
    <3>3. CASE creator'[s] # creator[s]
      <4>1. creator'[s] = t /\ creator[s] = NoThread
        BY <1>0, <3>1, <3>3 DEF Types, LoadOrStore
      <4>2. state'[s][t] = Fresh
        BY <3>1, <4>1, NoThreadAssumption DEF UnstoredFresh, LoadOrStore
      <4> QED
        BY <1>5, <4>1, <4>2, NoThreadAssumption DEF LabelState
    <3> QED
      BY <3>2, <3>3
  <2>2. CASE \E t \in Threads : CasState(t)
    <3>1. PICK t \in Threads : CasState(t)
      BY <2>2
    <3>2. ref[t] = creator[op[t].s] /\ creator[op[t].s] # NoThread /\ creator' = creator
      BY <3>1, HeldEntry DEF CasState
    <3>3. /\ state \in [Sessions -> [Threads -> Fresh .. Declassified]]
          /\ Target(t) \in Fresh .. Declassified
          /\ op[t].s \in Sessions /\ ref[t] \in Threads
      BY <1>0, OpFields, TargetType DEF Types, Fresh, Escalated, Declassified
    <3>4. CASE s = op[t].s
      <4>1. state' = [state EXCEPT ![op[t].s][ref[t]] = Target(t)]
        <5>1. state' # state
          BY <1>5, <3>2 DEF LabelState
        <5> QED
          BY <3>1, <5>1 DEF CasState
      <4>2. state'[s][ref[t]] = Target(t)
        <5> DEFINE w == Target(t)
        <5> HIDE DEF w
        <5>1. w \in Fresh .. Declassified
          BY <3>3 DEF w
        <5>2. [state EXCEPT ![op[t].s][ref[t]] = w][op[t].s][ref[t]] = w
          BY <3>3, <5>1, WriteWord
        <5> QED
          BY <3>4, <4>1, <5>2 DEF w
      <4>3. LabelState(s)' = Target(t)
        BY <3>2, <3>4, <4>2 DEF LabelState
      <4>4. CASE op[t].kind = "declassify"
        BY <4>3, <4>4 DEF Target, Declassified, TaintedBySecret, Escalated
      <4>5. CASE op[t].kind = "elevate"
        <5>1. /\ Dominates(Current(s), result[t]) /\ result[t] # ZeroLabel
              /\ result[t] \in Labels
          BY <1>0, <3>1, <3>4, <4>5 DEF Committed, Advanced, CasState, After, Types
        <5>2. /\ Tainted(result[t]) => Tainted(Current(s))
              /\ Current(s) # ZeroLabel
          BY <1>1, <5>1, NonZeroAbove
        <5> QED
          BY <1>3, <4>3, <4>5, <5>2 DEF Target, TaintedBySecret, Escalated
      <4> QED
        BY <3>1, <4>4, <4>5 DEF Control, CasState
    <3>5. CASE s # op[t].s
      <4>1. state' = state \/ state' = [state EXCEPT ![op[t].s][ref[t]] = Target(t)]
        BY <3>1 DEF CasState
      <4>2. state'[s] = state[s]
        BY <3>3, <3>5, <4>1
      <4> QED
        BY <1>5, <3>2, <4>2 DEF LabelState
    <3> QED
      BY <3>4, <3>5
  <2>3. CASE UNCHANGED <<creator, state>>
    BY <1>5, <2>3 DEF LabelState
  <2> QED
    BY <2>1, <2>2, <2>3
    DEF Next, Step, vars, Call, Lookup, LoadLabel, CasLabel, CasCeiling, LoadState, Return
<1> QED
  BY <1>4, <1>5

LEMMA InitInv == Init => IInv
<1> SUFFICES ASSUME Init PROVE IInv
  OBVIOUS
<1>1. TypeOK
  BY InitType
<1>2. UnstoredFresh
  BY DEF Init, UnstoredFresh
<1>3. \A s \in Sessions : done[s] = {} /\ LabelState(s) = Fresh
  BY DEF Init, LabelState
<1>4. NoLostElevation /\ LifecycleFollowsLabel
  BY <1>3 DEF NoLostElevation, LifecycleFollowsLabel, Fresh, TaintedBySecret, Escalated
<1>5. \A t \in Threads : pc[t] = "idle"
  BY DEF Init
<1> QED
  BY <1>1, <1>2, <1>4, <1>5 DEF IInv, Control, Committed, Advanced, After

LEMMA StepInv == IInv /\ [Next]_vars => IInv'
<1> SUFFICES ASSUME IInv, [Next]_vars PROVE IInv'
  OBVIOUS
<1>1. TypeOK'
  BY StepType DEF IInv
<1>2. UnstoredFresh'
  BY UnstoredStep
<1>3. \A t \in Threads : (Control(t) /\ Committed(t) /\ Advanced(t))'
  BY <1>1, ThreadsStep
<1>4. NoLostElevation'
  BY <1>1, DoneStep DEF NoLostElevation
<1>5. LifecycleFollowsLabel'
  BY <1>1, DoneStep, OrdinalStep DEF LifecycleFollowsLabel
<1> QED
  BY <1>1, <1>2, <1>3, <1>4, <1>5 DEF IInv

-----------------------------------------------------------------------------
(* The label of a session dominates every resource that a returned Elevate *)
(* put into it.                                                            *)
THEOREM NoLostElevationHolds == Spec => []NoLostElevation
<1>1. IInv => NoLostElevation
  BY DEF IInv
<1> QED
  BY <1>1, InitInv, StepInv, PTL DEF Spec

(* The reported lifecycle state agrees with the label.                     *)
THEOREM LifecycleHolds == Spec => []LifecycleFollowsLabel
<1>1. IInv => LifecycleFollowsLabel
  BY DEF IInv
<1> QED
  BY <1>1, InitInv, StepInv, PTL DEF Spec

(* Types, and every call works on the stored entry.                        *)
THEOREM TypeCorrect == Spec => []TypeOK
<1>1. IInv => TypeOK
  BY DEF IInv
<1> QED
  BY <1>1, InitInv, StepInv, PTL DEF Spec

(* No step lowers the label of a session or takes its lifecycle back.      *)
THEOREM NothingRetreatsHolds == Spec => NothingRetreats
<1>1. IInv /\ [Next]_vars
        => [\A s \in Sessions : /\ Dominates(Current(s)', Current(s))
                                 /\ LabelState(s)' >= LabelState(s)]_vars
  BY NothingFalls DEF Rises
<1> QED
  BY <1>1, InitInv, StepInv, PTL DEF Spec, NothingRetreats

-----------------------------------------------------------------------------
(* The registry implements HighWaterMark.                                  *)
AbsHw == [s \in Sessions |-> Current(s)]
AbsPends == [t \in Threads |-> AbsPend(t)]
AbsReturns == [t \in Threads |-> AbsRets(t)]

(* The operators of HighWaterMark are those of SecurityLabel.              *)
LEMMA SameOperators ==
  /\ HW!Labels = Labels
  /\ HW!ZeroLabel = ZeroLabel
  /\ \A a, b : HW!elevateLabel(a, b) = elevateLabel(a, b)
BY DEF HW!Labels, Labels, HW!Levels, Levels, HW!ZeroLabel, ZeroLabel,
       HW!elevateLabel, elevateLabel, HW!MaxOf, MaxOf

(* What a step of t does to the abstract state: only the calls of t can    *)
(* change.                                                                 *)
LEMMA AbsOthers ==
  ASSUME Types, NEW t \in Threads, Call(t) \/ Step(t)
  PROVE  /\ AbsPends' = [AbsPends EXCEPT ![t] = AbsPend(t)']
         /\ AbsReturns' = [AbsReturns EXCEPT ![t] = AbsRets(t)']
<1>1. ASSUME NEW u \in Threads, u # t
      PROVE  AbsPend(u)' = AbsPend(u) /\ AbsRets(u)' = AbsRets(u)
  <2>1. pc'[u] = pc[u] /\ op'[u] = op[u] /\ result'[u] = result[u]
    BY <1>1 DEF Types, Step, Call, Lookup, LoadOrStore, LoadLabel, CasLabel,
                CasCeiling, LoadState, CasState, Return
  <2> QED
    BY <2>1 DEF AbsPend, AbsRets, TheCall
<1> QED
  BY <1>1 DEF AbsPends, AbsReturns

(* A step that leaves the label of every session and the phase of the call *)
(* of t alone is invisible.                                                *)
LEMMA AbsStutter ==
  ASSUME Types, NEW t \in Threads, Call(t) \/ Step(t),
         \A s \in Sessions : Current(s)' = Current(s),
         AbsPend(t)' = AbsPend(t), AbsRets(t)' = AbsRets(t)
  PROVE  UNCHANGED <<AbsHw, AbsPends, AbsReturns>>
<1>1. AbsHw' = AbsHw
  BY DEF AbsHw
<1>2. AbsPends' = [AbsPends EXCEPT ![t] = AbsPend(t)]
  BY AbsOthers
<1>3. AbsReturns' = [AbsReturns EXCEPT ![t] = AbsRets(t)]
  BY AbsOthers
<1>4. AbsPends' = AbsPends
  BY <1>2 DEF AbsPends
<1>5. AbsReturns' = AbsReturns
  BY <1>3 DEF AbsReturns
<1> QED
  BY <1>1, <1>4, <1>5

(* The instant at which Elevate takes effect.                              *)
LEMMA AbsTake ==
  ASSUME IInv, NEW t \in Threads, LoadLabel(t) \/ CasLabel(t),
         op[t].kind = "elevate", op'[t] = op[t], pc'[t] \in After,
         result'[t] = elevateLabel(Current(op[t].s), op[t].r),
         Current(op[t].s)' = result'[t],
         \A s \in Sessions : s # op[t].s => Current(s)' = Current(s)
  PROVE  HW!HWTake(t)
<1>0. Types /\ op[t].s \in Sessions /\ op[t].r \in Labels /\ pc[t] \in Before
  BY OpFields DEF IInv, TypeOK, LoadLabel, CasLabel, Before
<1> DEFINE x == TheCall(t)
           raised == elevateLabel(Current(op[t].s), op[t].r)
<1>1. AbsPend(t) = {x} /\ AbsPend(t)' = {} /\ AbsRets(t)' = {[call |-> x, res |-> raised]}
  BY <1>0 DEF AbsPend, AbsRets, Before, After, TheCall
<1>2. AbsPends' = [AbsPends EXCEPT ![t] = {}]
  BY <1>0, <1>1, AbsOthers DEF Step
<1>3. AbsReturns' = [AbsReturns EXCEPT ![t] = {[call |-> x, res |-> raised]}]
  BY <1>0, <1>1, AbsOthers DEF Step
<1>4. x.s = op[t].s /\ x.r = op[t].r
  BY DEF TheCall
<1>5. AbsHw' = [AbsHw EXCEPT ![x.s] = raised] /\ AbsHw[x.s] = Current(op[t].s)
  BY <1>0, <1>4 DEF AbsHw
<1>6. x \in AbsPends[t] /\ HW!elevateLabel(AbsHw[x.s], x.r) = raised
  BY <1>1, <1>4, <1>5, SameOperators DEF AbsPends
<1> HIDE DEF x, raised
<1> QED
  BY <1>2, <1>3, <1>5, <1>6 DEF HW!HWTake, AbsHw, AbsPends, AbsReturns

(* Every step of a goroutine is a call, an effect or a return of           *)
(* HighWaterMark, or invisible.                                            *)
LEMMA AbsStep ==
  ASSUME IInv, NEW t \in Threads, Call(t) \/ Step(t)
  PROVE  \/ HW!HWCall(t) \/ HW!HWTake(t) \/ HW!HWReturn(t)
         \/ UNCHANGED <<AbsHw, AbsPends, AbsReturns>>
<1>0. Types /\ op[t].s \in Sessions /\ op[t].r \in Labels
  BY OpFields DEF IInv, TypeOK
<1>1. CASE Call(t)
  <2>1. \A s \in Sessions : Current(s)' = Current(s)
    BY <1>1 DEF Call, Current
  <2>2. pc[t] = "idle" /\ pc'[t] = "lookup" /\ result' = result
    BY <1>0, <1>1 DEF Types, Call
  <2>3. AbsPend(t) = {} /\ AbsRets(t) = {} /\ AbsRets(t)' = {}
    BY <2>2 DEF AbsPend, AbsRets, Before, After
  <2>4. CASE op'[t].kind = "elevate"
    <3>1. TheCall(t)' \in [s : Sessions, r : Labels] /\ AbsPend(t)' = {TheCall(t)'}
      <4>1. Types'
        BY <1>1, StepTypes, <1>0 DEF Next
      <4>2. op'[t].s \in Sessions /\ op'[t].r \in Labels
        BY <4>1 DEF Types, Ops
      <4> QED
        BY <2>2, <2>4, <4>2 DEF TheCall, AbsPend, Before
    <3>2. AbsPends' = [AbsPends EXCEPT ![t] = {TheCall(t)'}] /\ AbsReturns' = AbsReturns
      <4>1. AbsReturns' = [AbsReturns EXCEPT ![t] = {}]
        BY <1>0, <1>1, <2>3, AbsOthers
      <4>2. AbsReturns[t] = {} /\ AbsReturns = [u \in Threads |-> AbsRets(u)]
        BY <2>3 DEF AbsReturns
      <4>3. AbsReturns' = AbsReturns
        BY <4>1, <4>2
      <4> QED
        BY <1>0, <1>1, <3>1, <4>3, AbsOthers
    <3>3. AbsPends[t] = {} /\ AbsReturns[t] = {} /\ AbsHw' = AbsHw
      BY <2>1, <2>3 DEF AbsPends, AbsReturns, AbsHw
    <3>4. TheCall(t)' \in HW!Calls
      BY <3>1, SameOperators DEF HW!Calls
    <3>5. HW!HWCall(t)
      BY <3>2, <3>3, <3>4 DEF HW!HWCall, AbsPends, AbsReturns, AbsHw
    <3> QED
      BY <3>5
  <2>5. CASE op'[t].kind # "elevate"
    <3>1. AbsPend(t)' = {}
      BY <2>5 DEF AbsPend
    <3> QED
      BY <1>0, <1>1, <2>1, <2>3, <3>1, AbsStutter
  <2> QED
    BY <2>4, <2>5
<1>2. CASE Lookup(t) \/ LoadOrStore(t)
  <2>1. op' = op /\ result' = result /\ pc[t] \in {"lookup", "store"}
    BY <1>2 DEF Lookup, LoadOrStore
  <2>2. pc'[t] \in {"store", Body(op[t].kind)}
    BY <1>0, <1>2 DEF Types, Lookup, LoadOrStore
  <2>3. AbsPend(t)' = AbsPend(t) /\ AbsRets(t)' = AbsRets(t)
    BY <2>1, <2>2 DEF AbsPend, AbsRets, Before, After, Body, TheCall
  <2>4. ASSUME NEW s \in Sessions PROVE Current(s)' = Current(s)
    <3>1. CASE Lookup(t)
      BY <3>1 DEF Lookup, Current
    <3>2. CASE LoadOrStore(t)
      <4>1. label' = label
        BY <3>2 DEF LoadOrStore
      <4>2. CASE creator'[s] = creator[s]
        BY <4>1, <4>2 DEF Current
      <4>3. CASE creator'[s] # creator[s]
        <5>1. creator[s] = NoThread /\ creator'[s] = t
          BY <1>0, <3>2, <4>3 DEF Types, LoadOrStore
        <5>2. label[s][t] = ZeroLabel
          BY <5>1, NoThreadAssumption DEF IInv, UnstoredFresh
        <5> QED
          BY <4>1, <5>1, <5>2, NoThreadAssumption DEF Current
      <4> QED
        BY <4>2, <4>3
    <3> QED
      BY <1>2, <3>1, <3>2
  <2> QED
    BY <1>0, <1>2, <2>3, <2>4, AbsStutter DEF Step
<1>3. CASE LoadLabel(t)
  <2>1. /\ op' = op /\ pc[t] = "load" /\ op[t].kind = "elevate"
        /\ \A s \in Sessions : Current(s)' = Current(s)
    BY <1>3 DEF LoadLabel, IInv, Control, Current
  <2>2. label[op[t].s][ref[t]] = Current(op[t].s)
    BY <1>3, HeldEntry DEF IInv, LoadLabel, Current
  <2>3. CASE pc'[t] = "cas"
    <3>1. AbsPend(t)' = AbsPend(t) /\ AbsRets(t)' = AbsRets(t)
      BY <2>1, <2>3 DEF AbsPend, AbsRets, Before, After, TheCall
    <3> QED
      BY <1>0, <1>3, <2>1, <3>1, AbsStutter DEF Step
  <2>4. CASE pc'[t] # "cas"
    <3>1. /\ result'[t] = Current(op[t].s)
          /\ elevateLabel(Current(op[t].s), op[t].r) = Current(op[t].s)
          /\ pc'[t] = AfterLabel(Current(op[t].s))
      BY <1>0, <1>3, <2>2, <2>4 DEF Types, LoadLabel
    <3>2. pc'[t] \in After
      BY <3>1 DEF AfterLabel, After
    <3>3. HW!HWTake(t)
      BY <1>0, <1>3, <2>1, <3>1, <3>2, AbsTake
    <3> QED
      BY <3>3
  <2> QED
    BY <2>3, <2>4
<1>4. CASE CasLabel(t)
  <2>1. op' = op /\ pc[t] = "cas" /\ op[t].kind = "elevate" /\ creator' = creator
    BY <1>4 DEF CasLabel, IInv, Control
  <2>2. /\ ref[t] = creator[op[t].s] /\ ref[t] \in Threads /\ creator[op[t].s] # NoThread
        /\ label[op[t].s][ref[t]] = Current(op[t].s)
    BY <1>0, <1>4, HeldEntry DEF IInv, CasLabel, Current, Types
  <2>3. CASE pc'[t] = "load"
    <3>1. AbsPend(t)' = AbsPend(t) /\ AbsRets(t)' = AbsRets(t)
      BY <2>1, <2>3 DEF AbsPend, AbsRets, Before, After, TheCall
    <3>2. label' = label
      BY <1>0, <1>4, <2>3 DEF CasLabel, Types, AfterLabel
    <3>3. \A s \in Sessions : Current(s)' = Current(s)
      BY <2>1, <3>2 DEF Current
    <3> QED
      BY <1>0, <1>4, <3>1, <3>3, AbsStutter DEF Step
  <2>4. CASE pc'[t] # "load"
    <3> DEFINE e == elevateLabel(old[t], op[t].r)
    <3>1. /\ result'[t] = e /\ pc'[t] = AfterLabel(e) /\ old[t] = Current(op[t].s)
          /\ label' = [label EXCEPT ![op[t].s][ref[t]] = e]
      BY <1>0, <1>4, <2>2, <2>4 DEF Types, CasLabel
    <3>2. e = elevateLabel(Current(op[t].s), op[t].r) /\ e \in Labels
      BY <1>0, <3>1, ElevateUpperBound DEF Types
    <3>3. pc'[t] \in After
      BY <3>1 DEF AfterLabel, After
    <3> HIDE DEF e
    <3>4. \A s \in Sessions, u \in Threads :
            label'[s][u] = IF s = op[t].s /\ u = ref[t] THEN e ELSE label[s][u]
      <4> DEFINE a == op[t].s
                 b == ref[t]
      <4>1. label \in [Sessions -> [Threads -> Labels]] /\ a \in Sessions /\ b \in Threads
        BY <1>0, <2>2 DEF Types
      <4>2. label' = [label EXCEPT ![a][b] = e]
        BY <3>1
      <4> HIDE DEF a, b
      <4>3. \A s \in Sessions, u \in Threads :
              [label EXCEPT ![a][b] = e][s][u] = IF s = a /\ u = b THEN e ELSE label[s][u]
        BY <3>2, <4>1, WriteWord
      <4> QED
        BY <4>2, <4>3 DEF a, b
    <3>5. Current(op[t].s)' = e
      BY <1>0, <2>1, <2>2, <3>4 DEF Current
    <3>6. \A s \in Sessions : s # op[t].s => Current(s)' = Current(s)
      BY <1>0, <2>1, <3>4 DEF Current, Types
    <3>7. HW!HWTake(t)
      BY <1>4, <2>1, <3>1, <3>2, <3>3, <3>5, <3>6, AbsTake
    <3> QED
      BY <3>7
  <2> QED
    BY <2>3, <2>4
<1>5. CASE CasCeiling(t) \/ LoadState(t) \/ CasState(t)
  <2>1. /\ op' = op /\ result' = result
        /\ \A s \in Sessions : Current(s)' = Current(s)
    BY <1>5 DEF CasCeiling, LoadState, CasState, Current
  <2>2. \/ op[t].kind = "ceiling"
        \/ pc[t] \in After /\ pc'[t] \in After
    BY <1>0, <1>5 DEF CasCeiling, LoadState, CasState, IInv, Control, After, Types
  <2>3. AbsPend(t)' = AbsPend(t) /\ AbsRets(t)' = AbsRets(t)
    BY <2>1, <2>2 DEF AbsPend, AbsRets, Before, After, TheCall
  <2> QED
    BY <1>0, <1>5, <2>1, <2>3, AbsStutter DEF Step
<1>6. CASE Return(t)
  <2>1. /\ pc[t] = "ret" /\ pc'[t] = "idle"
        /\ \A s \in Sessions : Current(s)' = Current(s)
    BY <1>0, <1>6 DEF Return, Current, Types
  <2>2. AbsPend(t) = {} /\ AbsPend(t)' = {} /\ AbsRets(t)' = {}
    BY <2>1 DEF AbsPend, AbsRets, Before, After
  <2>3. CASE op[t].kind = "elevate"
    <3>1. AbsRets(t) # {}
      BY <2>1, <2>3 DEF AbsRets, After
    <3>2. AbsReturns[t] # {} /\ AbsReturns' = [AbsReturns EXCEPT ![t] = {}]
      BY <1>0, <1>6, <2>2, <3>1, AbsOthers DEF Step, AbsReturns
    <3>3. AbsPends' = AbsPends
      <4>1. AbsPends' = [AbsPends EXCEPT ![t] = AbsPend(t)]
        BY <1>0, <1>6, <2>2, AbsOthers DEF Step
      <4> QED
        BY <4>1 DEF AbsPends
    <3>4. AbsHw' = AbsHw
      BY <2>1 DEF AbsHw
    <3>5. HW!HWReturn(t)
      BY <3>2, <3>3, <3>4 DEF HW!HWReturn, AbsHw, AbsPends, AbsReturns
    <3> QED
      BY <3>5
  <2>4. CASE op[t].kind # "elevate"
    <3>1. AbsRets(t) = {}
      BY <2>4 DEF AbsRets
    <3> QED
      BY <1>0, <1>6, <2>1, <2>2, <3>1, AbsStutter DEF Step
  <2> QED
    BY <2>3, <2>4
<1> QED
  BY <1>1, <1>2, <1>3, <1>4, <1>5, <1>6 DEF Step

(* Elevate is atomic for its callers: every behaviour of the registry is,  *)
(* under the mapping, one of HighWaterMark.                                *)
THEOREM ElevateIsAtomicHolds == Spec => ElevateIsAtomic
<1>1. Init => HW!HWInit
  <2> SUFFICES ASSUME Init PROVE HW!HWInit
    OBVIOUS
  <2>1. \A s \in Sessions : Current(s) = ZeroLabel
    BY DEF Init, Current
  <2>2. \A t \in Threads : AbsPend(t) = {} /\ AbsRets(t) = {}
    BY DEF Init, AbsPend, AbsRets, Before, After
  <2> QED
    BY <2>1, <2>2, SameOperators DEF HW!HWInit
<1>2. IInv /\ [Next]_vars => [HW!HWNext]_(HW!hwVars)
  <2> SUFFICES ASSUME IInv, [Next]_vars PROVE HW!HWNext \/ UNCHANGED <<AbsHw, AbsPends, AbsReturns>>
    BY DEF HW!hwVars, AbsHw, AbsPends, AbsReturns
  <2>1. CASE UNCHANGED vars
    BY <2>1 DEF vars, AbsHw, AbsPends, AbsReturns, Current, AbsPend, AbsRets, TheCall
  <2>2. CASE \E t \in Threads : Call(t) \/ Step(t)
    BY <2>2, AbsStep DEF HW!HWNext
  <2> QED
    BY <2>1, <2>2 DEF Next
<1> QED
  BY <1>1, <1>2, InitInv, StepInv, PTL DEF Spec, ElevateIsAtomic, HW!HWSpec
-----------------------------------------------------------------------------
(* The packed word.                                                        *)
(* Division by the size of a field takes off what is below it.             *)
LEMMA Quotient ==
  ASSUME NEW q \in Nat, NEW d \in Nat \ {0}, NEW r \in 0 .. d - 1
  PROVE  (q * d + r) \div d = q /\ (q * d + r) % d = r
  OBVIOUS

LEMMA Division ==
  ASSUME NEW n \in Nat, NEW d \in Nat \ {0}
  PROVE  /\ n \div d \in Nat /\ n % d \in 0 .. d - 1
         /\ n = (n \div d) * d + (n % d)
<1>1. n \div d \in Int /\ n % d \in 0 .. d - 1
  OBVIOUS
<1>2. n = (n \div d) * d + (n % d)
  OBVIOUS
<1>3. ASSUME NEW q \in Int, NEW r \in 0 .. d - 1, n = q * d + r
      PROVE  q >= 0
  BY <1>3
<1> QED
  BY <1>1, <1>2, <1>3

(* A digit above r digits: the value stays below the product of the sizes. *)
LEMMA Digit ==
  ASSUME NEW a \in Nat, NEW m \in Nat \ {0}, a < m, NEW d \in Nat \ {0}, NEW r \in 0 .. d - 1
  PROVE  a * d + r \in 0 .. m * d - 1
<1>1. (a + 1) * d <= m * d
  OBVIOUS
<1>2. a * d \in Nat /\ (a + 1) * d = a * d + d /\ m * d \in Nat
  OBVIOUS
<1> QED
  BY <1>1, <1>2

(* The two upper fields as one number, and the word as that number above   *)
(* the mask.                                                               *)
LEMMA PackFields ==
  ASSUME NEW l \in PackedLabel
  PROVE  LET hi == l.c * LevelSize + l.i
         IN  /\ hi \in 0 .. LevelSize * LevelSize - 1
             /\ hi \div LevelSize = l.c /\ hi % LevelSize = l.i
             /\ packLabel(l) = hi * MaskSize + l.k
             /\ packLabel(l) \in Word
             /\ packLabel(l) \div MaskSize = hi /\ packLabel(l) % MaskSize = l.k
<1> USE WordAssumption
<1> DEFINE hi == l.c * LevelSize + l.i
           S == LevelSize
           M == MaskSize
<1>0. /\ l.c \in Nat /\ l.c < S /\ l.i \in 0 .. S - 1 /\ l.k \in 0 .. M - 1
      /\ S \in Nat \ {0} /\ M \in Nat \ {0} /\ S * S \in Nat \ {0}
  BY DEF PackedLabel
<1>1. hi \in 0 .. S * S - 1
  BY <1>0, Digit
<1>2. hi \div S = l.c /\ hi % S = l.i
  BY <1>0, Quotient
<1>3. packLabel(l) = hi * M + l.k
  <2>1. \A a, b, m, s \in Int : a * (s * m) + b * m = (a * s + b) * m
    OBVIOUS
  <2>2. l.c * (S * M) + l.i * M = hi * M
    BY <1>0, <2>1
  <2> QED
    BY <2>2 DEF packLabel
<1>4. hi * M + l.k \in 0 .. (S * S) * M - 1
  <2> HIDE DEF hi
  <2>1. hi \in Nat /\ hi < S * S
    BY <1>0, <1>1
  <2> QED
    BY <1>0, <2>1, Digit
<1>5. (hi * M + l.k) \div M = hi /\ (hi * M + l.k) % M = l.k
  <2> HIDE DEF hi
  <2>1. hi \in Nat
    BY <1>0, <1>1
  <2> QED BY <1>0, <2>1, Quotient
<1> QED
  BY <1>1, <1>2, <1>3, <1>4, <1>5 DEF Word, maxUint64Label

(* Shifting by two fields is shifting twice.                               *)
LEMMA DivTwice ==
  ASSUME NEW n \in Nat, NEW d \in Nat \ {0}, NEW e \in Nat \ {0}
  PROVE  n \div (e * d) = (n \div d) \div e
<1> DEFINE q == n \div d
           r == n % d
           p == q \div e
           s == q % e
<1>1. q \in Nat /\ r \in 0 .. d - 1 /\ n = q * d + r
  BY Division
<1>2. p \in Nat /\ s \in 0 .. e - 1 /\ q = p * e + s
  BY <1>1, Division
<1> HIDE DEF q, r, p, s
<1>3. s * d + r \in 0 .. e * d - 1
  BY <1>1, <1>2, Digit
<1>4. (p * e + s) * d = p * (e * d) + s * d
  BY <1>1, <1>2
<1>5. n = p * (e * d) + (s * d + r)
  BY <1>1, <1>2, <1>4
<1>6. e * d \in Nat \ {0}
  OBVIOUS
<1>7. (p * (e * d) + (s * d + r)) \div (e * d) = p
  BY <1>2, <1>3, <1>6, Quotient
<1> QED
  BY <1>5, <1>7 DEF p, q

(* The fields of a word are what packing puts together again.              *)
LEMMA UnpackFields ==
  ASSUME NEW v \in Word
  PROVE  unpackLabel(v) \in PackedLabel /\ packLabel(unpackLabel(v)) = v
<1> USE WordAssumption
<1> DEFINE S == LevelSize
           M == MaskSize
           q == v \div M
           c == q \div S
           i == q % S
           k == v % M
<1>0. S \in Nat \ {0} /\ M \in Nat \ {0} /\ v \in Nat /\ v < (S * S) * M
  BY DEF Word, maxUint64Label
<1>1. q \in Nat /\ k \in 0 .. M - 1 /\ v = q * M + k
  BY <1>0, Division
<1>2. c \in Nat /\ i \in 0 .. S - 1 /\ q = c * S + i
  <2> HIDE DEF q
  <2> QED BY <1>0, <1>1, Division
<1>3. v \div (S * M) = c
  BY <1>0, DivTwice
<1> HIDE DEF q, c, i, k
<1>4. q < S * S
  <2> SUFFICES ASSUME q >= S * S PROVE FALSE
    BY <1>0, <1>1
  <2>1. q * M >= (S * S) * M
    BY <1>0, <1>1
  <2> QED
    BY <1>0, <1>1, <2>1
<1>5. c < S
  <2> SUFFICES ASSUME c >= S PROVE FALSE
    BY <1>0, <1>2
  <2>1. c * S >= S * S
    BY <1>0, <1>2
  <2> QED
    BY <1>0, <1>2, <1>4, <2>1
<1>6. c % S = c
  <2>1. c = 0 * S + c /\ c \in 0 .. S - 1
    BY <1>0, <1>2, <1>5
  <2> QED
    BY <1>0, <2>1, Quotient
<1>7. unpackLabel(v) = [c |-> c, i |-> i, k |-> k]
  BY <1>3, <1>6 DEF unpackLabel, i, k, q
<1>8. [c |-> c, i |-> i, k |-> k] \in PackedLabel
  BY <1>0, <1>1, <1>2, <1>5 DEF PackedLabel
<1>9. packLabel([c |-> c, i |-> i, k |-> k]) = c * (S * M) + i * M + k
  BY DEF packLabel
<1>10. c * (S * M) + i * M = (c * S + i) * M
  BY <1>0, <1>1, <1>2
<1> QED
  BY <1>1, <1>2, <1>7, <1>8, <1>9, <1>10

LEMMA PackUnpack ==
  ASSUME NEW l \in PackedLabel
  PROVE  packLabel(l) \in Word /\ unpackLabel(packLabel(l)) = l
<1> USE WordAssumption
<1> DEFINE hi == l.c * LevelSize + l.i
           v == packLabel(l)
<1>1. /\ hi \div LevelSize = l.c /\ hi % LevelSize = l.i
      /\ v \in Word /\ v \div MaskSize = hi /\ v % MaskSize = l.k
  BY PackFields
<1>2. v \in Nat
  BY <1>1 DEF Word, maxUint64Label
<1>3. v \div (LevelSize * MaskSize) = l.c
  BY <1>1, <1>2, DivTwice
<1>4. l.c % LevelSize = l.c
  <2>1. l.c = 0 * LevelSize + l.c /\ l.c \in 0 .. LevelSize - 1
    BY DEF PackedLabel
  <2> QED BY <2>1, Quotient
<1> HIDE DEF hi, v
<1>5. unpackLabel(v) = [c |-> l.c, i |-> l.i, k |-> l.k]
  BY <1>1, <1>3, <1>4 DEF unpackLabel
<1>6. l = [c |-> l.c, i |-> l.i, k |-> l.k]
  BY DEF PackedLabel
<1> QED
  BY <1>1, <1>5, <1>6 DEF v

(* packLabel and unpackLabel (lattice.go 52-65) lose nothing, whatever the *)
(* widths of the fields.                                                   *)
THEOREM PackingFaithfulHolds == PackingFaithful
<1> USE WordAssumption
<1> DEFINE zero == [c |-> 0, i |-> 0, k |-> 0]
           top == [c |-> LevelSize - 1, i |-> LevelSize - 1, k |-> MaskSize - 1]
<1>1. zero \in PackedLabel /\ top \in PackedLabel
  BY DEF PackedLabel
<1>2. packLabel(zero) = 0
  BY DEF packLabel
<1>3. packLabel(top) = maxUint64Label
  <2>1. \A s, m \in Int : (s - 1) * (s * m) + (s - 1) * m + (m - 1) = s * s * m - 1
    OBVIOUS
  <2> QED
    BY <2>1 DEF packLabel, maxUint64Label
<1>4. unpackLabel(0) = zero /\ unpackLabel(maxUint64Label) = top
  <2> HIDE DEF zero, top
  <2> QED BY <1>1, <1>2, <1>3, PackUnpack
<1> QED
  BY <1>4, PackUnpack, UnpackFields DEF PackingFaithful, Bijective
=============================================================================
