---------------------------- MODULE SessionLabels ----------------------------
(***************************************************************************)
(* The registry of session labels of internal/ifc/session.go, at the       *)
(* granularity of its atomic operations.  Goroutines (Threads) call        *)
(* Elevate, InitWithCeiling and DeclassificationGate.Apply; each call      *)
(* first finds or creates the entry of its session in a sync.Map, then     *)
(* works on the entry's words with loads and compare-and-swaps.            *)
(*                                                                         *)
(* An entry is named by its session and the thread that allocated it: a    *)
(* thread that loses LoadOrStore drops its entry, and never allocates one  *)
(* for that session again because entries are never removed.               *)
(* A packed word is modelled by the label it packs, which PackingFaithful  *)
(* justifies; 0 is ZeroLabel.                                              *)
(***************************************************************************)
EXTENDS SecurityLabel, LabelWord

CONSTANTS Sessions, Threads,
          Inputs,    \* labels callers pass to Elevate
          Parents,   \* labels callers pass to InitWithCeiling
          NoThread   \* "no entry stored yet"

ASSUME InputsAssumption == Inputs \subseteq Labels /\ Parents \subseteq Labels
ASSUME NoThreadAssumption == NoThread \notin Threads

VARIABLES
  creator,   \* sync.Map: creator[s] allocated the stored entry of s
  label, ceiling, state,   \* the words of entry <<s, creator>>
  pc, op,    \* where each thread is, and the call it executes
  ref,       \* the entry getOrCreate returned (its allocator)
  old,       \* label loaded by the CAS loop
  oldState,  \* ordinal loaded by advanceState
  result,    \* result of the running Elevate
  done       \* history: resources of the Elevates of s that have returned

vars == <<creator, label, ceiling, state, pc, op, ref, old, oldState, result, done>>

Fresh == 0
Escalated == 1
TaintedBySecret == 2
Declassified == 3

Kinds == {"elevate", "ceiling", "declassify"}
Ops == [kind : Kinds, s : Sessions, r : Labels]
PCs == {"idle", "lookup", "store", "load", "cas", "ceil", "stLoad", "stCas", "ret"}

(* A call of DeclassificationGate.Apply; also what op[t] holds while t runs *)
(* no call.                                                                *)
NoCall(s) == [kind |-> "declassify", s |-> s, r |-> ZeroLabel]

Init ==
  /\ creator = [s \in Sessions |-> NoThread]
  /\ label = [s \in Sessions |-> [t \in Threads |-> ZeroLabel]]
  /\ ceiling = [s \in Sessions |-> [t \in Threads |-> ZeroLabel]]
  /\ state = [s \in Sessions |-> [t \in Threads |-> Fresh]]
  /\ pc = [t \in Threads |-> "idle"]
  /\ op \in [Threads -> {NoCall(s) : s \in Sessions}]
  /\ ref = [t \in Threads |-> t]
  /\ old = [t \in Threads |-> ZeroLabel]
  /\ oldState = [t \in Threads |-> Fresh]
  /\ result = [t \in Threads |-> ZeroLabel]
  /\ done = [s \in Sessions |-> {}]

(* Current: the zero label for unknown sessions. *)
Current(s) == IF creator[s] = NoThread THEN ZeroLabel ELSE label[s][creator[s]]

LabelState(s) == IF creator[s] = NoThread THEN Fresh ELSE state[s][creator[s]]

(* Ceiling: unconstrained when no entry exists or its word is still 0.      *)
Ceiling(s) ==
  IF creator[s] = NoThread \/ ceiling[s][creator[s]] = ZeroLabel
  THEN MaxLabel ELSE ceiling[s][creator[s]]

-----------------------------------------------------------------------------
(* A caller enters Elevate, InitWithCeiling or Apply.                      *)
Call(t) ==
  /\ pc[t] = "idle"
  /\ \E s \in Sessions :
       \/ \E r \in Inputs : op' = [op EXCEPT ![t] = [kind |-> "elevate", s |-> s, r |-> r]]
       \/ \E p \in Parents : op' = [op EXCEPT ![t] = [kind |-> "ceiling", s |-> s, r |-> p]]
       \/ op' = [op EXCEPT ![t] = NoCall(s)]
  /\ pc' = [pc EXCEPT ![t] = "lookup"]
  /\ UNCHANGED <<creator, label, ceiling, state, ref, old, oldState, result, done>>

(* Where a call continues once it has its entry.                           *)
Body(kind) == IF kind = "elevate" THEN "load"
              ELSE IF kind = "ceiling" THEN "ceil" ELSE "stLoad"

(* getOrCreate, the Load of the fast path.                                 *)
Lookup(t) ==
  LET s == op[t].s
  IN  /\ pc[t] = "lookup"
      /\ \/ /\ creator[s] # NoThread
            /\ ref' = [ref EXCEPT ![t] = creator[s]]
            /\ pc' = [pc EXCEPT ![t] = Body(op[t].kind)]
         \/ /\ creator[s] = NoThread
            /\ pc' = [pc EXCEPT ![t] = "store"]
            /\ UNCHANGED ref
      /\ UNCHANGED <<creator, label, ceiling, state, op, old, oldState, result, done>>

(* getOrCreate, LoadOrStore: the first goroutine's entry is everybody's.   *)
LoadOrStore(t) ==
  LET s == op[t].s
      winner == IF creator[s] = NoThread THEN t ELSE creator[s]
  IN  /\ pc[t] = "store"
      /\ creator' = [creator EXCEPT ![s] = winner]
      /\ ref' = [ref EXCEPT ![t] = winner]
      /\ pc' = [pc EXCEPT ![t] = Body(op[t].kind)]
      /\ UNCHANGED <<label, ceiling, state, op, old, oldState, result, done>>

(* After the label is committed: the state machine advances unless the     *)
(* resulting label is zero.                                                *)
AfterLabel(res) == IF res = ZeroLabel THEN "ret" ELSE "stLoad"

(* Mutant: nothing to raise, so Elevate returns without advancing the      *)
(* state machine.                                                          *)
LoadLabelEarlyReturn(t) ==
  LET cur == label[op[t].s][ref[t]]
      same == elevateLabel(cur, op[t].r) = cur
  IN  /\ pc[t] = "load"
      /\ result' = [result EXCEPT ![t] = IF same THEN cur ELSE @]
      /\ old' = [old EXCEPT ![t] = IF same THEN @ ELSE cur]
      /\ pc' = [pc EXCEPT ![t] = IF same THEN "ret" ELSE "cas"]
      /\ UNCHANGED <<creator, label, ceiling, state, op, ref, oldState, done>>

(* Elevate, one iteration up to the comparison with newPacked.             *)
LoadLabel(t) ==
  LET cur == label[op[t].s][ref[t]]
  IN  /\ pc[t] = "load"
      /\ \/ /\ elevateLabel(cur, op[t].r) = cur
            /\ result' = [result EXCEPT ![t] = cur]
            /\ pc' = [pc EXCEPT ![t] = AfterLabel(cur)]
            /\ UNCHANGED old
         \/ /\ elevateLabel(cur, op[t].r) # cur
            /\ old' = [old EXCEPT ![t] = cur]
            /\ pc' = [pc EXCEPT ![t] = "cas"]
            /\ UNCHANGED result
      /\ UNCHANGED <<creator, label, ceiling, state, op, ref, oldState, done>>

(* Mutant: the loop gives up after a lost CAS.                             *)
CasLabelNoRetry(t) ==
  LET s == op[t].s
      elevated == elevateLabel(old[t], op[t].r)
      won == label[s][ref[t]] = old[t]
  IN  /\ pc[t] = "cas"
      /\ label' = [label EXCEPT ![s][ref[t]] = IF won THEN elevated ELSE @]
      /\ result' = [result EXCEPT ![t] = elevated]
      /\ pc' = [pc EXCEPT ![t] = AfterLabel(elevated)]
      /\ UNCHANGED <<creator, ceiling, state, op, ref, old, oldState, done>>

(* Mutant: a lost CAS is retried without loading the label again.          *)
CasLabelNoReload(t) ==
  LET s == op[t].s
      elevated == elevateLabel(old[t], op[t].r)
  IN  /\ pc[t] = "cas"
      /\ label[s][ref[t]] = old[t]
      /\ label' = [label EXCEPT ![s][ref[t]] = elevated]
      /\ result' = [result EXCEPT ![t] = elevated]
      /\ pc' = [pc EXCEPT ![t] = AfterLabel(elevated)]
      /\ UNCHANGED <<creator, ceiling, state, op, ref, old, oldState, done>>

(* Elevate, the CompareAndSwap: won, or lost and retried.                  *)
CasLabel(t) ==
  LET s == op[t].s
      elevated == elevateLabel(old[t], op[t].r)
  IN  /\ pc[t] = "cas"
      /\ \/ /\ label[s][ref[t]] = old[t]
            /\ label' = [label EXCEPT ![s][ref[t]] = elevated]
            /\ result' = [result EXCEPT ![t] = elevated]
            /\ pc' = [pc EXCEPT ![t] = AfterLabel(elevated)]
         \/ /\ label[s][ref[t]] # old[t]
            /\ pc' = [pc EXCEPT ![t] = "load"]
            /\ UNCHANGED <<label, result>>
      /\ UNCHANGED <<creator, ceiling, state, op, ref, old, oldState, done>>

(* InitWithCeiling: one CompareAndSwap from 0; a zero parent is stored as  *)
(* the unconstrained label.                                                *)
CasCeiling(t) ==
  LET s == op[t].s
      wanted == IF op[t].r = ZeroLabel THEN MaxLabel ELSE op[t].r
  IN  /\ pc[t] = "ceil"
      /\ ceiling' = [ceiling EXCEPT ![s][ref[t]] = IF @ = ZeroLabel THEN wanted ELSE @]
      /\ pc' = [pc EXCEPT ![t] = "ret"]
      /\ UNCHANGED <<creator, label, state, op, ref, old, oldState, result, done>>

(* The ordinal a call advances the state machine to.                       *)
Target(t) == IF op[t].kind = "declassify" THEN Declassified
             ELSE IF Tainted(result[t]) THEN TaintedBySecret ELSE Escalated

(* advanceState, the load and the comparison.                              *)
LoadState(t) ==
  LET st == state[op[t].s][ref[t]]
  IN  /\ pc[t] = "stLoad"
      /\ \/ st >= Target(t) /\ pc' = [pc EXCEPT ![t] = "ret"] /\ UNCHANGED oldState
         \/ /\ st < Target(t)
            /\ oldState' = [oldState EXCEPT ![t] = st]
            /\ pc' = [pc EXCEPT ![t] = "stCas"]
      /\ UNCHANGED <<creator, label, ceiling, state, op, ref, old, result, done>>

(* advanceState, the CompareAndSwap.                                       *)
CasState(t) ==
  LET s == op[t].s
  IN  /\ pc[t] = "stCas"
      /\ \/ /\ state[s][ref[t]] = oldState[t]
            /\ state' = [state EXCEPT ![s][ref[t]] = Target(t)]
            /\ pc' = [pc EXCEPT ![t] = "ret"]
         \/ /\ state[s][ref[t]] # oldState[t]
            /\ pc' = [pc EXCEPT ![t] = "stLoad"]
            /\ UNCHANGED state
      /\ UNCHANGED <<creator, label, ceiling, op, ref, old, oldState, result, done>>

(* The call returns to its caller, and its locals go out of scope.         *)
Return(t) ==
  /\ pc[t] = "ret"
  /\ pc' = [pc EXCEPT ![t] = "idle"]
  /\ done' = [done EXCEPT ![op[t].s] =
                IF op[t].kind = "elevate" THEN @ \cup {op[t].r} ELSE @]
  /\ op' = [op EXCEPT ![t] = NoCall(@.s)]
  /\ ref' = [ref EXCEPT ![t] = t]
  /\ old' = [old EXCEPT ![t] = ZeroLabel]
  /\ oldState' = [oldState EXCEPT ![t] = Fresh]
  /\ result' = [result EXCEPT ![t] = ZeroLabel]
  /\ UNCHANGED <<creator, label, ceiling, state>>

Step(t) == \/ Lookup(t) \/ LoadOrStore(t) \/ LoadLabel(t) \/ CasLabel(t)
           \/ CasCeiling(t) \/ LoadState(t) \/ CasState(t) \/ Return(t)

Next == \E t \in Threads : Call(t) \/ Step(t)

Spec == Init /\ [][Next]_vars

(* The Go scheduler runs every runnable goroutine eventually.              *)
FairSpec == Spec /\ \A t \in Threads : WF_vars(Step(t))

-----------------------------------------------------------------------------
Types ==
  /\ creator \in [Sessions -> Threads \cup {NoThread}]
  /\ label \in [Sessions -> [Threads -> Labels]]
  /\ ceiling \in [Sessions -> [Threads -> Labels]]
  /\ state \in [Sessions -> [Threads -> Fresh .. Declassified]]
  /\ pc \in [Threads -> PCs]
  /\ op \in [Threads -> Ops]
  /\ ref \in [Threads -> Threads]
  /\ old \in [Threads -> Labels]
  /\ oldState \in [Threads -> Fresh .. Declassified]
  /\ result \in [Threads -> Labels]
  /\ done \in [Sessions -> SUBSET Labels]

(* Types, and what getOrCreate returns: a call past it works on the entry  *)
(* that the registry holds for the session, never on one that lost the     *)
(* race to be stored.                                                      *)
TypeOK ==
  /\ Types
  /\ \A t \in Threads :
       pc[t] \notin {"idle", "lookup", "store"} => ref[t] = creator[op[t].s]

(* Once Elevate has returned, the label of the session dominates the       *)
(* resource for ever, whatever ran concurrently: no elevation is lost to a *)
(* CAS race or to two goroutines creating the entry of a new session.      *)
NoLostElevation ==
  \A s \in Sessions : \A r \in done[s] : Dominates(Current(s), r)

(* The ordinal that /sessions and the audit trail report agrees with the   *)
(* label: it is at least tainted (escalated) when an Elevate with a        *)
(* tainted (nonzero) resource has returned, and it never runs ahead of it. *)
LifecycleFollowsLabel ==
  \A s \in Sessions :
    /\ \A r \in done[s] : /\ Tainted(r) => LabelState(s) >= TaintedBySecret
                          /\ r # ZeroLabel => LabelState(s) >= Escalated
    /\ LabelState(s) = TaintedBySecret => Tainted(Current(s))
    /\ LabelState(s) = Escalated => Current(s) # ZeroLabel

(* No step of any goroutine lowers the label of a session, and lifecycle   *)
(* states only advance.                                                    *)
NothingRetreats ==
  [][\A s \in Sessions : /\ Dominates(Current(s)', Current(s))
                          /\ LabelState(s)' >= LabelState(s)]_vars

(* Elevate is atomic for its callers: the registry implements HighWaterMark,*)
(* with the CAS that wins (or the load that finds nothing to raise) as the *)
(* instant at which the call takes effect.                                 *)
Before == {"lookup", "store", "load", "cas"}
After == {"stLoad", "stCas", "ret"}
TheCall(t) == [s |-> op[t].s, r |-> op[t].r]
AbsPend(t) == IF op[t].kind = "elevate" /\ pc[t] \in Before THEN {TheCall(t)} ELSE {}
AbsRets(t) == IF op[t].kind = "elevate" /\ pc[t] \in After
              THEN {[call |-> TheCall(t), res |-> result[t]]} ELSE {}
HW == INSTANCE HighWaterMark WITH
  hw <- [s \in Sessions |-> Current(s)],
  pend <- [t \in Threads |-> AbsPend(t)],
  rets <- [t \in Threads |-> AbsRets(t)]
ElevateIsAtomic == HW!HWSpec

(* What the code compares and swaps are words, not labels: packing a label *)
(* loses nothing and no two labels share a word (lattice.go 52-65).        *)
PackingFaithful == Init => Bijective

(* Every call returns: a lost CAS means that another goroutine raised the  *)
(* word, which can happen only finitely often.                             *)
EveryCallReturns == \A t \in Threads : pc[t] # "idle" ~> pc[t] = "idle"
=============================================================================
