---------------------------- MODULE HighWaterMark ----------------------------
(***************************************************************************)
(* What SessionLabels promises its callers, as an atomic object: a session *)
(* has one label, a call of Elevate raises it to the least label that      *)
(* dominates both it and the resource at one instant between its call and  *)
(* its return, and returns the label of that instant.                      *)
(***************************************************************************)
EXTENDS SecurityLabel

CONSTANTS Sessions, Threads

VARIABLES hw,    \* hw[s]: the label of session s
          pend,  \* pend[t]: at most one call of t that has not taken effect
          rets   \* rets[t]: at most one call of t that took effect, with its result

hwVars == <<hw, pend, rets>>

Calls == [s : Sessions, r : Labels]

HWInit == /\ hw = [s \in Sessions |-> ZeroLabel]
          /\ pend = [t \in Threads |-> {}]
          /\ rets = [t \in Threads |-> {}]

HWCall(t) == /\ pend[t] = {} /\ rets[t] = {}
             /\ \E x \in Calls : pend' = [pend EXCEPT ![t] = {x}]
             /\ UNCHANGED <<hw, rets>>

HWTake(t) == \E x \in pend[t] :
  LET raised == elevateLabel(hw[x.s], x.r)
  IN  /\ hw' = [hw EXCEPT ![x.s] = raised]
      /\ pend' = [pend EXCEPT ![t] = {}]
      /\ rets' = [rets EXCEPT ![t] = {[call |-> x, res |-> raised]}]

HWReturn(t) == /\ rets[t] # {}
               /\ rets' = [rets EXCEPT ![t] = {}]
               /\ UNCHANGED <<hw, pend>>

HWNext == \E t \in Threads : HWCall(t) \/ HWTake(t) \/ HWReturn(t)

HWSpec == HWInit /\ [][HWNext]_hwVars
=============================================================================
