------------------------------ MODULE MCStream ------------------------------
(* The stream server: the fan-out of StreamHub, and the admission of five  *)
(* upgrade requests, four of them from one address.  The two share no      *)
(* variable, so each is explored while the other has not started.          *)
EXTENDS StreamHub, StreamAdmission

ipOf == [h \in Conns |-> IF h = 5 THEN "b" ELSE "a"]

StreamInit == Init /\ AdmissionInit

StreamNext == \/ Next /\ AdmissionInit /\ UNCHANGED admissionVars
              \/ AdmissionNext /\ Init /\ UNCHANGED vars

(* The fairness is that of StreamHub.                                      *)
StreamSpec ==
  /\ StreamInit /\ [][StreamNext]_<<vars, admissionVars>>
  /\ WF_vars(FanOut) /\ \A p \in Publishers : WF_vars(Publish(p))
=============================================================================
