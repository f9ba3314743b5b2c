--------------------------- MODULE StreamAdmission ---------------------------
(***************************************************************************)
(* Admission of WebSocket clients (handleWebSocket and ipLimiter in        *)
(* internal/stream/server.go).  The limits are checked in one step and     *)
(* taken in a later one: the limiter before the upgrade, the number of     *)
(* clients before the registration.                                        *)
(***************************************************************************)
EXTENDS Integers, FiniteSets

CONSTANTS Conns,         \* upgrade requests
          IPs, ip,       \* ip[h] is the address request h comes from
          MaxConns, MaxAttempts, MaxClients   \* 4, 10 a minute, 64 in the code

ASSUME AdmissionAssumption == IsFiniteSet(Conns) /\ ip \in [Conns -> IPs]

VARIABLES pc,        \* per request: where handleWebSocket is
          conns,     \* ipLimiter.conns
          attempts,  \* ipLimiter.attempts: requests of the last minute
          clients    \* s.clients

admissionVars == <<pc, conns, attempts, clients>>

AdmissionInit ==
  /\ pc = [h \in Conns |-> "new"]
  /\ conns = [i \in IPs |-> 0]
  /\ attempts = [i \in IPs |-> 0]
  /\ clients = {}

Goto(h, step) == pc' = [pc EXCEPT ![h] = step]

(* Time passes, and attempts leave the window.                             *)
Slide(i) ==
  /\ attempts[i] > 0
  /\ attempts' = [attempts EXCEPT ![i] = @ - 1]
  /\ UNCHANGED <<pc, conns, clients>>

(* allow records the attempt, refused ones included.                       *)
allow(h) ==
  /\ pc[h] = "new"
  /\ attempts' = [attempts EXCEPT ![ip[h]] = @ + 1]
  /\ Goto(h, IF conns[ip[h]] < MaxConns /\ attempts'[ip[h]] <= MaxAttempts
             THEN "allowed" ELSE "refused")
  /\ UNCHANGED <<conns, clients>>

UpgradeFails(h) ==
  /\ pc[h] = "allowed"
  /\ Goto(h, "refused")
  /\ UNCHANGED <<conns, attempts, clients>>

inc(h) ==
  /\ pc[h] = "allowed"
  /\ conns' = [conns EXCEPT ![ip[h]] = @ + 1]
  /\ Goto(h, "upgraded")
  /\ UNCHANGED <<attempts, clients>>

(* Mutant: a client above the limit is turned away without the dec.        *)
CountLeaks(h) ==
  /\ pc[h] = "upgraded"
  /\ Goto(h, IF Cardinality(clients) >= MaxClients THEN "closed" ELSE "counted")
  /\ UNCHANGED <<conns, attempts, clients>>

(* The clients are counted; one above the limit is sent away.              *)
Count(h) ==
  /\ pc[h] = "upgraded"
  /\ Goto(h, IF Cardinality(clients) >= MaxClients THEN "leaving" ELSE "counted")
  /\ UNCHANGED <<conns, attempts, clients>>

StoreClient(h) ==
  /\ pc[h] = "counted"
  /\ clients' = clients \cup {h}
  /\ Goto(h, "client")
  /\ UNCHANGED <<conns, attempts>>

(* The snapshot fails or the reader returns.                               *)
DeleteClient(h) ==
  /\ pc[h] = "client"
  /\ clients' = clients \ {h}
  /\ Goto(h, "leaving")
  /\ UNCHANGED <<conns, attempts>>

(* The deferred dec.                                                       *)
dec(h) ==
  /\ pc[h] = "leaving"
  /\ conns' = [conns EXCEPT ![ip[h]] = IF @ > 0 THEN @ - 1 ELSE @]
  /\ Goto(h, "closed")
  /\ UNCHANGED <<attempts, clients>>

Handle(h) == UpgradeFails(h) \/ inc(h) \/ Count(h) \/ StoreClient(h) \/ DeleteClient(h) \/ dec(h)

AdmissionNext ==
  \/ \E i \in IPs : Slide(i)
  \/ \E h \in Conns : allow(h) \/ Handle(h)

AdmissionSpec == AdmissionInit /\ [][AdmissionNext]_admissionVars

-----------------------------------------------------------------------------
Holding(i) == {h \in Conns : ip[h] = i /\ pc[h] \in {"upgraded", "counted", "client", "leaving"}}

(* On every path out of the handler its slot is given back, once: the      *)
(* counter of an address is the number of its open connections, and the    *)
(* registry holds the clients that are being served and no other.          *)
SlotsExact ==
  /\ \A i \in IPs : conns[i] = Cardinality(Holding(i))
  /\ clients = {h \in Conns : pc[h] = "client"}
=============================================================================
