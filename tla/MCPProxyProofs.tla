--------------------------- MODULE MCPProxyProofs ---------------------------
(***************************************************************************)
(* Proofs about the MCP proxy, for any number of requests, definitions and *)
(* calls: answers reach their own calls, none gets lost on its way, and a  *)
(* tool that was seen to drift is not called.                              *)
(***************************************************************************)
EXTENDS MCPProxy, FiniteSetTheorems, TLAPS

Kinds == {"call", "list"}
Places == {"idle", "drift", "evaluate", "start", "write", "wait", "got"}
Msgs == [id : Nat, kind : Kinds, val : Defs \cup {NoDef}]

Locals == [pc : Places, kind : Kinds, id : Nat, result : Msgs \cup {NoAnswer}, warned : BOOLEAN]

(* The types of the goroutines, of the client and of the tracker.          *)
MCPTypeOK ==
  /\ req \in [Reqs -> Locals]
  /\ idCtr \in Nat
  /\ asked \subseteq [id : Nat, kind : Kinds]
  /\ answers \subseteq Msgs
  /\ chan \in [Ids -> Msgs \cup {NoAnswer}]
  /\ \/ reader.at \in {"read", "ended"} /\ reader = [at |-> reader.at, msg |-> NoAnswer]
     \/ reader.at = "deliver" /\ reader = [at |-> "deliver", msg |-> reader.msg] /\ reader.msg \in Msgs
  /\ def \in Defs /\ dups \in Nat /\ told \in BOOLEAN /\ drifted \in BOOLEAN
  /\ baseline \in Defs \cup {NoDef} /\ stored \in Defs \cup {NoDef}

(* Requests that have not yet taken an id.                                 *)
Early == {r \in Reqs : req[r].pc \in {"drift", "evaluate", "start"}}

(* There is an id for each of them.                                        *)
IdsSuffice == idCtr + Cardinality(Early) <= MaxCalls + Cardinality(Reqs)

Calling(r) == req[r].pc \in {"write", "wait", "got"}

(* Ids have been given out, to one call each.                              *)
IdsDistinct ==
  /\ \A r \in Reqs : Calling(r) => req[r].id \in 1 .. idCtr
  /\ \A r, s \in Reqs : Calling(r) /\ Calling(s) /\ req[r].id = req[s].id => r = s

(* A message about an id belongs to the call that has the id, if one still *)
(* has it, and that call has been written.                                 *)
Fits(m) ==
  /\ m.id \in 1 .. idCtr
  /\ \A r \in Reqs : req[r].pc \in {"write", "wait"} /\ req[r].id = m.id =>
                       req[r].pc = "wait" /\ req[r].kind = m.kind

(* Every message on its way fits.                                          *)
MessagesFit ==
  /\ \A q \in asked : Fits(q)
  /\ \A m \in answers : Fits(m)
  /\ reader.at = "deliver" => Fits(reader.msg)
  /\ \A id \in Ids : full(id) => chan[id].id = id /\ Fits(chan[id])

(* A call is registered until it ends.                                     *)
Registered == \A r \in Reqs : req[r].pc \in {"write", "wait"} => req[r].id \in pending

(* Where the answer to an id can be.                                       *)
OnItsWay(id) ==
  \/ \E q \in asked : q.id = id
  \/ \E m \in answers : m.id = id
  \/ reader.at = "deliver" /\ reader.msg.id = id
  \/ id \in Ids /\ full(id)

Awaited == \A r \in Reqs : req[r].pc = "wait" /\ reader.at # "ended" => OnItsWay(req[r].id)

(* While the server answers once, a message is in one place only.          *)
Single ==
  dups = 0 =>
    /\ \A q, p \in asked : q.id = p.id => q = p
    /\ \A m, n \in answers : m.id = n.id => m = n
    /\ \A q \in asked, m \in answers : q.id # m.id
    /\ reader.at = "deliver" =>
         /\ \A q \in asked : q.id # reader.msg.id
         /\ \A m \in answers : m.id # reader.msg.id
         /\ ~ full(reader.msg.id)
    /\ \A id \in Ids : full(id) =>
         /\ \A q \in asked : q.id # id
         /\ \A m \in answers : m.id # id

(* What is stored is what is compared with, a drift that was told is       *)
(* flagged, and a call that arrived after that has gone no further.        *)
DriftKept ==
  /\ stored # NoDef => baseline = stored
  /\ told => drifted
  /\ \A r \in Reqs : req[r].warned => told
  /\ \A r \in Reqs : req[r].warned /\ req[r].kind = "call" => req[r].pc \in {"idle", "drift"}

MCPInv ==
  /\ MCPTypeOK /\ IdsSuffice /\ IdsDistinct /\ MessagesFit /\ OwnAnswer
  /\ Registered /\ Awaited /\ Single /\ DriftKept
-----------------------------------------------------------------------------
(* There is a channel for every id that has been given out.                *)
LEMMA IdInIds ==
  ASSUME MCPInv
  PROVE  1 .. idCtr \subseteq Ids /\ idCtr \in Nat
<1>1. Early \in SUBSET Reqs
  BY DEF Early
<1>2. Cardinality(Early) \in Nat /\ Cardinality(Reqs) \in Nat
  BY <1>1, FS_Subset, FS_CardinalityType, MCPAssumption
<1> QED
  BY <1>2, MCPAssumption DEF MCPInv, MCPTypeOK, IdsSuffice, Ids

(* Types are kept by every step.                                           *)
LEMMA TypeStep == MCPInv /\ [Next]_vars => MCPTypeOK'
<1> SUFFICES ASSUME MCPInv, [Next]_vars PROVE MCPTypeOK'
  OBVIOUS
<1> USE DEF MCPTypeOK
<1>0. MCPTypeOK /\ IdsDistinct
  BY DEF MCPInv
<1>a. Idle \in Locals
  BY DEF Locals, Places, Kinds, Idle
<1>b. ASSUME NEW r \in Reqs, NEW l \in Places PROVE [req[r] EXCEPT !.pc = l] \in Locals
  BY <1>0 DEF Locals, MCPTypeOK
<1>1. CASE UNCHANGED vars
  BY <1>0, <1>a, <1>1 DEF vars, upstream, tracker, counters
<1>2. ASSUME NEW r \in Reqs, IsDrifted(r) PROVE MCPTypeOK'
  <2>1. req' = [req EXCEPT ![r] = Idle] \/ req' = [req EXCEPT ![r].pc = "evaluate"]
    BY <1>2 DEF IsDrifted, Goto, Return
  <2>2. req' \in [Reqs -> Locals]
    BY <1>0, <1>a, <1>b, <2>1 DEF MCPTypeOK, Places
  <2> QED
    BY <1>0, <2>2, <1>2 DEF MCPTypeOK, IsDrifted, upstream, tracker, counters
<1>3. ASSUME NEW r \in Reqs, Evaluate(r) PROVE MCPTypeOK'
  <2>1. req' = [req EXCEPT ![r] = Idle] \/ req' = [req EXCEPT ![r].pc = "start"]
    BY <1>3 DEF Evaluate, Goto, Return
  <2>2. req' \in [Reqs -> Locals]
    BY <1>0, <1>a, <1>b, <2>1 DEF MCPTypeOK, Places
  <2> QED
    BY <1>0, <2>2, <1>3 DEF MCPTypeOK, Evaluate, upstream, tracker, counters
<1>4. ASSUME NEW r \in Reqs, Start(r) PROVE MCPTypeOK'
  <2>1. CASE open
    BY <1>0, <1>a, <2>1, <1>4 DEF Start, Return, tracker, counters
  <2>2. CASE ~ open
    <3>0. req[r] \in Locals /\ idCtr + 1 \in Nat
      BY <1>0
    <3>1. [req[r] EXCEPT !.pc = "write", !.id = idCtr + 1] \in Locals
      BY <3>0 DEF Locals, Places
    <3>2. req' = [req EXCEPT ![r] = [req[r] EXCEPT !.pc = "write", !.id = idCtr + 1]]
      BY <1>0, <2>2, <1>4 DEF Start
    <3> QED
      BY <1>0, <2>2, <3>1, <3>2, <1>4 DEF Start, tracker, counters
  <2> QED
    BY <2>1, <2>2
<1>5. ASSUME NEW r \in Reqs, Write(r) PROVE MCPTypeOK'
  <2>1. req' \in [Reqs -> Locals]
    BY <1>0, <1>b, <1>5 DEF Write, Goto, Places
  <2>2. asked' \subseteq [id : Nat, kind : Kinds]
    BY <1>0, <1>5 DEF Write, Locals
  <2> QED
    BY <1>0, <2>1, <2>2, <1>5 DEF Write, tracker, counters
<1>6. ASSUME NEW r \in Reqs, WriteFails(r) PROVE MCPTypeOK'
  BY <1>0, <1>a, <1>6 DEF WriteFails, End, Return, upstream, tracker, counters
<1>7. ASSUME NEW r \in Reqs, ContextDone(r) PROVE MCPTypeOK'
  BY <1>0, <1>a, <1>7 DEF ContextDone, End, Return, upstream, tracker, counters
<1>8. ASSUME NEW r \in Reqs, Receive(r) PROVE MCPTypeOK'
  <2>1. req[r].id \in Ids /\ chan[req[r].id] \in Msgs \cup {NoAnswer}
    BY <1>0, <1>8, IdInIds DEF Receive, IdsDistinct, Calling
  <2>2. [req[r] EXCEPT !.pc = "got", !.result = chan[req[r].id]] \in Locals
    BY <1>0, <2>1 DEF Locals, Places
  <2>3. req' = [req EXCEPT ![r] = [req[r] EXCEPT !.pc = "got", !.result = chan[req[r].id]]]
    BY <1>0, <1>8 DEF Receive
  <2>4. req' \in [Reqs -> Locals] /\ chan' \in [Ids -> Msgs \cup {NoAnswer}]
    BY <1>0, <2>2, <2>3, <1>8 DEF Receive
  <2> QED
    BY <1>0, <2>4, <1>8 DEF Receive, End, tracker, counters
<1>9. ASSUME NEW r \in Reqs, CheckDrift(r) PROVE MCPTypeOK'
  <2>1. req' \in [Reqs -> Locals]
    BY <1>0, <1>a, <1>9 DEF CheckDrift, Return
  <2>2. req[r].result.val \in Defs
    BY <1>0, <1>9 DEF CheckDrift, Locals, Msgs, NoAnswer
  <2>3. baseline' \in Defs \cup {NoDef} /\ stored' \in Defs \cup {NoDef}
    BY <1>0, <2>2, <1>9 DEF CheckDrift
  <2>4. drifted' \in BOOLEAN /\ told' \in BOOLEAN
    BY <1>9 DEF CheckDrift, flag
  <2> QED
    BY <1>0, <2>1, <2>3, <2>4, <1>9 DEF CheckDrift, upstream, counters
<1>10. ASSUME NEW r \in Reqs, PassOn(r) PROVE MCPTypeOK'
  BY <1>0, <1>a, <1>10 DEF PassOn, Return, upstream, tracker, counters
<1>11. ASSUME NEW r \in Reqs, NEW kind \in Kinds, Arrive(r, kind) PROVE MCPTypeOK'
  BY <1>0, <1>11 DEF Arrive, Idle, Locals, Places, NoAnswer, Kinds, upstream, tracker, counters
<1>12. ASSUME NEW q \in asked, Reply(q) PROVE MCPTypeOK'
  BY <1>0, <1>12 DEF Reply, values, answerTo, Msgs, Kinds, tracker, counters
<1>13. ASSUME NEW q \in asked, ReplyTwice(q) PROVE MCPTypeOK'
  BY <1>0, <1>13 DEF ReplyTwice, values, answerTo, Msgs, Kinds, tracker, counters
<1>14. ASSUME NEW v \in Defs, ChangeDef(v) PROVE MCPTypeOK'
  BY <1>0, <1>a, <1>14 DEF ChangeDef, upstream, tracker, counters
<1>15. ASSUME NEW m \in answers, Lookup(m) PROVE MCPTypeOK'
  BY <1>0, <1>a, <1>15 DEF Lookup, upstream, tracker, counters
<1>16. CASE Deliver
  BY <1>0, <1>16 DEF Deliver, Reading, tracker, counters
<1>17. CASE ReaderEnds
  BY <1>0, <1>a, <1>17 DEF ReaderEnds, upstream, tracker, counters
<1>18. CASE HalfOpen
  BY <1>0, <1>a, <1>18 DEF HalfOpen, upstream, tracker, counters
<1>19. CASE Restart
  BY <1>0, <1>a, <1>19 DEF Restart, Reading
<1> QED
  BY <1>1, <1>2, <1>3, <1>4, <1>5, <1>6, <1>7, <1>8, <1>9, <1>10, <1>11,
     <1>12, <1>13, <1>14, <1>15, <1>16, <1>17, <1>18, <1>19
  DEF Next, HandleRequest, Kinds

(* A step that gives out no id and lets no request in leaves enough ids.   *)
LEMMA Fewer ==
  ASSUME MCPInv, Early' \subseteq Early, idCtr' = idCtr
  PROVE  IdsSuffice'
<1>1. Early \in SUBSET Reqs /\ IsFiniteSet(Reqs)
  BY MCPAssumption DEF Early
<1>2. IsFiniteSet(Early) /\ Cardinality(Early) \in Nat /\ Cardinality(Reqs) \in Nat
  BY <1>1, FS_Subset, FS_CardinalityType
<1>3. Cardinality(Early') <= Cardinality(Early) /\ Cardinality(Early') \in Nat
  BY <1>2, FS_Subset, FS_CardinalityType
<1> QED
  BY <1>2, <1>3, MCPAssumption DEF MCPInv, MCPTypeOK, IdsSuffice

(* A request enters only while ids are left, and leaves with one at most.  *)
LEMMA IdsStep == MCPInv /\ [Next]_vars => IdsSuffice'
<1> SUFFICES ASSUME MCPInv, [Next]_vars PROVE IdsSuffice'
  OBVIOUS
<1> USE DEF MCPTypeOK, Idle
<1>0. MCPTypeOK
  BY DEF MCPInv
<1>1. CASE UNCHANGED vars
  BY <1>1, Fewer DEF vars, upstream, Early
<1>2. ASSUME NEW r \in Reqs, IsDrifted(r) PROVE IdsSuffice'
  <2>1. Early' \subseteq Early /\ idCtr' = idCtr
    BY <1>0, <1>2 DEF IsDrifted, Goto, Return, Early, upstream
  <2> QED
    BY <2>1, Fewer
<1>3. ASSUME NEW r \in Reqs, Evaluate(r) PROVE IdsSuffice'
  <2>1. Early' \subseteq Early /\ idCtr' = idCtr
    BY <1>0, <1>3 DEF Evaluate, Goto, Return, Early, upstream
  <2> QED
    BY <2>1, Fewer
<1>4. ASSUME NEW r \in Reqs, Start(r) PROVE IdsSuffice'
  <2>1. r \in Early /\ Early' = Early \ {r}
    <3>1. r \in Early
      BY <1>4 DEF Start, Early
    <3>2. CASE open
      BY <1>0, <3>1, <3>2, <1>4 DEF Start, Return, Early, Idle
    <3>3. CASE ~ open
      <4>1. req' = [req EXCEPT ![r].pc = "write", ![r].id = idCtr + 1]
        BY <3>3, <1>4 DEF Start
      <4>2. req'[r].pc = "write" /\ \A s \in Reqs : s # r => req'[s] = req[s]
        BY <1>0, <4>1 DEF Locals
      <4> QED
        BY <3>1, <4>2 DEF Early
    <3> QED
      BY <3>1, <3>2, <3>3
  <2>2. idCtr' \in {idCtr, idCtr + 1}
    BY <1>4 DEF Start
  <2>3. Early \in SUBSET Reqs /\ IsFiniteSet(Reqs)
    BY MCPAssumption DEF Early
  <2>4. IsFiniteSet(Early) /\ Cardinality(Early) \in Nat /\ Cardinality(Reqs) \in Nat
    BY <2>3, FS_Subset, FS_CardinalityType
  <2>5. Cardinality(Early') = Cardinality(Early) - 1
    BY <2>1, <2>4, FS_RemoveElement
  <2> QED
    BY <1>0, <2>2, <2>4, <2>5, MCPAssumption DEF IdsSuffice, MCPInv, MCPTypeOK
<1>5. ASSUME NEW r \in Reqs, Write(r) PROVE IdsSuffice'
  <2>1. Early' \subseteq Early /\ idCtr' = idCtr
    BY <1>0, <1>5 DEF Write, Goto, Early, upstream
  <2> QED
    BY <2>1, Fewer
<1>6. ASSUME NEW r \in Reqs, WriteFails(r) PROVE IdsSuffice'
  <2>1. Early' \subseteq Early /\ idCtr' = idCtr
    BY <1>0, <1>6 DEF WriteFails, End, Return, Early, upstream
  <2> QED
    BY <2>1, Fewer
<1>7. ASSUME NEW r \in Reqs, ContextDone(r) PROVE IdsSuffice'
  <2>1. Early' \subseteq Early /\ idCtr' = idCtr
    BY <1>0, <1>7 DEF ContextDone, End, Return, Early, upstream
  <2> QED
    BY <2>1, Fewer
<1>8. ASSUME NEW r \in Reqs, Receive(r) PROVE IdsSuffice'
  <2>1. Early' \subseteq Early /\ idCtr' = idCtr
    BY <1>0, <1>8 DEF Receive, End, Early, upstream
  <2> QED
    BY <2>1, Fewer
<1>9. ASSUME NEW r \in Reqs, CheckDrift(r) PROVE IdsSuffice'
  <2>1. Early' \subseteq Early /\ idCtr' = idCtr
    BY <1>0, <1>9 DEF CheckDrift, Return, Early, upstream
  <2> QED
    BY <2>1, Fewer
<1>10. ASSUME NEW r \in Reqs, PassOn(r) PROVE IdsSuffice'
  <2>1. Early' \subseteq Early /\ idCtr' = idCtr
    BY <1>0, <1>10 DEF PassOn, Return, Early, upstream
  <2> QED
    BY <2>1, Fewer
<1>11. ASSUME NEW r \in Reqs, NEW kind \in Kinds, Arrive(r, kind) PROVE IdsSuffice'
  <2>1. Early' \in SUBSET Reqs /\ IsFiniteSet(Reqs)
    BY MCPAssumption DEF Early
  <2>2. Cardinality(Early') <= Cardinality(Reqs) /\ Cardinality(Early') \in Nat /\ Cardinality(Reqs) \in Nat
    BY <2>1, FS_Subset, FS_CardinalityType
  <2> QED
    BY <1>0, <2>2, <1>11, MCPAssumption DEF Arrive, upstream, IdsSuffice, MCPTypeOK
<1>12. ASSUME NEW q \in asked, Reply(q) PROVE IdsSuffice'
  <2>1. Early' \subseteq Early /\ idCtr' = idCtr
    BY <1>0, <1>12 DEF Reply, values, answerTo, Early, upstream
  <2> QED
    BY <2>1, Fewer
<1>13. ASSUME NEW q \in asked, ReplyTwice(q) PROVE IdsSuffice'
  <2>1. Early' \subseteq Early /\ idCtr' = idCtr
    BY <1>0, <1>13 DEF ReplyTwice, values, answerTo, Early, upstream
  <2> QED
    BY <2>1, Fewer
<1>14. ASSUME NEW v \in Defs, ChangeDef(v) PROVE IdsSuffice'
  <2>1. Early' \subseteq Early /\ idCtr' = idCtr
    BY <1>0, <1>14 DEF ChangeDef, Early, upstream
  <2> QED
    BY <2>1, Fewer
<1>15. ASSUME NEW m \in answers, Lookup(m) PROVE IdsSuffice'
  <2>1. Early' \subseteq Early /\ idCtr' = idCtr
    BY <1>0, <1>15 DEF Lookup, Early, upstream
  <2> QED
    BY <2>1, Fewer
<1>16. CASE Deliver
  <2>1. Early' \subseteq Early /\ idCtr' = idCtr
    BY <1>0, <1>16 DEF Deliver, room, Early, upstream
  <2> QED
    BY <2>1, Fewer
<1>17. CASE ReaderEnds
  <2>1. Early' \subseteq Early /\ idCtr' = idCtr
    BY <1>0, <1>17 DEF ReaderEnds, Early, upstream
  <2> QED
    BY <2>1, Fewer
<1>18. CASE HalfOpen
  <2>1. Early' \subseteq Early /\ idCtr' = idCtr
    BY <1>0, <1>18 DEF HalfOpen, Early, upstream
  <2> QED
    BY <2>1, Fewer
<1>19. CASE Restart
  <2>1. Early' = {}
    BY <1>0, <1>19 DEF Restart, Early, Idle
  <2> QED
    BY <2>1, <1>19, FS_EmptySet, FS_CardinalityType, MCPAssumption DEF Restart, IdsSuffice
<1> QED
  BY <1>1, <1>2, <1>3, <1>4, <1>5, <1>6, <1>7, <1>8, <1>9, <1>10, <1>11,
     <1>12, <1>13, <1>14, <1>15, <1>16, <1>17, <1>18, <1>19
  DEF Next, HandleRequest, Kinds

-----------------------------------------------------------------------------
(* What a step does to the calls and their messages.                       *)

Others(r) == \A s \in Reqs : s # r => req'[s] = req[s]

(* A request moves outside of Call.                                        *)
Quiet(r) == req'[r].pc \notin {"write", "wait", "got"} /\ Others(r) /\ UNCHANGED <<upstream, dups>>

(* A call takes an id.                                                     *)
Begins(r) ==
  /\ idCtr' = idCtr + 1 /\ pending' = pending \cup {idCtr + 1}
  /\ req'[r].pc = "write" /\ req'[r].id = idCtr + 1 /\ Others(r)
  /\ UNCHANGED <<chan, asked, answers, reader, dups>>

(* A call is written.                                                      *)
Written(r) ==
  /\ req[r].pc = "write" /\ Others(r)
  /\ req'[r].pc = "wait" /\ req'[r].id = req[r].id /\ req'[r].kind = req[r].kind
  /\ asked' = asked \cup {[id |-> req[r].id, kind |-> req[r].kind]}
  /\ UNCHANGED <<idCtr, pending, chan, answers, reader, dups>>

(* A call ends without an answer.                                          *)
Ends(r) ==
  /\ req[r].pc \in {"write", "wait"} /\ req'[r].pc = "idle" /\ Others(r)
  /\ pending' = pending \ {req[r].id}
  /\ UNCHANGED <<idCtr, chan, asked, answers, reader, dups>>

(* A call takes its answer.                                                *)
Takes(r) ==
  /\ req[r].pc = "wait" /\ full(req[r].id) /\ Others(r)
  /\ req'[r].pc = "got" /\ req'[r].id = req[r].id /\ req'[r].kind = req[r].kind
  /\ req'[r].result = chan[req[r].id]
  /\ pending' = pending \ {req[r].id}
  /\ chan' = [chan EXCEPT ![req[r].id] = NoAnswer]
  /\ UNCHANGED <<idCtr, asked, answers, reader, dups>>

(* Nothing happens to them.                                                *)
Aside == UNCHANGED <<req, upstream, dups>>

(* Every step is one of these, a step of the server or the read loop, or a *)
(* restart.                                                                *)
LEMMA StepKinds ==
  ASSUME MCPTypeOK, [Next]_vars
  PROVE  \/ \E r \in Reqs : Quiet(r) \/ Begins(r) \/ Written(r) \/ Ends(r) \/ Takes(r)
         \/ \E q \in asked : Reply(q) \/ ReplyTwice(q)
         \/ \E m \in answers : Lookup(m)
         \/ Deliver \/ ReaderEnds \/ Restart \/ Aside
<1> USE DEF MCPTypeOK, Others
<1>1. CASE UNCHANGED vars
  BY <1>1 DEF vars, upstream, counters, Aside
<1>2. ASSUME NEW r \in Reqs, IsDrifted(r) PROVE Quiet(r)
  <2>1. req' = [req EXCEPT ![r] = Idle] \/ req' = [req EXCEPT ![r].pc = "evaluate"]
    BY <1>2 DEF IsDrifted, Goto, Return
  <2>2. req'[r].pc \in {"idle", "evaluate"} /\ Others(r)
    BY <2>1 DEF Idle, Locals
  <2> QED
    BY <2>2, <1>2 DEF Quiet, IsDrifted, upstream, counters
<1>3. ASSUME NEW r \in Reqs, Evaluate(r) PROVE Quiet(r)
  <2>1. req' = [req EXCEPT ![r] = Idle] \/ req' = [req EXCEPT ![r].pc = "start"]
    BY <1>3 DEF Evaluate, Goto, Return
  <2>2. req'[r].pc \in {"idle", "start"} /\ Others(r)
    BY <2>1 DEF Idle, Locals
  <2> QED
    BY <2>2, <1>3 DEF Quiet, Evaluate, upstream, counters
<1>4. ASSUME NEW r \in Reqs, Start(r) PROVE Quiet(r) \/ Begins(r)
  <2>1. CASE open
    <3>1. req' = [req EXCEPT ![r] = Idle] /\ UNCHANGED <<idCtr, pending>>
      BY <1>4, <2>1 DEF Start, Return
    <3> QED
      BY <1>4, <3>1 DEF Start, Quiet, Idle, upstream, counters
  <2>2. CASE ~ open
    <3>1. /\ req' = [req EXCEPT ![r].pc = "write", ![r].id = idCtr + 1]
          /\ idCtr' = idCtr + 1 /\ pending' = pending \cup {idCtr + 1}
      BY <1>4, <2>2 DEF Start
    <3>2. req'[r].pc = "write" /\ req'[r].id = idCtr + 1 /\ Others(r)
      BY <3>1 DEF Locals
    <3> QED
      BY <1>4, <3>1, <3>2 DEF Start, Begins, counters
  <2> QED
    BY <2>1, <2>2
<1>5. ASSUME NEW r \in Reqs, Write(r) PROVE Written(r)
  <2>1. req' = [req EXCEPT ![r].pc = "wait"]
    BY <1>5 DEF Write, Goto
  <2>2. /\ req'[r].pc = "wait" /\ req'[r].id = req[r].id /\ req'[r].kind = req[r].kind
        /\ Others(r)
    BY <2>1 DEF Locals
  <2> QED
    BY <2>2, <1>5 DEF Write, Written, counters
<1>6. ASSUME NEW r \in Reqs, WriteFails(r) PROVE Ends(r)
  BY <1>6 DEF WriteFails, End, Return, Ends, Idle, counters
<1>7. ASSUME NEW r \in Reqs, ContextDone(r) PROVE Ends(r)
  BY <1>7 DEF ContextDone, End, Return, Ends, Idle, counters
<1>8. ASSUME NEW r \in Reqs, Receive(r) PROVE Takes(r)
  <2>1. req' = [req EXCEPT ![r].pc = "got", ![r].result = chan[req[r].id]]
    BY <1>8 DEF Receive
  <2>2. /\ req'[r].pc = "got" /\ req'[r].id = req[r].id /\ req'[r].kind = req[r].kind
        /\ req'[r].result = chan[req[r].id] /\ Others(r)
    BY <2>1 DEF Locals
  <2> QED
    BY <2>2, <1>8 DEF Receive, End, Takes, counters
<1>9. ASSUME NEW r \in Reqs, CheckDrift(r) PROVE Quiet(r)
  BY <1>9 DEF CheckDrift, Return, Quiet, Idle, upstream, counters
<1>10. ASSUME NEW r \in Reqs, PassOn(r) PROVE Quiet(r)
  BY <1>10 DEF PassOn, Return, Quiet, Idle, upstream, counters
<1>11. ASSUME NEW r \in Reqs, NEW kind \in Kinds, Arrive(r, kind) PROVE Quiet(r)
  BY <1>11 DEF Arrive, Quiet, Idle, upstream, counters
<1>12. ASSUME NEW v \in Defs, ChangeDef(v) PROVE Aside
  BY <1>12 DEF ChangeDef, Aside
<1>13. CASE HalfOpen
  BY <1>13 DEF HalfOpen, Aside, counters
<1> QED
  BY <1>1, <1>2, <1>3, <1>4, <1>5, <1>6, <1>7, <1>8, <1>9, <1>10, <1>11,
     <1>12, <1>13
  DEF Next, HandleRequest, Kinds

(* Every call gets an id that no other has.                                *)
LEMMA DistinctStep == MCPInv /\ [Next]_vars => IdsDistinct'
<1> SUFFICES ASSUME MCPInv, [Next]_vars PROVE IdsDistinct'
  OBVIOUS
<1> USE DEF MCPTypeOK, Locals, IdsDistinct, Calling, Others
<1>0. MCPTypeOK /\ IdsDistinct
  BY DEF MCPInv
<1>1. ASSUME NEW r \in Reqs, Quiet(r) PROVE IdsDistinct'
  BY <1>0, <1>1 DEF Quiet, upstream
<1>2. ASSUME NEW r \in Reqs, Begins(r) PROVE IdsDistinct'
  BY <1>0, <1>2 DEF Begins
<1>3. ASSUME NEW r \in Reqs, Written(r) PROVE IdsDistinct'
  <2>1. \A s \in Reqs : (Calling(s)' <=> Calling(s)) /\ req'[s].id = req[s].id
    BY <1>3 DEF Written
  <2> QED
    BY <1>0, <2>1, <1>3 DEF Written
<1>4. ASSUME NEW r \in Reqs, Ends(r) PROVE IdsDistinct'
  BY <1>0, <1>4 DEF Ends
<1>5. ASSUME NEW r \in Reqs, Takes(r) PROVE IdsDistinct'
  BY <1>0, <1>5 DEF Takes
<1>6. ASSUME NEW q \in asked, Reply(q) PROVE IdsDistinct'
  BY <1>0, <1>6 DEF Reply, values, answerTo, counters
<1>7. ASSUME NEW q \in asked, ReplyTwice(q) PROVE IdsDistinct'
  BY <1>0, <1>7 DEF ReplyTwice, values, answerTo
<1>8. ASSUME NEW m \in answers, Lookup(m) PROVE IdsDistinct'
  BY <1>0, <1>8 DEF Lookup, counters
<1>9. CASE Deliver
  BY <1>0, <1>9 DEF Deliver, room, counters
<1>10. CASE ReaderEnds
  BY <1>0, <1>10 DEF ReaderEnds, counters
<1>11. CASE Restart
  BY <1>0, <1>11 DEF Restart, Idle
<1>12. CASE Aside
  BY <1>0, <1>12 DEF Aside, upstream
<1> QED
  BY <1>0, <1>1, <1>2, <1>3, <1>4, <1>5, <1>6, <1>7, <1>8, <1>9, <1>10,
     <1>11, <1>12, StepKinds

(* A message is made for the call that has its id, and the id stays its.   *)
LEMMA FitStep == MCPInv /\ [Next]_vars => MessagesFit'
<1> SUFFICES ASSUME MCPInv, [Next]_vars PROVE MessagesFit'
  OBVIOUS
<1> USE DEF MCPTypeOK, Locals, IdsDistinct, Calling, Others, MessagesFit, Fits, full
<1>0. MCPTypeOK /\ IdsDistinct /\ MessagesFit
  BY DEF MCPInv
<1>1. ASSUME NEW r \in Reqs, Quiet(r) PROVE MessagesFit'
  BY <1>0, <1>1 DEF Quiet, upstream
<1>2. ASSUME NEW r \in Reqs, Begins(r) PROVE MessagesFit'
  BY <1>0, <1>2 DEF Begins
<1>3. ASSUME NEW r \in Reqs, Written(r) PROVE MessagesFit'
  BY <1>0, <1>3 DEF Written
<1>4. ASSUME NEW r \in Reqs, Ends(r) PROVE MessagesFit'
  BY <1>0, <1>4 DEF Ends
<1>5. ASSUME NEW r \in Reqs, Takes(r) PROVE MessagesFit'
  BY <1>0, <1>5 DEF Takes
<1>6. ASSUME NEW q \in asked, Reply(q) PROVE MessagesFit'
  BY <1>0, <1>6 DEF Reply, values, answerTo, counters
<1>7. ASSUME NEW q \in asked, ReplyTwice(q) PROVE MessagesFit'
  BY <1>0, <1>7 DEF ReplyTwice, values, answerTo
<1>8. ASSUME NEW m \in answers, Lookup(m) PROVE MessagesFit'
  BY <1>0, <1>8 DEF Lookup, counters
<1>9. CASE Deliver
  <2>1. \A n : Fits(n)' <=> Fits(n)
    BY <1>9 DEF Deliver
  <2>2. reader.msg \in Msgs /\ Fits(reader.msg) /\ reader'.at = "read"
    BY <1>0, <1>9 DEF Deliver, Reading
  <2>3. ASSUME NEW id \in Ids, full(id)' PROVE chan'[id].id = id /\ Fits(chan'[id])
    BY <1>0, <2>2, <2>3, <1>9 DEF Deliver
  <2>4. ASSUME NEW id \in Ids PROVE Fits(chan[id])' <=> Fits(chan'[id])
    BY <1>9 DEF Deliver
  <2> QED
    BY <1>0, <2>1, <2>2, <2>3, <2>4, <1>9 DEF Deliver
<1>10. CASE ReaderEnds
  BY <1>0, <1>10 DEF ReaderEnds, counters
<1>11. CASE Restart
  BY <1>0, <1>11 DEF Restart, Idle, Reading
<1>12. CASE Aside
  BY <1>0, <1>12 DEF Aside, upstream
<1> QED
  BY <1>0, <1>1, <1>2, <1>3, <1>4, <1>5, <1>6, <1>7, <1>8, <1>9, <1>10,
     <1>11, <1>12, StepKinds

(* A call takes an answer from its own channel.                            *)
LEMMA OwnStep == MCPInv /\ [Next]_vars => OwnAnswer'
<1> SUFFICES ASSUME MCPInv, [Next]_vars PROVE OwnAnswer'
  OBVIOUS
<1> USE DEF MCPTypeOK, Locals, OwnAnswer, Others
<1>0. MCPTypeOK /\ IdsDistinct /\ MessagesFit /\ OwnAnswer
  BY DEF MCPInv
<1>i. \A id \in 1 .. idCtr : id \in Ids
  BY IdInIds
<1>1. ASSUME NEW r \in Reqs, Quiet(r) PROVE OwnAnswer'
  BY <1>0, <1>1 DEF Quiet, upstream
<1>2. ASSUME NEW r \in Reqs, Begins(r) PROVE OwnAnswer'
  BY <1>0, <1>2 DEF Begins
<1>3. ASSUME NEW r \in Reqs, Written(r) PROVE OwnAnswer'
  BY <1>0, <1>3 DEF Written
<1>4. ASSUME NEW r \in Reqs, Ends(r) PROVE OwnAnswer'
  BY <1>0, <1>4 DEF Ends
<1>5. ASSUME NEW r \in Reqs, Takes(r) PROVE OwnAnswer'
  <2>1. req[r].id \in Ids
    BY <1>0, <1>i, <1>5 DEF Takes, IdsDistinct, Calling
  <2>2. chan[req[r].id].id = req[r].id /\ chan[req[r].id].kind = req[r].kind
    BY <1>0, <2>1, <1>5 DEF Takes, MessagesFit, Fits
  <2> QED
    BY <1>0, <2>2, <1>5 DEF Takes
<1>6. ASSUME NEW q \in asked, Reply(q) PROVE OwnAnswer'
  BY <1>0, <1>6 DEF Reply, values, answerTo, counters
<1>7. ASSUME NEW q \in asked, ReplyTwice(q) PROVE OwnAnswer'
  BY <1>0, <1>7 DEF ReplyTwice, values, answerTo
<1>8. ASSUME NEW m \in answers, Lookup(m) PROVE OwnAnswer'
  BY <1>0, <1>8 DEF Lookup, counters
<1>9. CASE Deliver
  BY <1>0, <1>9 DEF Deliver, room, counters
<1>10. CASE ReaderEnds
  BY <1>0, <1>10 DEF ReaderEnds, counters
<1>11. CASE Restart
  BY <1>0, <1>11 DEF Restart, Idle
<1>12. CASE Aside
  BY <1>0, <1>12 DEF Aside, upstream
<1> QED
  BY <1>0, <1>1, <1>2, <1>3, <1>4, <1>5, <1>6, <1>7, <1>8, <1>9, <1>10,
     <1>11, <1>12, StepKinds

(* Nobody else takes a call out of the map.                                *)
LEMMA RegisteredStep == MCPInv /\ [Next]_vars => Registered'
<1> SUFFICES ASSUME MCPInv, [Next]_vars PROVE Registered'
  OBVIOUS
<1> USE DEF MCPTypeOK, Locals, Registered, IdsDistinct, Calling, Others
<1>0. MCPTypeOK /\ IdsDistinct /\ Registered
  BY DEF MCPInv
<1>1. ASSUME NEW r \in Reqs, Quiet(r) PROVE Registered'
  BY <1>0, <1>1 DEF Quiet, upstream
<1>2. ASSUME NEW r \in Reqs, Begins(r) PROVE Registered'
  BY <1>0, <1>2 DEF Begins
<1>3. ASSUME NEW r \in Reqs, Written(r) PROVE Registered'
  BY <1>0, <1>3 DEF Written
<1>4. ASSUME NEW r \in Reqs, Ends(r) PROVE Registered'
  BY <1>0, <1>4 DEF Ends
<1>5. ASSUME NEW r \in Reqs, Takes(r) PROVE Registered'
  BY <1>0, <1>5 DEF Takes
<1>6. ASSUME NEW q \in asked, Reply(q) PROVE Registered'
  BY <1>0, <1>6 DEF Reply, values, answerTo, counters
<1>7. ASSUME NEW q \in asked, ReplyTwice(q) PROVE Registered'
  BY <1>0, <1>7 DEF ReplyTwice, values, answerTo
<1>8. ASSUME NEW m \in answers, Lookup(m) PROVE Registered'
  BY <1>0, <1>8 DEF Lookup, counters
<1>9. CASE Deliver
  BY <1>0, <1>9 DEF Deliver, room, counters
<1>10. CASE ReaderEnds
  BY <1>0, <1>10 DEF ReaderEnds, counters
<1>11. CASE Restart
  BY <1>0, <1>11 DEF Restart, Idle
<1>12. CASE Aside
  BY <1>0, <1>12 DEF Aside, upstream
<1> QED
  BY <1>0, <1>1, <1>2, <1>3, <1>4, <1>5, <1>6, <1>7, <1>8, <1>9, <1>10,
     <1>11, <1>12, StepKinds

(* An answer only moves on: from the server to the reader, from there to   *)
(* the channel, and from there to its call.                                *)
LEMMA AwaitedStep == MCPInv /\ [Next]_vars => Awaited'
<1> SUFFICES ASSUME MCPInv, [Next]_vars PROVE Awaited'
  OBVIOUS
<1> USE DEF MCPTypeOK, Locals, Awaited, OnItsWay, IdsDistinct, Calling, Others, full
<1>0. MCPTypeOK /\ IdsDistinct /\ MessagesFit /\ Registered /\ Awaited
  BY DEF MCPInv
<1>i. \A id \in 1 .. idCtr : id \in Ids
  BY IdInIds
<1>1. ASSUME NEW r \in Reqs, Quiet(r) PROVE Awaited'
  BY <1>0, <1>1 DEF Quiet, upstream
<1>2. ASSUME NEW r \in Reqs, Begins(r) PROVE Awaited'
  BY <1>0, <1>2 DEF Begins
<1>3. ASSUME NEW r \in Reqs, Written(r) PROVE Awaited'
  <2>1. \A s \in Reqs : req'[s].id = req[s].id /\ (req'[s].pc = "wait" => s = r \/ req[s].pc = "wait")
    BY <1>3 DEF Written
  <2>2. \A id : OnItsWay(id) => OnItsWay(id)'
    BY <1>3 DEF Written
  <2>3. OnItsWay(req[r].id)'
    <3>1. [id |-> req[r].id, kind |-> req[r].kind] \in asked'
      BY <1>3 DEF Written
    <3>2. \E p \in asked' : p.id = req'[r].id
      BY <2>1, <3>1
    <3> QED
      BY <3>2
  <2>4. ASSUME NEW s \in Reqs, req'[s].pc = "wait", reader'.at # "ended" PROVE OnItsWay(req[s].id)'
    <3>1. CASE s = r
      BY <2>3, <3>1
    <3>2. CASE s # r
      BY <1>0, <2>1, <2>4, <3>2, <1>3 DEF Written
    <3> QED
      BY <3>1, <3>2
  <2> QED
    BY <2>4
<1>4. ASSUME NEW r \in Reqs, Ends(r) PROVE Awaited'
  BY <1>0, <1>4 DEF Ends
<1>5. ASSUME NEW r \in Reqs, Takes(r) PROVE Awaited'
  BY <1>0, <1>i, <1>5 DEF Takes
<1>6. ASSUME NEW q \in asked, Reply(q) PROVE Awaited'
  <2>1. PICK v \in values(q) : answers' = answers \cup {answerTo(q, v)}
    BY <1>6 DEF Reply
  <2>2. answerTo(q, v) \in answers' /\ answerTo(q, v).id = q.id
    BY <2>1 DEF answerTo
  <2>3. \A p \in asked : p \in asked' \/ p = q
    BY <1>6 DEF Reply
  <2> QED
    BY <1>0, <2>1, <2>2, <2>3, <1>6 DEF Reply
<1>7. ASSUME NEW q \in asked, ReplyTwice(q) PROVE Awaited'
  BY <1>0, <1>7 DEF ReplyTwice, values, answerTo
<1>8. ASSUME NEW m \in answers, Lookup(m) PROVE Awaited'
  BY <1>0, <1>8 DEF Lookup, Registered
<1>9. CASE Deliver
  BY <1>0, <1>i, <1>9 DEF Deliver, Reading, MessagesFit, Fits, Msgs, NoAnswer
<1>10. CASE ReaderEnds
  BY <1>0, <1>10 DEF ReaderEnds, counters
<1>11. CASE Restart
  BY <1>0, <1>11 DEF Restart, Idle
<1>12. CASE Aside
  BY <1>0, <1>12 DEF Aside, upstream
<1> QED
  BY <1>0, <1>1, <1>2, <1>3, <1>4, <1>5, <1>6, <1>7, <1>8, <1>9, <1>10,
     <1>11, <1>12, StepKinds

(* While the server answers once, no step copies a message.                *)
LEMMA SingleStep == MCPInv /\ [Next]_vars => Single'
<1> SUFFICES ASSUME MCPInv, [Next]_vars PROVE Single'
  OBVIOUS
<1> USE DEF MCPTypeOK, Single, full
<1>0. MCPTypeOK /\ IdsDistinct /\ MessagesFit /\ Single
  BY DEF MCPInv
<1>i. \A id \in 1 .. idCtr : id \in Ids
  BY IdInIds
<1>1. ASSUME NEW r \in Reqs, Quiet(r) PROVE Single'
  BY <1>0, <1>1 DEF Quiet, upstream
<1>2. ASSUME NEW r \in Reqs, Begins(r) PROVE Single'
  BY <1>0, <1>2 DEF Begins
<1>3. ASSUME NEW r \in Reqs, Written(r) PROVE Single'
  BY <1>0, <1>i, <1>3 DEF Written, MessagesFit, Fits, Locals
<1>4. ASSUME NEW r \in Reqs, Ends(r) PROVE Single'
  BY <1>0, <1>4 DEF Ends
<1>5. ASSUME NEW r \in Reqs, Takes(r) PROVE Single'
  BY <1>0, <1>i, <1>5 DEF Takes
<1>6. ASSUME NEW q \in asked, Reply(q) PROVE Single'
  BY <1>0, <1>6 DEF Reply, values, answerTo, counters
<1>7. ASSUME NEW q \in asked, ReplyTwice(q) PROVE Single'
  BY <1>0, <1>7 DEF ReplyTwice, values, answerTo
<1>8. ASSUME NEW m \in answers, Lookup(m) PROVE Single'
  BY <1>0, <1>i, <1>8 DEF Lookup, MessagesFit, Fits, counters
<1>9. CASE Deliver
  BY <1>0, <1>i, <1>9 DEF Deliver, Reading, MessagesFit, Fits, Msgs, NoAnswer, counters
<1>10. CASE ReaderEnds
  BY <1>0, <1>10 DEF ReaderEnds, counters
<1>11. CASE Restart
  BY <1>0, <1>11 DEF Restart, Reading
<1>12. CASE Aside
  BY <1>0, <1>12 DEF Aside, upstream
<1> QED
  BY <1>0, <1>1, <1>2, <1>3, <1>4, <1>5, <1>6, <1>7, <1>8, <1>9, <1>10,
     <1>11, <1>12, StepKinds

-----------------------------------------------------------------------------
(* The flag is up before the list that raised it is answered, and only a   *)
(* restart takes it down.                                                  *)
LEMMA DriftStep == MCPInv /\ [Next]_vars => DriftKept'
<1> SUFFICES ASSUME MCPInv, [Next]_vars PROVE DriftKept'
  OBVIOUS
<1> USE DEF MCPTypeOK, DriftKept, Idle
<1>0. MCPTypeOK /\ DriftKept
  BY DEF MCPInv
<1>1. CASE UNCHANGED vars
  BY <1>0, <1>1 DEF vars, upstream, tracker, counters
<1>2. ASSUME NEW r \in Reqs, IsDrifted(r) PROVE DriftKept'
  <2>1. CASE drifted
    BY <1>0, <2>1, <1>2 DEF IsDrifted, Return, Idle, tracker
  <2>2. CASE ~ drifted
    <3>1. req' = [req EXCEPT ![r].pc = "evaluate"]
      BY <2>2, <1>2 DEF IsDrifted, Goto
    <3>2. /\ req'[r].warned = req[r].warned /\ ~ req[r].warned
          /\ \A s \in Reqs : s # r => req'[s] = req[s]
      BY <1>0, <2>2, <3>1 DEF Locals
    <3> QED
      BY <1>0, <3>2, <1>2 DEF IsDrifted, tracker
  <2> QED
    BY <2>1, <2>2
<1>3. ASSUME NEW r \in Reqs, Evaluate(r) PROVE DriftKept'
  <2>1. req' = [req EXCEPT ![r] = Idle] \/ req' = [req EXCEPT ![r].pc = "start"]
    BY <1>3 DEF Evaluate, Goto, Return
  <2>2. /\ req'[r].warned => req[r].warned /\ req'[r].kind = req[r].kind
        /\ \A s \in Reqs : s # r => req'[s] = req[s]
    BY <1>0, <2>1 DEF Idle, Locals
  <2> QED
    BY <1>0, <2>2, <1>3 DEF Evaluate, tracker
<1>4. ASSUME NEW r \in Reqs, Start(r) PROVE DriftKept'
  <2>1. /\ req'[r].warned => req[r].warned /\ req'[r].kind = req[r].kind
        /\ \A s \in Reqs : s # r => req'[s] = req[s]
    <3>1. CASE open
      BY <1>0, <3>1, <1>4 DEF Start, Return, Idle
    <3>2. CASE ~ open
      <4>1. req' = [req EXCEPT ![r].pc = "write", ![r].id = idCtr + 1]
        BY <3>2, <1>4 DEF Start
      <4> QED
        BY <1>0, <4>1 DEF Locals
    <3> QED
      BY <3>1, <3>2
  <2> QED
    BY <1>0, <2>1, <1>4 DEF Start, tracker
<1>5. ASSUME NEW r \in Reqs, Write(r) PROVE DriftKept'
  BY <1>0, <1>5 DEF Write, Goto, upstream, tracker, counters
<1>6. ASSUME NEW r \in Reqs, WriteFails(r) PROVE DriftKept'
  BY <1>0, <1>6 DEF WriteFails, End, Return, upstream, tracker, counters
<1>7. ASSUME NEW r \in Reqs, ContextDone(r) PROVE DriftKept'
  BY <1>0, <1>7 DEF ContextDone, End, Return, upstream, tracker, counters
<1>8. ASSUME NEW r \in Reqs, Receive(r) PROVE DriftKept'
  BY <1>0, <1>8 DEF Receive, End, upstream, tracker, counters
<1>9. ASSUME NEW r \in Reqs, CheckDrift(r) PROVE DriftKept'
  <2>1. /\ ~ req'[r].warned
        /\ \A s \in Reqs : s # r => req'[s] = req[s]
    BY <1>0, <1>9 DEF CheckDrift, Return, Idle
  <2>2. told' => drifted'
    BY <1>0, <1>9 DEF CheckDrift, flag
  <2>3. told => told'
    BY <1>9 DEF CheckDrift
  <2>4. stored' # NoDef => baseline' = stored'
    BY <1>0, <1>9 DEF CheckDrift
  <2> QED
    BY <1>0, <2>1, <2>2, <2>3, <2>4
<1>10. ASSUME NEW r \in Reqs, PassOn(r) PROVE DriftKept'
  BY <1>0, <1>10 DEF PassOn, Return, upstream, tracker, counters
<1>11. ASSUME NEW r \in Reqs, NEW kind \in Kinds, Arrive(r, kind) PROVE DriftKept'
  <2>1. /\ req'[r].warned = told /\ req'[r].kind = kind
        /\ kind = "call" => req'[r].pc = "drift"
        /\ \A s \in Reqs : s # r => req'[s] = req[s]
    BY <1>0, <1>11 DEF Arrive, Idle
  <2> QED
    BY <1>0, <2>1, <1>11 DEF Arrive, tracker
<1>12. ASSUME NEW q \in asked, Reply(q) PROVE DriftKept'
  BY <1>0, <1>12 DEF Reply, values, answerTo, upstream, tracker, counters
<1>13. ASSUME NEW q \in asked, ReplyTwice(q) PROVE DriftKept'
  BY <1>0, <1>13 DEF ReplyTwice, values, answerTo, upstream, tracker, counters
<1>14. ASSUME NEW v \in Defs, ChangeDef(v) PROVE DriftKept'
  BY <1>0, <1>14 DEF ChangeDef, upstream, tracker, counters
<1>15. ASSUME NEW m \in answers, Lookup(m) PROVE DriftKept'
  BY <1>0, <1>15 DEF Lookup, upstream, tracker, counters
<1>16. CASE Deliver
  BY <1>0, <1>16 DEF Deliver, room, upstream, tracker, counters
<1>17. CASE ReaderEnds
  BY <1>0, <1>17 DEF ReaderEnds, upstream, tracker, counters
<1>18. CASE HalfOpen
  BY <1>0, <1>18 DEF HalfOpen, upstream, tracker, counters
<1>19. CASE Restart
  BY <1>0, <1>19 DEF Restart, Idle
<1> QED
  BY <1>1, <1>2, <1>3, <1>4, <1>5, <1>6, <1>7, <1>8, <1>9, <1>10, <1>11,
     <1>12, <1>13, <1>14, <1>15, <1>16, <1>17, <1>18, <1>19
  DEF Next, HandleRequest, Kinds

-----------------------------------------------------------------------------
(* The invariant holds at the start.                                       *)
LEMMA InitInv == Init => MCPInv
<1> SUFFICES ASSUME Init PROVE MCPInv
  OBVIOUS
<1> USE DEF Init, Idle, Reading, NoAnswer
<1>1. MCPTypeOK
  BY DEF MCPTypeOK, Locals, Places, Kinds
<1>2. Early = {}
  BY DEF Early
<1>3. IdsSuffice
  BY <1>2, FS_EmptySet, FS_CardinalityType, MCPAssumption DEF IdsSuffice
<1>4. IdsDistinct /\ OwnAnswer /\ Registered /\ Awaited /\ DriftKept
  BY DEF IdsDistinct, Calling, OwnAnswer, Registered, Awaited, DriftKept
<1>5. MessagesFit /\ Single
  BY DEF MessagesFit, Single, full
<1> QED
  BY <1>1, <1>3, <1>4, <1>5 DEF MCPInv

(* Every step keeps the invariant.                                         *)
LEMMA InvHolds == Spec => []MCPInv
<1>1. MCPInv /\ [Next]_vars => MCPInv'
  BY TypeStep, IdsStep, DistinctStep, FitStep, OwnStep, RegisteredStep,
     AwaitedStep, SingleStep, DriftStep
  DEF MCPInv
<1> QED
  BY InitInv, <1>1, PTL DEF Spec

(* For any number of concurrent requests, repeated, late and reordered     *)
(* answers and restarts: a call returns the answer to its own request      *)
(* (upstream.go 119).                                                      *)
THEOREM OwnAnswerHolds == Spec => []OwnAnswer
<1>1. MCPInv => OwnAnswer
  BY DEF MCPInv
<1> QED
  BY InvHolds, <1>1, PTL

(* Unless the read loop has ended, the answer to a call that waits is not  *)
(* lost, and a server that answers once never holds the reader up          *)
(* (upstream.go 124, 147, 157).                                            *)
THEOREM AnswerOnItsWayHolds == Spec => []AnswerOnItsWay
<1>1. MCPInv => AnswerOnItsWay
  <2> SUFFICES ASSUME MCPInv PROVE AnswerOnItsWay
    OBVIOUS
  <2>1. ASSUME NEW r \in Reqs, req[r].pc = "wait", reader.at # "ended"
        PROVE  /\ req[r].id \in pending
               /\ \/ \E q \in asked : q.id = req[r].id
                  \/ \E m \in answers : m.id = req[r].id
                  \/ reader.msg.id = req[r].id \/ full(req[r].id)
    BY <2>1 DEF MCPInv, Registered, Awaited, OnItsWay
  <2>2. dups = 0 /\ reader.at = "deliver" => room(reader.msg.id)
    BY DEF MCPInv, Single, room
  <2> QED
    BY <2>1, <2>2 DEF AnswerOnItsWay
<1> QED
  BY InvHolds, <1>1, PTL

(* Once a list that shows another definition than the registered one has   *)
(* been answered, no later call of the tool is forwarded before a restart  *)
(* (proxy.go 87, types.go 146).                                            *)
THEOREM DriftBlocksCallsHolds == Spec => []DriftBlocksCalls
<1>1. MCPInv => DriftBlocksCalls
  BY DEF MCPInv, DriftKept, DriftBlocksCalls
<1> QED
  BY InvHolds, <1>1, PTL
=============================================================================
