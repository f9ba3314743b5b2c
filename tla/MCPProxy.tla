------------------------------ MODULE MCPProxy ------------------------------
(***************************************************************************)
(* The MCP proxy (internal/mcp): requests handled concurrently, the checks *)
(* before a tool call is forwarded (proxy.go), the JSON-RPC client that    *)
(* matches the answers of the upstream server to its callers and its       *)
(* circuit breaker (upstream.go), and the tracker that compares the        *)
(* definition of a tool with the one it saw first, across restarts         *)
(* (types.go).                                                             *)
(*                                                                         *)
(* There is one tool; its definition is a member of Defs and may change in *)
(* the server at any time.  An answer carries the id it answers, the kind  *)
(* of request it was computed for and, for a list, the definition at that  *)
(* moment, or NoDef if it is an error.                                     *)
(***************************************************************************)
EXTENDS Integers, FiniteSets

CONSTANTS Reqs,        \* goroutines that handle requests
          Defs, NoDef,
          Threshold,   \* failures that open the circuit breaker
          MaxCalls, MaxFaults, MaxChanges   \* bounds of the model

ASSUME MCPAssumption ==
  /\ IsFiniteSet(Reqs) /\ NoDef \notin Defs
  /\ Threshold \in Nat \ {0}
  /\ MaxCalls \in Nat /\ MaxFaults \in Nat /\ MaxChanges \in Nat

VARIABLES
  req,       \* req[r]: a goroutine in HandleRequest
  idCtr,     \* the last id given to a call
  pending,   \* ids registered in the map of pending calls
  chan,      \* chan[id]: the channel of a call, of capacity one
  asked,     \* requests the server has read and not answered
  answers,   \* answers the server has written
  reader,    \* readLoop: the answer it has looked up and not delivered
  failures, open,      \* CircuitBreaker
  def,       \* the definition the server lists now
  baseline, drifted,   \* IntegrityTracker, in memory
  stored,    \* the table tool_registrations
  \* history
  told,      \* a list that showed a drift has been answered
  dups, changes, restarts

tracker == <<baseline, drifted, stored>>
breaker == <<failures, open>>
counters == <<dups, changes, restarts>>
upstream == <<idCtr, pending, chan, asked, answers, reader>>
vars == <<req, upstream, breaker, def, tracker, told, counters>>

NoAnswer == [id |-> 0, kind |-> "none", val |-> NoDef]

Idle == [pc |-> "idle", kind |-> "call", id |-> 0, result |-> NoAnswer, warned |-> FALSE]
Reading == [at |-> "read", msg |-> NoAnswer]
Ids == 1 .. MaxCalls + Cardinality(Reqs)

Init ==
  /\ req = [r \in Reqs |-> Idle]
  /\ idCtr = 0 /\ pending = {} /\ asked = {} /\ answers = {} /\ reader = Reading
  /\ chan = [id \in Ids |-> NoAnswer]
  /\ failures = 0 /\ open = FALSE
  /\ def \in Defs
  /\ baseline = NoDef /\ drifted = FALSE /\ stored = NoDef
  /\ told = FALSE /\ dups = 0 /\ changes = 0 /\ restarts = 0
-----------------------------------------------------------------------------
(* HandleRequest.                                                          *)

Goto(r, l) == req' = [req EXCEPT ![r].pc = l]

(* HandleRequest returns.                                                  *)
Return(r) == req' = [req EXCEPT ![r] = Idle]

Arrive(r, kind) ==
  /\ req[r].pc = "idle" /\ idCtr < MaxCalls
  /\ req' = [req EXCEPT ![r] = [Idle EXCEPT
               !.pc = IF kind = "call" THEN "drift" ELSE "start",
               !.kind = kind, !.warned = told]]
  /\ UNCHANGED <<upstream, breaker, def, tracker, told, counters>>

(* handleToolCall reads the drift flag, and evaluates the call later.      *)
IsDrifted(r) ==
  /\ req[r].pc = "drift"
  /\ IF drifted THEN Return(r) ELSE Goto(r, "evaluate")
  /\ UNCHANGED <<upstream, breaker, def, tracker, told, counters>>

(* Allow and audit are forwarded; deny, approval and any other are errors. *)
Evaluate(r) ==
  /\ req[r].pc = "evaluate"
  /\ Goto(r, "start") \/ Return(r)
  /\ UNCHANGED <<upstream, breaker, def, tracker, told, counters>>
-----------------------------------------------------------------------------
(* StdioUpstream.Call.                                                     *)

(* Mutant: the id is read and advanced in two steps, and the second lost.  *)
StartSharedId(r) ==
  /\ req[r].pc = "start"
  /\ IF open THEN Return(r) /\ UNCHANGED <<idCtr, pending>>
     ELSE /\ idCtr' \in {idCtr, idCtr + 1}
          /\ req' = [req EXCEPT ![r].pc = "write", ![r].id = idCtr + 1]
          /\ pending' = pending \cup {idCtr + 1}
  /\ UNCHANGED <<chan, asked, answers, reader, breaker, def, tracker, told, counters>>

(* The circuit breaker refuses, or the call takes an id and registers its  *)
(* channel, before the request is written.                                 *)
Start(r) ==
  /\ req[r].pc = "start"
  /\ IF open THEN Return(r) /\ UNCHANGED <<idCtr, pending>>
     ELSE /\ idCtr' = idCtr + 1
          /\ req' = [req EXCEPT ![r].pc = "write", ![r].id = idCtr + 1]
          /\ pending' = pending \cup {idCtr + 1}
  /\ UNCHANGED <<chan, asked, answers, reader, breaker, def, tracker, told, counters>>

RecordFailure ==
  /\ failures' = IF failures + 1 >= Threshold THEN 0 ELSE failures + 1
  /\ open' = (open \/ failures + 1 >= Threshold)

RecordSuccess == failures' = 0 /\ UNCHANGED open

(* halfOpenWait has passed.                                                *)
HalfOpen ==
  /\ open /\ open' = FALSE
  /\ UNCHANGED <<req, failures, upstream, def, tracker, told, counters>>

Write(r) ==
  /\ req[r].pc = "write"
  /\ asked' = asked \cup {[id |-> req[r].id, kind |-> req[r].kind]}
  /\ Goto(r, "wait")
  /\ UNCHANGED <<idCtr, pending, chan, answers, reader, breaker, def, tracker, told, counters>>

(* The call ends: its entry of the map is deleted.                         *)
End(r) ==
  /\ pending' = pending \ {req[r].id}
  /\ UNCHANGED <<idCtr, asked, answers, reader, def, tracker, told, counters>>

(* The write fails once the server is gone; the context may end any time.  *)
WriteFails(r) ==
  /\ req[r].pc = "write" /\ reader.at = "ended"
  /\ RecordFailure /\ End(r) /\ Return(r) /\ UNCHANGED chan

ContextDone(r) ==
  /\ req[r].pc = "wait"
  /\ RecordFailure /\ End(r) /\ Return(r) /\ UNCHANGED chan

full(id) == chan[id] # NoAnswer

Receive(r) ==
  /\ req[r].pc = "wait" /\ full(req[r].id)
  /\ RecordSuccess /\ End(r)
  /\ chan' = [chan EXCEPT ![req[r].id] = NoAnswer]
  /\ req' = [req EXCEPT ![r].pc = "got", ![r].result = chan[req[r].id]]
-----------------------------------------------------------------------------
(* Mutant: a tool whose definition is the known one again is forgiven.     *)
flagForgives(v) == baseline # NoDef /\ baseline # v

(* The flag is never taken back.                                           *)
flag(v) == drifted \/ (baseline # NoDef /\ baseline # v)

(* CheckDrift: the first definition is the baseline, and is stored (INSERT *)
(* OR IGNORE, whose errors are ignored); another one sets the flag.        *)
CheckDrift(r) ==
  LET v == req[r].result.val
  IN  /\ req[r].pc = "got" /\ v # NoDef
      /\ baseline' = IF baseline = NoDef THEN v ELSE baseline
      /\ stored' \in IF baseline = NoDef /\ stored = NoDef THEN {NoDef, v} ELSE {stored}
      /\ drifted' = flag(v)
      /\ told' = (told \/ (stored # NoDef /\ stored # v))
      /\ Return(r)
      /\ UNCHANGED <<upstream, breaker, def, counters>>

(* The result of a call, scanned in the background, or an error.           *)
PassOn(r) ==
  /\ req[r].pc = "got" /\ req[r].result.val = NoDef
  /\ Return(r)
  /\ UNCHANGED <<upstream, breaker, def, tracker, told, counters>>
-----------------------------------------------------------------------------
(* The server: it answers in any order, perhaps with an error (whose value *)
(* is null), perhaps again, and may list other definitions over time.      *)
answerTo(q, v) == [id |-> q.id, kind |-> q.kind, val |-> v]
values(q) == IF q.kind = "list" THEN {def, NoDef} ELSE {NoDef}

Reply(q) ==
  /\ asked' = asked \ {q}
  /\ \E v \in values(q) : answers' = answers \cup {answerTo(q, v)}
  /\ UNCHANGED <<req, idCtr, pending, chan, reader, breaker, def, tracker, told, counters>>

ReplyTwice(q) ==
  /\ dups + restarts < MaxFaults
  /\ dups' = dups + 1
  /\ \E v \in values(q) : answers' = answers \cup {answerTo(q, v)}
  /\ UNCHANGED <<req, idCtr, pending, chan, asked, reader, breaker, def, tracker, told, changes, restarts>>

ChangeDef(v) ==
  /\ v # def /\ changes < MaxChanges
  /\ def' = v /\ changes' = changes + 1
  /\ UNCHANGED <<req, upstream, breaker, tracker, told, dups, restarts>>

(* Mutant: an answer without a result is taken for a notification.         *)
LookupSkipsErrors(m) ==
  /\ reader.at = "read" /\ m \in answers
  /\ answers' = answers \ {m}
  /\ reader' = IF m.id \in pending /\ (m.kind = "call" \/ m.val # NoDef)
               THEN [at |-> "deliver", msg |-> m] ELSE reader
  /\ UNCHANGED <<req, idCtr, pending, chan, asked, breaker, def, tracker, told, counters>>

(* readLoop decodes an answer and looks its id up.                         *)
Lookup(m) ==
  /\ reader.at = "read" /\ m \in answers
  /\ answers' = answers \ {m}
  /\ reader' = IF m.id \in pending THEN [at |-> "deliver", msg |-> m] ELSE reader
  /\ UNCHANGED <<req, idCtr, pending, chan, asked, breaker, def, tracker, told, counters>>

room(id) == ~ full(id)

(* It sends on the channel, whose call may have ended.                     *)
Deliver ==
  /\ reader.at = "deliver" /\ room(reader.msg.id)
  /\ chan' = [chan EXCEPT ![reader.msg.id] = reader.msg]
  /\ reader' = Reading
  /\ UNCHANGED <<req, idCtr, pending, asked, answers, breaker, def, tracker, told, counters>>

(* End of file, or something that is not JSON: readLoop returns.           *)
ReaderEnds ==
  /\ reader.at = "read"
  /\ reader' = [reader EXCEPT !.at = "ended"]
  /\ UNCHANGED <<req, idCtr, pending, chan, asked, answers, breaker, def, tracker, told, counters>>

(* The process is started again, with its server: the baselines come from  *)
(* the table.                                                              *)
Restart ==
  /\ dups + restarts < MaxFaults
  /\ restarts' = restarts + 1
  /\ req' = [r \in Reqs |-> Idle]
  /\ idCtr' = 0 /\ pending' = {} /\ asked' = {} /\ answers' = {} /\ reader' = Reading
  /\ chan' = [id \in Ids |-> NoAnswer]
  /\ failures' = 0 /\ open' = FALSE
  /\ baseline' = stored /\ drifted' = FALSE /\ told' = FALSE
  /\ UNCHANGED <<def, stored, dups, changes>>

HandleRequest(r) ==
  \/ IsDrifted(r) \/ Evaluate(r) \/ Start(r) \/ Write(r)
  \/ WriteFails(r) \/ Receive(r) \/ CheckDrift(r) \/ PassOn(r)

Next ==
  \/ \E r \in Reqs : HandleRequest(r) \/ ContextDone(r)
                     \/ \E kind \in {"call", "list"} : Arrive(r, kind)
  \/ \E q \in asked : Reply(q) \/ ReplyTwice(q)
  \/ \E v \in Defs : ChangeDef(v)
  \/ \E m \in answers : Lookup(m)
  \/ Deliver \/ ReaderEnds \/ HalfOpen \/ Restart

Spec == Init /\ [][Next]_vars
-----------------------------------------------------------------------------
(* A call returns the answer to its own request, or none, however calls,   *)
(* time-outs and late or repeated answers interleave (upstream.go 119).    *)
OwnAnswer == \A r \in Reqs :
  req[r].pc = "got" => req[r].result.id = req[r].id /\ req[r].result.kind = req[r].kind

(* Once a list that shows another definition than the registered one has   *)
(* been answered, no call of the tool that arrives later in this run of    *)
(* the process is forwarded, even if the server has gone back to the old   *)
(* definition; a restart in between keeps what counts as the registered    *)
(* one (proxy.go 87, types.go 146).                                        *)
DriftBlocksCalls == \A r \in Reqs :
  req[r].kind = "call" /\ req[r].warned => req[r].pc \notin {"write", "wait", "got"}

(* Nothing can lose the answer to a call that waits for it without a       *)
(* deadline, other than the end of the read loop: the server has the       *)
(* request, or the answer is written, being delivered, or in the channel,  *)
(* and the call is registered until it takes the answer; and unless the    *)
(* server answers an id twice, a call that gave up never holds the reader  *)
(* up (upstream.go 147, 157, 119, 124).                                    *)
AnswerOnItsWay ==
  /\ \A r \in Reqs : req[r].pc = "wait" /\ reader.at # "ended" =>
       /\ req[r].id \in pending
       /\ \/ \E q \in asked : q.id = req[r].id
          \/ \E m \in answers : m.id = req[r].id
          \/ reader.msg.id = req[r].id \/ full(req[r].id)
  /\ dups = 0 /\ reader.at = "deliver" => room(reader.msg.id)
=============================================================================
