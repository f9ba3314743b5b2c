------------------------------ MODULE StreamHub ------------------------------
(***************************************************************************)
(* The fan-out of internal/stream/server.go.  Decisions are queued by Emit *)
(* and published by the fan-out goroutine; heartbeats, audit checkpoints   *)
(* and the bundle event are published directly by goroutines of their own. *)
(* A publisher takes a sequence number and then offers its message to      *)
(* every registered client without blocking.  A client is registered,      *)
(* sent a snapshot and the last bundle event, and from then on served from *)
(* its own bounded channel.  Admission is modelled in StreamAdmission.     *)
(***************************************************************************)
EXTENDS Integers, Sequences, FiniteSets

CONSTANTS Clients,            \* connections
          Verdicts,           \* what a filter can select
          QueueCap, SendCap,  \* 512 and 100 in the code
          MaxEvents, MaxSeq, MaxPings   \* bounds of the model

ASSUME HubAssumption == /\ QueueCap \in Nat \ {0} /\ SendCap \in Nat \ {0}
                        /\ MaxEvents \in Nat /\ MaxSeq \in Nat /\ MaxPings \in Nat

VARIABLES
  seq,       \* sequenceCounter
  queue,     \* s.events
  reg,       \* s.clients
  bundle,    \* sequence number of lastBundlePayload; 0 is nil
  pub,       \* per publisher: step, message, clients Range must and did visit
  cpc,       \* per client: where handleWebSocket is
  base,      \* per client: Sequence of its snapshot
  send,      \* per client: c.send
  wire,      \* per client: what was written to the connection
  writing,   \* per client: writePump is running
  filter,    \* per client: verdicts subscribed to; none selects all
  errs,      \* per client: sequence numbers of system errors under way
  \* history
  emitted, pings,
  done,      \* sequence numbers whose broadcast has finished
  missed     \* per client: sequence numbers dropped, or lost in a failed write

clientVars == <<cpc, base, wire, writing, filter>>
vars == <<seq, queue, reg, bundle, pub, clientVars, send, errs, emitted, pings, done, missed>>

Publishers == {"fanOut", "heartbeat", "audit", "bundle"}
Msg(kind, n, ev, v) == [kind |-> kind, seq |-> n, ev |-> ev, verdict |-> v]
NoMsg == Msg("none", 0, 0, "none")
Idle == [pc |-> "idle", msg |-> NoMsg, must |-> {}, visited |-> {}]

Init ==
  /\ seq = 0 /\ queue = <<>> /\ reg = {} /\ bundle = 0
  /\ pub = [p \in Publishers |-> Idle]
  /\ cpc = [c \in Clients |-> "out"] /\ base = [c \in Clients |-> 0]
  /\ send = [c \in Clients |-> <<>>] /\ wire = [c \in Clients |-> <<>>]
  /\ writing = [c \in Clients |-> FALSE]
  /\ filter = [c \in Clients |-> {}] /\ errs = [c \in Clients |-> {}]
  /\ emitted = 0 /\ pings = 0 /\ done = {} /\ missed = [c \in Clients |-> {}]

-----------------------------------------------------------------------------
(* Emit: an event that finds the queue full is dropped.                    *)
Emit(v) ==
  /\ emitted < MaxEvents
  /\ emitted' = emitted + 1
  /\ queue' = IF Len(queue) < QueueCap
              THEN Append(queue, [ev |-> emitted + 1, verdict |-> v]) ELSE queue
  /\ UNCHANGED <<seq, reg, bundle, pub, clientVars, send, errs, pings, done, missed>>

(* A publisher has a message and takes the next sequence number.           *)
Take(p, msg) ==
  /\ pub[p].pc = "idle" /\ seq < MaxSeq
  /\ seq' = seq + 1
  /\ pub' = [pub EXCEPT ![p] = [@ EXCEPT !.pc = "taken", !.msg = msg]]

FanOut ==
  /\ queue # <<>>
  /\ Take("fanOut", Msg("event", seq + 1, Head(queue).ev, Head(queue).verdict))
  /\ queue' = Tail(queue)
  /\ UNCHANGED <<reg, bundle, clientVars, send, errs, emitted, pings, done, missed>>

Heartbeat ==
  /\ Take("heartbeat", Msg("heartbeat", seq + 1, 0, "none"))
  /\ UNCHANGED <<queue, reg, bundle, clientVars, send, errs, emitted, pings, done, missed>>

EmitAuditCheckpoint ==
  /\ Take("audit", Msg("checkpoint", seq + 1, 0, "none"))
  /\ UNCHANGED <<queue, reg, bundle, clientVars, send, errs, emitted, pings, done, missed>>

(* main emits the bundle event once, after the server was started.         *)
EmitBundleActivated ==
  /\ bundle = 0
  /\ Take("bundle", Msg("bundle", seq + 1, 0, "none"))
  /\ UNCHANGED <<queue, reg, bundle, clientVars, send, errs, emitted, pings, done, missed>>

(* broadcast: Range over the registry.  It visits every client that is     *)
(* registered throughout, and may visit one that is registered meanwhile.  *)
BeginRange(p) ==
  /\ pub[p].pc = "taken"
  /\ pub' = [pub EXCEPT ![p] = [@ EXCEPT !.pc = "range", !.must = reg]]
  /\ bundle' = IF p = "bundle" THEN pub[p].msg.seq ELSE bundle
  /\ UNCHANGED <<seq, queue, reg, clientVars, send, errs, emitted, pings, done, missed>>

(* The select with a default: a full channel drops the message.            *)
Offer(c, msg) ==
  IF Len(send[c]) < SendCap
  THEN send' = [send EXCEPT ![c] = Append(@, msg)] /\ UNCHANGED missed
  ELSE missed' = [missed EXCEPT ![c] = @ \cup {msg.seq}] /\ UNCHANGED send

(* Mutant: the broadcast waits for room in the channel.                    *)
DeliverBlocking(p, c) ==
  /\ pub[p].pc = "range" /\ c \in reg \ pub[p].visited
  /\ Len(send[c]) < SendCap
  /\ Offer(c, pub[p].msg)
  /\ pub' = [pub EXCEPT ![p].visited = @ \cup {c}]
  /\ UNCHANGED <<seq, queue, reg, bundle, clientVars, errs, emitted, pings, done>>

Deliver(p, c) ==
  /\ pub[p].pc = "range" /\ c \in reg \ pub[p].visited
  /\ Offer(c, pub[p].msg)
  /\ pub' = [pub EXCEPT ![p].visited = @ \cup {c}]
  /\ UNCHANGED <<seq, queue, reg, bundle, clientVars, errs, emitted, pings, done>>

EndRange(p) ==
  /\ pub[p].pc = "range" /\ pub[p].must \cap reg \subseteq pub[p].visited
  /\ done' = done \cup {pub[p].msg.seq}
  /\ pub' = [pub EXCEPT ![p] = Idle]
  /\ UNCHANGED <<seq, queue, reg, bundle, clientVars, send, errs, emitted, pings, missed>>

-----------------------------------------------------------------------------
(* handleWebSocket registers the client before it takes the snapshot, ...  *)
Store(c) ==
  /\ cpc[c] = "out"
  /\ reg' = reg \cup {c}
  /\ cpc' = [cpc EXCEPT ![c] = "stored"]
  /\ UNCHANGED <<seq, queue, bundle, pub, base, wire, writing, filter, send, errs, emitted, pings, done, missed>>

(* Mutant: the counter was read before the client was registered.          *)
LoadSequenceStale(c) ==
  /\ cpc[c] = "stored"
  /\ \E n \in 0 .. seq : base' = [base EXCEPT ![c] = n]
  /\ cpc' = [cpc EXCEPT ![c] = "loaded"]
  /\ UNCHANGED <<seq, queue, reg, bundle, pub, wire, writing, filter, send, errs, emitted, pings, done, missed>>

(* ... reads the counter, ...                                              *)
LoadSequence(c) ==
  /\ cpc[c] = "stored"
  /\ base' = [base EXCEPT ![c] = seq]
  /\ cpc' = [cpc EXCEPT ![c] = "loaded"]
  /\ UNCHANGED <<seq, queue, reg, bundle, pub, wire, writing, filter, send, errs, emitted, pings, done, missed>>

(* ... writes the snapshot, ...                                            *)
SendSnapshot(c) ==
  /\ cpc[c] = "loaded"
  /\ wire' = [wire EXCEPT ![c] = Append(@, Msg("snapshot", 0, 0, "none"))]
  /\ cpc' = [cpc EXCEPT ![c] = "snapshot"]
  /\ UNCHANGED <<seq, queue, reg, bundle, pub, base, writing, filter, send, errs, emitted, pings, done, missed>>

(* ... replays the bundle event if there is one, and starts the pumps.     *)
ReplayBundle(c) ==
  /\ cpc[c] = "snapshot"
  /\ wire' = IF bundle = 0 THEN wire
             ELSE [wire EXCEPT ![c] = Append(@, Msg("bundle", bundle, 0, "none"))]
  /\ cpc' = [cpc EXCEPT ![c] = "live"]
  /\ writing' = [writing EXCEPT ![c] = TRUE]
  /\ UNCHANGED <<seq, queue, reg, bundle, pub, base, filter, send, errs, emitted, pings, done, missed>>

WritePump(c) ==
  /\ cpc[c] = "live" /\ writing[c] /\ send[c] # <<>>
  /\ wire' = [wire EXCEPT ![c] = Append(@, Head(send[c]))]
  /\ send' = [send EXCEPT ![c] = Tail(@)]
  /\ UNCHANGED <<seq, queue, reg, bundle, pub, cpc, base, writing, filter, errs, emitted, pings, done, missed>>

(* Mutant: a message whose write fails is queued again.                    *)
WriteFailsRequeues(c) ==
  /\ cpc[c] = "live" /\ writing[c] /\ send[c] # <<>>
  /\ send' = [send EXCEPT ![c] = Append(Tail(@), Head(@))]
  /\ UNCHANGED <<seq, queue, reg, bundle, pub, clientVars, errs, emitted, pings, done, missed>>

(* A write fails or times out: the pump returns, the client stays.         *)
WriteFails(c) ==
  /\ cpc[c] = "live" /\ writing[c] /\ send[c] # <<>>
  /\ writing' = [writing EXCEPT ![c] = FALSE]
  /\ missed' = [missed EXCEPT ![c] = @ \cup {Head(send[c]).seq}]
  /\ send' = [send EXCEPT ![c] = Tail(@)]
  /\ UNCHANGED <<seq, queue, reg, bundle, pub, cpc, base, wire, filter, errs, emitted, pings, done>>

(* The connection is closed, or writing the snapshot failed.  System       *)
(* errors under way end up in a channel nobody reads.                      *)
Disconnect(c) ==
  /\ cpc[c] \notin {"out", "gone"}
  /\ reg' = reg \ {c}
  /\ cpc' = [cpc EXCEPT ![c] = "gone"]
  /\ writing' = [writing EXCEPT ![c] = FALSE]
  /\ base' = [base EXCEPT ![c] = 0]
  /\ filter' = [filter EXCEPT ![c] = {}] /\ errs' = [errs EXCEPT ![c] = {}]
  /\ send' = [send EXCEPT ![c] = <<>>] /\ wire' = [wire EXCEPT ![c] = <<>>]
  /\ missed' = [missed EXCEPT ![c] = {}]
  /\ UNCHANGED <<seq, queue, bundle, pub, emitted, pings, done>>

-----------------------------------------------------------------------------
(* readPump: the client's messages.  A ping is answered, ...               *)
handlePing(c) ==
  /\ cpc[c] = "live" /\ pings < MaxPings
  /\ pings' = pings + 1
  /\ Offer(c, Msg("pong", 0, 0, "none"))
  /\ UNCHANGED <<seq, queue, reg, bundle, pub, clientVars, errs, emitted, done>>

(* ... a filter is stored, ...                                             *)
handleSubscribeFilter(c, f) ==
  /\ cpc[c] = "live"
  /\ filter' = [filter EXCEPT ![c] = f]
  /\ UNCHANGED <<seq, queue, reg, bundle, pub, cpc, base, wire, writing, send, errs, emitted, pings, done, missed>>

(* ... and a backfill is refused, on every path, with a system error that  *)
(* takes a sequence number of its own and goes to this client only.        *)
handleBackfill(c) ==
  /\ cpc[c] = "live" /\ seq < MaxSeq
  /\ seq' = seq + 1
  /\ errs' = [errs EXCEPT ![c] = @ \cup {seq + 1}]
  /\ UNCHANGED <<queue, reg, bundle, pub, clientVars, send, emitted, pings, done, missed>>

sendSystemError(c, n) ==
  /\ n \in errs[c]
  /\ errs' = [errs EXCEPT ![c] = @ \ {n}]
  /\ Offer(c, Msg("error", n, 0, "none"))
  /\ UNCHANGED <<seq, queue, reg, bundle, pub, clientVars, emitted, pings, done>>

-----------------------------------------------------------------------------
Publish(p) == BeginRange(p) \/ EndRange(p) \/ \E c \in Clients : Deliver(p, c)
Serve(c) ==
  \/ Store(c) \/ LoadSequence(c) \/ SendSnapshot(c) \/ ReplayBundle(c)
  \/ WritePump(c) \/ WriteFails(c) \/ Disconnect(c)
  \/ handlePing(c) \/ handleBackfill(c)
  \/ \E f \in SUBSET Verdicts : handleSubscribeFilter(c, f)
  \/ \E n \in 1 .. MaxSeq : sendSystemError(c, n)

Next ==
  \/ \E v \in Verdicts : Emit(v)
  \/ FanOut \/ Heartbeat \/ EmitAuditCheckpoint \/ EmitBundleActivated
  \/ \E p \in Publishers : Publish(p)
  \/ \E c \in Clients : Serve(c)

(* Publishing goroutines are scheduled.  Nothing is assumed of clients.    *)
Spec ==
  /\ Init /\ [][Next]_vars
  /\ WF_vars(FanOut) /\ \A p \in Publishers : WF_vars(Publish(p))

-----------------------------------------------------------------------------
Elems(s) == {s[n] : n \in 1 .. Len(s)}
Seqs(s) == {m.seq : m \in Elems(s)}
IsEvent(m) == m.kind = "event"
Before(a, b) == a.ev < b.ev /\ a.seq < b.seq
InOrder(s) == \A m, n \in 1 .. Len(s) :
  m < n /\ IsEvent(s[m]) /\ IsEvent(s[n]) => Before(s[m], s[n])

(* A client misses nothing silently: every message that was broadcast with *)
(* a number above that of its snapshot was written, is queued for it, or   *)
(* was dropped because its channel was full or its connection failed.      *)
NothingMissed ==
  \A c \in Clients : cpc[c] \in {"loaded", "snapshot", "live"} =>
    \A n \in done : n > base[c] => n \in Seqs(wire[c]) \cup Seqs(send[c]) \cup missed[c]

(* A client sees the snapshot, once and first, and then the decisions in   *)
(* the order in which they were emitted, each at most once and with        *)
(* increasing numbers, whatever is dropped on the way.                     *)
EventsInOrder == \A c \in Clients :
  /\ \A n \in 1 .. Len(wire[c]) : wire[c][n].kind = "snapshot" <=> n = 1
  /\ InOrder(wire[c] \o send[c])

(* "Slow clients don't block the fan-out": it finishes every broadcast,    *)
(* even if no client ever reads.                                           *)
FanOutNeverBlocked == (pub["fanOut"].pc # "idle") ~> (pub["fanOut"].pc = "idle")
=============================================================================
