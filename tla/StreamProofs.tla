---------------------------- MODULE StreamProofs ----------------------------
(***************************************************************************)
(* The stream server: admission neither leaks nor loses a slot, a client   *)
(* misses nothing silently, and it sees the decisions in their order, for  *)
(* any number of clients, requests and events and any limits.              *)
(***************************************************************************)
EXTENDS StreamHub, StreamAdmission, SequenceTheorems, FiniteSetTheorems, TLAPS

-----------------------------------------------------------------------------
(* The fan-out.                                                            *)
Kinds == {"none", "event", "heartbeat", "checkpoint", "bundle", "snapshot", "pong", "error"}
Messages == [kind : Kinds, seq : Nat, ev : Nat, verdict : Verdicts \cup {"none"}]
Connected == {"stored", "loaded", "snapshot", "live"}
Loaded == {"loaded", "snapshot", "live"}
Published == [pc : {"idle", "taken", "range"}, msg : Messages,
              must : SUBSET Clients, visited : SUBSET Clients]

HubTypes ==
  /\ seq \in Nat /\ emitted \in Nat /\ bundle \in Nat
  /\ queue \in Seq([ev : Nat, verdict : Verdicts])
  /\ pub \in [Publishers -> Published]
  /\ base \in [Clients -> Nat]
  /\ cpc \in [Clients -> Connected \cup {"out", "gone"}]
  /\ send \in [Clients -> Seq(Messages)] /\ wire \in [Clients -> Seq(Messages)]
  /\ missed \in [Clients -> SUBSET Nat]

(* The registry holds the clients that handleWebSocket serves, and no      *)
(* number is published that was not taken.                                 *)
Registry ==
  /\ reg = {c \in Clients : cpc[c] \in Connected}
  /\ \A n \in done : n \in Nat /\ n <= seq

(* Every number that was written, is queued or is known to be lost.        *)
Got(c) == Seqs(wire[c]) \cup Seqs(send[c]) \cup missed[c]

(* What a publisher holds: events come from the fan-out only.              *)
Carried == \A p \in Publishers :
  /\ \A c \in pub[p].visited : cpc[c] # "out"
  /\ pub[p].pc # "range" => pub[p].visited = {}
  /\ pub[p].pc # "idle" => /\ pub[p].msg.seq <= seq
                           /\ pub[p].msg.kind # "snapshot"
                           /\ IsEvent(pub[p].msg) <=> p = "fanOut"

(* A broadcast under way has reached the clients it has visited, and is    *)
(* bound to visit those whose snapshot is older than its message.          *)
Reaching == \A p \in Publishers, c \in Clients :
  pub[p].pc = "range" /\ cpc[c] \in Connected =>
    /\ c \in pub[p].visited => pub[p].msg.seq \in Got(c)
    /\ cpc[c] # "stored" /\ pub[p].msg.seq > base[c] => c \in pub[p].must

DeliveryInv == HubTypes /\ Registry /\ Carried /\ Reaching /\ NothingMissed

(* The queue is in the order of Emit, ahead of the event in the fan-out.   *)
Queued ==
  /\ \A i, j \in 1 .. Len(queue) : i < j => queue[i].ev < queue[j].ev
  /\ \A i \in 1 .. Len(queue) : queue[i].ev <= emitted
  /\ pub["fanOut"].pc # "idle" =>
       /\ pub["fanOut"].msg.ev <= emitted
       /\ \A i \in 1 .. Len(queue) : pub["fanOut"].msg.ev < queue[i].ev

(* What a client has been sent is behind the queue, and behind the event   *)
(* in the fan-out until that has visited it.                               *)
Behind(c, a) ==
  /\ a.seq <= seq /\ a.ev <= emitted
  /\ \A i \in 1 .. Len(queue) : a.ev < queue[i].ev
  /\ pub["fanOut"].pc # "idle" /\ c \notin pub["fanOut"].visited =>
       Before(a, pub["fanOut"].msg)

Trailing(c) == \A a \in Elems(wire[c]) \cup Elems(send[c]) : IsEvent(a) => Behind(c, a)

(* The channel continues what is on the wire.                              *)
Lined(w, s) ==
  /\ InOrder(w) /\ InOrder(s)
  /\ \A a \in Elems(w), b \in Elems(s) : IsEvent(a) /\ IsEvent(b) => Before(a, b)

(* The snapshot is written before the pump starts, and by nobody else.     *)
SnapshotFirst(c) ==
  /\ cpc[c] \in {"snapshot", "live"} <=> wire[c] # <<>>
  /\ \A n \in 1 .. Len(wire[c]) : wire[c][n].kind = "snapshot" <=> n = 1
  /\ \A b \in Elems(send[c]) : b.kind # "snapshot"

Orderly(c) == Lined(wire[c], send[c]) /\ Trailing(c) /\ SnapshotFirst(c)

OrderInv == Queued /\ \A c \in Clients : Orderly(c)

-----------------------------------------------------------------------------
(* What the operations on a channel do to the messages in it.              *)
LEMMA ElemsAppend ==
  ASSUME NEW s \in Seq(Messages), NEW m \in Messages
  PROVE  /\ Append(s, m) \in Seq(Messages)
         /\ Elems(Append(s, m)) = Elems(s) \cup {m}
         /\ Seqs(Append(s, m)) = Seqs(s) \cup {m.seq}
<1> DEFINE t == Append(s, m)
<1>1. /\ t \in Seq(Messages) /\ Len(t) = Len(s) + 1 /\ t[Len(s) + 1] = m
      /\ \A i \in 1 .. Len(s) : t[i] = s[i]
  OBVIOUS
<1> HIDE DEF t
<1>2. 1 .. Len(t) = (1 .. Len(s)) \cup {Len(s) + 1}
  BY <1>1
<1>3. Elems(t) = Elems(s) \cup {m}
  BY <1>1, <1>2 DEF Elems
<1>4. Seqs(t) = Seqs(s) \cup {m.seq}
  BY <1>3 DEF Seqs
<1> QED BY <1>1, <1>3, <1>4 DEF t

LEMMA ElemsSplit ==
  ASSUME NEW s \in Seq(Messages), s # <<>>
  PROVE  /\ Tail(s) \in Seq(Messages) /\ Head(s) \in Messages
         /\ Elems(s) = {Head(s)} \cup Elems(Tail(s))
         /\ Seqs(s) = {Head(s).seq} \cup Seqs(Tail(s))
<1> DEFINE t == Tail(s)
<1>1. /\ t \in Seq(Messages) /\ Len(s) \in Nat \ {0} /\ Len(t) = Len(s) - 1
      /\ Head(s) = s[1] /\ s[1] \in Messages
      /\ \A i \in 1 .. Len(t) : t[i] = s[i + 1]
  OBVIOUS
<1> HIDE DEF t
<1>2. ASSUME NEW j \in 1 .. Len(s), j # 1 PROVE s[j] \in Elems(t)
  <2>1. j - 1 \in 1 .. Len(t) /\ t[j - 1] = s[j]
    BY <1>1, <1>2
  <2> QED BY <2>1 DEF Elems
<1>3. ASSUME NEW i \in 1 .. Len(t) PROVE t[i] \in Elems(s)
  <2>1. i + 1 \in 1 .. Len(s) /\ t[i] = s[i + 1]
    BY <1>1
  <2> QED BY <2>1 DEF Elems
<1>4. Elems(s) = {Head(s)} \cup Elems(t)
  <2>1. 1 \in 1 .. Len(s)
    BY <1>1
  <2> QED BY <1>1, <1>2, <1>3, <2>1 DEF Elems
<1>5. Seqs(s) = {Head(s).seq} \cup Seqs(t)
  BY <1>4 DEF Seqs
<1> QED BY <1>1, <1>4, <1>5 DEF t

LEMMA ElemsType ==
  ASSUME NEW s \in Seq(Messages)
  PROVE  Elems(s) \subseteq Messages
  BY DEF Elems

(* The select with a default either sends or records the loss.             *)
LEMMA OfferEffect ==
  ASSUME HubTypes, NEW c \in Clients, NEW m \in Messages, Offer(c, m), UNCHANGED wire
  PROVE  /\ send' \in [Clients -> Seq(Messages)]
         /\ missed' \in [Clients -> SUBSET Nat]
         /\ \A d \in Clients : Got(d) \subseteq Got(d)'
         /\ m.seq \in Got(c)'
         /\ \A d \in Clients : send'[d] # send[d] => d = c /\ send'[d] = Append(send[d], m)
<1>0. m.seq \in Nat /\ send[c] \in Seq(Messages)
  BY DEF HubTypes, Messages
<1>1. CASE send' = [send EXCEPT ![c] = Append(@, m)] /\ UNCHANGED missed
  <2>1. send'[c] = Append(send[c], m) /\ \A d \in Clients \ {c} : send'[d] = send[d]
    BY <1>1 DEF HubTypes
  <2>2. Append(send[c], m) \in Seq(Messages) /\ Seqs(Append(send[c], m)) = Seqs(send[c]) \cup {m.seq}
    BY <1>0, ElemsAppend
  <2>3. send' \in [Clients -> Seq(Messages)] /\ missed' \in [Clients -> SUBSET Nat]
    BY <1>1, <2>2 DEF HubTypes
  <2>4. Got(c)' = Got(c) \cup {m.seq}
    BY <1>1, <2>1, <2>2 DEF Got
  <2>5. \A d \in Clients \ {c} : Got(d)' = Got(d)
    BY <1>1, <2>1 DEF Got
  <2> QED BY <2>1, <2>3, <2>4, <2>5
<1>2. CASE missed' = [missed EXCEPT ![c] = @ \cup {m.seq}] /\ UNCHANGED send
  <2>1. missed' \in [Clients -> SUBSET Nat] /\ missed'[c] = missed[c] \cup {m.seq}
        /\ \A d \in Clients \ {c} : missed'[d] = missed[d]
    BY <1>0, <1>2 DEF HubTypes
  <2> QED BY <1>2, <2>1 DEF HubTypes, Got
<1> QED BY <1>1, <1>2 DEF Offer

(* Nothing that a client has got is taken away from it, so a step that     *)
(* only adds keeps what is known of the broadcasts.                        *)
LEMMA Growing ==
  ASSUME DeliveryInv, UNCHANGED <<reg, base, done>>, seq' \in Nat, seq <= seq',
         \A c \in Clients : cpc'[c] = cpc[c] \/ (cpc[c] \in Loaded /\ cpc'[c] \in Loaded),
         pub' \in [Publishers -> Published],
         \A p \in Publishers : pub'[p].pc = pub[p].pc /\ pub'[p].msg = pub[p].msg
                               /\ pub'[p].must = pub[p].must,
         \A p \in Publishers : pub[p].pc # "range" => pub'[p].visited = pub[p].visited,
         \A p \in Publishers, c \in Clients :
           c \in pub'[p].visited => \/ c \in pub[p].visited
                                    \/ c \in reg /\ pub[p].msg.seq \in Got(c)',
         \A c \in Clients : Got(c) \subseteq Got(c)'
  PROVE  Registry' /\ Carried' /\ Reaching' /\ NothingMissed'
<1> USE DEF DeliveryInv
<1>1. Registry'
  BY DEF Registry, HubTypes, Loaded, Connected
<1>2. Carried'
  <2> SUFFICES ASSUME NEW q \in Publishers
               PROVE  /\ \A c \in pub'[q].visited : cpc'[c] # "out"
                      /\ pub'[q].pc # "range" => pub'[q].visited = {}
                      /\ pub'[q].pc # "idle" => /\ pub'[q].msg.seq <= seq'
                                                /\ pub'[q].msg.kind # "snapshot"
                                                /\ IsEvent(pub'[q].msg) <=> q = "fanOut"
    BY DEF Carried, IsEvent
  <2>1. \A c \in pub'[q].visited : cpc'[c] # "out"
    <3> SUFFICES ASSUME NEW c \in pub'[q].visited PROVE cpc'[c] # "out"
      OBVIOUS
    <3>1. c \in Clients
      BY DEF Published
    <3>2. cpc[c] # "out"
      BY <3>1 DEF Carried, Registry, Connected
    <3> QED BY <3>1, <3>2 DEF Loaded
  <2>2. pub[q].pc # "idle" => pub[q].msg.seq <= seq'
    BY DEF Carried, HubTypes, Published, Messages
  <2> QED BY <2>1, <2>2 DEF Carried
<1>3. Reaching'
  BY DEF Reaching, Loaded, Connected
<1>4. NothingMissed'
  BY DEF NothingMissed, Got, Loaded
<1> QED BY <1>1, <1>2, <1>3, <1>4

LEMMA MsgType ==
  ASSUME NEW k \in Kinds, NEW n \in Nat, NEW e \in Nat, NEW v \in Verdicts \cup {"none"}
  PROVE  Msg(k, n, e, v) \in Messages /\ Msg(k, n, e, v).seq = n
         /\ Msg(k, n, e, v).ev = e /\ Msg(k, n, e, v).kind = k
  BY DEF Msg, Messages

LEMMA IdleType == Idle \in Published /\ Idle.pc = "idle" /\ Idle.visited = {}
<1>1. NoMsg \in Messages
  BY MsgType DEF NoMsg, Kinds
<1> QED BY <1>1 DEF Idle, Published

LEMMA DeliveryInit == Init => DeliveryInv
<1> SUFFICES ASSUME Init PROVE DeliveryInv
  OBVIOUS
<1>1. \A p \in Publishers : pub[p].pc = "idle" /\ pub[p].visited = {}
  BY IdleType DEF Init
<1>2. HubTypes
  BY IdleType DEF Init, HubTypes
<1>3. Registry
  BY DEF Init, Registry, Connected
<1>4. Carried /\ Reaching
  BY <1>1 DEF Carried, Reaching
<1>5. NothingMissed
  BY DEF Init, NothingMissed
<1> QED BY <1>2, <1>3, <1>4, <1>5 DEF DeliveryInv

(* A publisher with a new number is past every snapshot.                   *)
LEMMA TakeDelivery ==
  ASSUME DeliveryInv, NEW p \in Publishers, NEW m \in Messages, Take(p, m),
         m.seq = seq + 1, m.kind # "snapshot", IsEvent(m) <=> p = "fanOut",
         queue' \in Seq([ev : Nat, verdict : Verdicts]),
         UNCHANGED <<reg, bundle, clientVars, send, emitted, done, missed>>
  PROVE  DeliveryInv'
<1> USE DEF DeliveryInv, clientVars
<1>0. seq' = seq + 1 /\ seq \in Nat
  BY DEF Take, HubTypes
<1>1. /\ pub[p].pc = "idle" /\ pub[p] \in Published
      /\ pub' = [pub EXCEPT ![p] = [@ EXCEPT !.pc = "taken", !.msg = m]]
  BY DEF Take, HubTypes
<1>2. /\ pub' \in [Publishers -> Published]
      /\ pub'[p].pc = "taken" /\ pub'[p].msg = m /\ pub'[p].visited = pub[p].visited
      /\ \A q \in Publishers \ {p} : pub'[q] = pub[q]
  <2> DEFINE r == [pub[p] EXCEPT !.pc = "taken", !.msg = m]
  <2>1. r \in Published /\ r.pc = "taken" /\ r.msg = m /\ r.visited = pub[p].visited
    BY <1>1 DEF Published
  <2>2. pub' = [pub EXCEPT ![p] = r]
    BY <1>1
  <2> HIDE DEF r
  <2> QED BY <2>1, <2>2 DEF HubTypes
<1>3. HubTypes'
  BY <1>0, <1>2 DEF HubTypes
<1>4. Registry'
  BY <1>0 DEF Registry
<1>5. Carried'
  <2> SUFFICES ASSUME NEW q \in Publishers
               PROVE  /\ \A c \in pub'[q].visited : cpc'[c] # "out"
                      /\ pub'[q].pc # "range" => pub'[q].visited = {}
                      /\ pub'[q].pc # "idle" => /\ pub'[q].msg.seq <= seq'
                                                /\ pub'[q].msg.kind # "snapshot"
                                                /\ IsEvent(pub'[q].msg) <=> q = "fanOut"
    BY DEF Carried, IsEvent
  <2>1. CASE q = p
    BY <1>0, <1>1, <1>2, <2>1 DEF Carried
  <2>2. CASE q # p
    BY <1>0, <1>2, <2>2 DEF Carried, HubTypes, Published, Messages
  <2> QED BY <2>1, <2>2
<1>6. Reaching'
  BY <1>2 DEF Reaching, Got
<1>7. NothingMissed'
  BY DEF NothingMissed
<1> QED BY <1>3, <1>4, <1>5, <1>6, <1>7

(* Range begins with every client that is registered.                      *)
LEMMA RangeDelivery ==
  ASSUME DeliveryInv, NEW p \in Publishers, BeginRange(p)
  PROVE  DeliveryInv'
<1> USE DEF DeliveryInv, clientVars
<1>1. /\ pub[p].pc = "taken" /\ pub[p] \in Published /\ reg \subseteq Clients
      /\ pub' = [pub EXCEPT ![p] = [@ EXCEPT !.pc = "range", !.must = reg]]
      /\ UNCHANGED <<seq, queue, reg, cpc, base, wire, send, emitted, done, missed>>
  BY DEF BeginRange, HubTypes, Registry
<1>2. /\ pub' \in [Publishers -> Published]
      /\ pub'[p].pc = "range" /\ pub'[p].msg = pub[p].msg /\ pub'[p].visited = pub[p].visited
      /\ pub'[p].must = reg
      /\ \A q \in Publishers \ {p} : pub'[q] = pub[q]
  <2> DEFINE r == [pub[p] EXCEPT !.pc = "range", !.must = reg]
  <2>1. r \in Published /\ r.pc = "range" /\ r.msg = pub[p].msg /\ r.visited = pub[p].visited
        /\ r.must = reg
    BY <1>1 DEF Published
  <2>2. pub' = [pub EXCEPT ![p] = r]
    BY <1>1
  <2> HIDE DEF r
  <2> QED BY <2>1, <2>2 DEF HubTypes
<1>3. HubTypes'
  <2>1. bundle' \in Nat
    BY <1>1 DEF BeginRange, HubTypes, Published, Messages
  <2> QED BY <1>1, <1>2, <2>1 DEF HubTypes
<1>4. Registry'
  BY <1>1 DEF Registry
<1>5. Carried'
  <2> SUFFICES ASSUME NEW q \in Publishers
               PROVE  /\ \A c \in pub'[q].visited : cpc'[c] # "out"
                      /\ pub'[q].pc # "range" => pub'[q].visited = {}
                      /\ pub'[q].pc # "idle" => /\ pub'[q].msg.seq <= seq'
                                                /\ pub'[q].msg.kind # "snapshot"
                                                /\ IsEvent(pub'[q].msg) <=> q = "fanOut"
    BY DEF Carried, IsEvent
  <2>1. CASE q = p
    BY <1>1, <1>2, <2>1 DEF Carried
  <2>2. CASE q # p
    BY <1>1, <1>2, <2>2 DEF Carried
  <2> QED BY <2>1, <2>2
<1>6. Reaching'
  <2>1. pub[p].visited = {}
    BY <1>1 DEF Carried
  <2>2. \A c \in Clients : cpc[c] \in Connected => c \in reg
    BY DEF Registry
  <2>3. \A c \in Clients : Got(c)' = Got(c)
    BY <1>1 DEF Got
  <2> SUFFICES ASSUME NEW q \in Publishers, NEW c \in Clients,
                      pub'[q].pc = "range", cpc'[c] \in Connected
               PROVE  /\ c \in pub'[q].visited => pub'[q].msg.seq \in Got(c)'
                      /\ cpc'[c] # "stored" /\ pub'[q].msg.seq > base'[c] => c \in pub'[q].must
    BY DEF Reaching
  <2>4. CASE q = p
    BY <1>1, <1>2, <2>1, <2>2, <2>4
  <2>5. CASE q # p
    BY <1>1, <1>2, <2>3, <2>5 DEF Reaching
  <2> QED BY <2>4, <2>5
<1>7. NothingMissed'
  BY <1>1 DEF NothingMissed
<1> QED BY <1>3, <1>4, <1>5, <1>6, <1>7

(* When it ends, every client it was bound to visit and still serves has   *)
(* the message, or is known to have lost it.                               *)
LEMMA EndRangeDelivery ==
  ASSUME DeliveryInv, NEW p \in Publishers, EndRange(p)
  PROVE  DeliveryInv'
<1> USE DEF DeliveryInv, clientVars
<1>1. /\ pub[p].pc = "range" /\ pub[p].must \cap reg \subseteq pub[p].visited
      /\ done' = done \cup {pub[p].msg.seq}
      /\ pub' = [pub EXCEPT ![p] = Idle]
      /\ UNCHANGED <<seq, queue, reg, bundle, cpc, base, wire, send, emitted, missed>>
  BY DEF EndRange
<1>2. /\ pub' \in [Publishers -> Published]
      /\ pub'[p] = Idle /\ \A q \in Publishers \ {p} : pub'[q] = pub[q]
  BY <1>1, IdleType DEF HubTypes
<1>3. HubTypes'
  BY <1>1, <1>2 DEF HubTypes
<1>4. Registry'
  <2>1. pub[p].msg.seq \in Nat /\ pub[p].msg.seq <= seq
    BY <1>1 DEF HubTypes, Published, Messages, Carried
  <2> QED BY <1>1, <2>1 DEF Registry
<1>5. Carried'
  BY <1>1, <1>2, IdleType DEF Carried, IsEvent
<1>6. Reaching'
  BY <1>1, <1>2, IdleType DEF Reaching, Got
<1>7. NothingMissed'
  <2> SUFFICES ASSUME NEW c \in Clients, cpc[c] \in {"loaded", "snapshot", "live"},
                      NEW n \in done \cup {pub[p].msg.seq}, n > base[c]
               PROVE  n \in Got(c)
    BY <1>1 DEF NothingMissed, Got
  <2>1. CASE n \in done
    BY <2>1 DEF NothingMissed, Got
  <2>2. CASE n = pub[p].msg.seq
    <3>1. c \in reg /\ cpc[c] \in Connected /\ cpc[c] # "stored"
      BY DEF Registry, Connected
    <3>2. c \in pub[p].must
      BY <1>1, <2>2, <3>1 DEF Reaching
    <3> QED BY <1>1, <2>2, <3>1, <3>2 DEF Reaching
  <2> QED BY <2>1, <2>2
<1> QED BY <1>3, <1>4, <1>5, <1>6, <1>7

(* Offers: a broadcast reaching a client, a pong and a system error.       *)
LEMMA OfferDelivery ==
  ASSUME DeliveryInv, NEW c \in Clients, NEW m \in Messages, Offer(c, m),
         UNCHANGED <<seq, queue, reg, bundle, clientVars, emitted, done>>,
         \/ UNCHANGED pub
         \/ \E p \in Publishers : /\ pub[p].pc = "range" /\ c \in reg /\ m = pub[p].msg
                                  /\ pub' = [pub EXCEPT ![p].visited = @ \cup {c}]
  PROVE  DeliveryInv'
<1> USE DEF DeliveryInv, clientVars
<1>1. /\ send' \in [Clients -> Seq(Messages)]
      /\ missed' \in [Clients -> SUBSET Nat]
      /\ \A d \in Clients : Got(d) \subseteq Got(d)'
      /\ m.seq \in Got(c)'
  BY OfferEffect
<1>2. CASE UNCHANGED pub
  <2>1. HubTypes'
    BY <1>1, <1>2 DEF HubTypes
  <2> QED BY <1>1, <1>2, <2>1, Growing DEF HubTypes
<1>3. ASSUME NEW p \in Publishers, pub[p].pc = "range", c \in reg, m = pub[p].msg,
             pub' = [pub EXCEPT ![p].visited = @ \cup {c}]
      PROVE  DeliveryInv'
  <2> DEFINE r == [pub[p] EXCEPT !.visited = @ \cup {c}]
  <2>1. pub[p] \in Published
    BY DEF HubTypes
  <2>2. r \in Published /\ r.pc = pub[p].pc /\ r.msg = m /\ r.must = pub[p].must
        /\ r.visited = pub[p].visited \cup {c}
    BY <1>3, <2>1 DEF Published
  <2>3. pub' = [pub EXCEPT ![p] = r]
    BY <1>3
  <2> HIDE DEF r
  <2>4. /\ pub' \in [Publishers -> Published] /\ pub'[p] = r
        /\ \A q \in Publishers \ {p} : pub'[q] = pub[q]
    BY <2>2, <2>3 DEF HubTypes
  <2>5. HubTypes'
    BY <1>1, <2>4 DEF HubTypes
  <2>6. \A q \in Publishers : pub'[q].pc = pub[q].pc /\ pub'[q].msg = pub[q].msg
                              /\ pub'[q].must = pub[q].must
    BY <1>3, <2>2, <2>4
  <2>7. \A q \in Publishers : pub[q].pc # "range" => pub'[q].visited = pub[q].visited
    BY <1>3, <2>4
  <2>8. \A q \in Publishers, d \in Clients :
          d \in pub'[q].visited => \/ d \in pub[q].visited
                                   \/ d \in reg /\ pub[q].msg.seq \in Got(d)'
    BY <1>1, <1>3, <2>2, <2>4
  <2>9. seq' \in Nat /\ seq <= seq'
    BY DEF HubTypes
  <2> QED BY <1>1, <2>4, <2>5, <2>6, <2>7, <2>8, <2>9, Growing
<1> QED BY <1>2, <1>3

(* handleWebSocket: a client is registered before its snapshot is taken.   *)
LEMMA StoreDelivery ==
  ASSUME DeliveryInv, NEW c \in Clients, Store(c)
  PROVE  DeliveryInv'
<1> USE DEF DeliveryInv
<1>1. /\ cpc[c] = "out" /\ reg' = reg \cup {c}
      /\ cpc' = [cpc EXCEPT ![c] = "stored"]
      /\ UNCHANGED <<seq, queue, bundle, pub, base, wire, send, emitted, done, missed>>
  BY DEF Store
<1>2. cpc'[c] = "stored" /\ \A d \in Clients \ {c} : cpc'[d] = cpc[d]
  BY <1>1 DEF HubTypes
<1>3. HubTypes'
  BY <1>1 DEF HubTypes, Connected
<1>4. Registry'
  BY <1>1, <1>2 DEF Registry, Connected
<1>5. Carried'
  <2>1. \A p \in Publishers : \A d \in pub[p].visited : cpc'[d] # "out"
    BY <1>1, <1>2 DEF Carried, HubTypes, Published
  <2> QED BY <1>1, <2>1 DEF Carried, IsEvent
<1>6. Reaching'
  <2>1. \A p \in Publishers : c \notin pub[p].visited
    BY <1>1 DEF Carried
  <2>2. \A d \in Clients : Got(d)' = Got(d)
    BY <1>1 DEF Got
  <2> QED BY <1>1, <1>2, <2>1, <2>2 DEF Reaching
<1>7. NothingMissed'
  BY <1>1, <1>2 DEF NothingMissed
<1> QED BY <1>3, <1>4, <1>5, <1>6, <1>7

(* Every number that was taken until now is at most that of the snapshot.  *)
LEMMA LoadDelivery ==
  ASSUME DeliveryInv, NEW c \in Clients, LoadSequence(c)
  PROVE  DeliveryInv'
<1> USE DEF DeliveryInv
<1>1. /\ cpc[c] = "stored" /\ cpc' = [cpc EXCEPT ![c] = "loaded"]
      /\ base' = [base EXCEPT ![c] = seq]
      /\ UNCHANGED <<seq, queue, reg, bundle, pub, wire, send, emitted, done, missed>>
  BY DEF LoadSequence
<1>2. /\ cpc'[c] = "loaded" /\ base'[c] = seq
      /\ \A d \in Clients \ {c} : cpc'[d] = cpc[d] /\ base'[d] = base[d]
  BY <1>1 DEF HubTypes
<1>3. HubTypes'
  BY <1>1 DEF HubTypes, Connected
<1>4. Registry'
  BY <1>1, <1>2 DEF Registry, Connected
<1>5. Carried'
  <2>1. \A p \in Publishers : \A d \in pub[p].visited : cpc'[d] # "out"
    BY <1>1, <1>2 DEF Carried, HubTypes, Published
  <2> QED BY <1>1, <2>1 DEF Carried, IsEvent
<1>6. Reaching'
  <2>1. \A p \in Publishers : pub[p].pc = "range" => ~ pub[p].msg.seq > seq
    <3> SUFFICES ASSUME NEW p \in Publishers, pub[p].pc = "range"
                 PROVE  ~ pub[p].msg.seq > seq
      OBVIOUS
    <3>1. pub[p].msg.seq \in Nat /\ seq \in Nat
      BY DEF HubTypes, Published, Messages
    <3>2. pub[p].msg.seq <= seq
      BY DEF Carried
    <3> QED BY <3>1, <3>2
  <2>2. \A d \in Clients : Got(d)' = Got(d)
    BY <1>1 DEF Got
  <2>3. cpc[c] \in Connected
    BY <1>1 DEF Connected
  <2> QED BY <1>1, <1>2, <2>1, <2>2, <2>3 DEF Reaching
<1>7. NothingMissed'
  <2>1. \A n \in done : ~ n > seq
    BY DEF Registry, HubTypes
  <2> QED BY <1>1, <1>2, <2>1 DEF NothingMissed
<1> QED BY <1>3, <1>4, <1>5, <1>6, <1>7

(* What is written directly to the connection.                             *)
LEMMA WriteDelivery ==
  ASSUME DeliveryInv, NEW c \in Clients, SendSnapshot(c) \/ ReplayBundle(c)
  PROVE  DeliveryInv'
<1> USE DEF DeliveryInv
<1>1. /\ UNCHANGED <<seq, queue, reg, bundle, pub, base, send, emitted, done, missed>>
      /\ cpc[c] \in Loaded
      /\ \E l \in {"snapshot", "live"} : cpc' = [cpc EXCEPT ![c] = l]
  BY DEF SendSnapshot, ReplayBundle, Loaded
<1>2. wire' = wire \/ \E m \in Messages : wire' = [wire EXCEPT ![c] = Append(@, m)]
  <2>1. Msg("snapshot", 0, 0, "none") \in Messages /\ Msg("bundle", bundle, 0, "none") \in Messages
    BY MsgType DEF HubTypes, Kinds
  <2> QED BY <2>1 DEF SendSnapshot, ReplayBundle
<1>3. /\ wire' \in [Clients -> Seq(Messages)]
      /\ \A d \in Clients : Got(d) \subseteq Got(d)'
  <2>1. CASE wire' = wire
    BY <1>1, <2>1 DEF HubTypes, Got
  <2>2. ASSUME NEW m \in Messages, wire' = [wire EXCEPT ![c] = Append(@, m)]
        PROVE  /\ wire' \in [Clients -> Seq(Messages)]
               /\ \A d \in Clients : Got(d) \subseteq Got(d)'
    <3> DEFINE t == Append(wire[c], m)
    <3>1. t \in Seq(Messages) /\ Seqs(t) = Seqs(wire[c]) \cup {m.seq}
      BY ElemsAppend DEF HubTypes
    <3>2. wire' = [wire EXCEPT ![c] = t]
      BY <2>2
    <3> HIDE DEF t
    <3>3. wire' \in [Clients -> Seq(Messages)] /\ wire'[c] = t
          /\ \A d \in Clients \ {c} : wire'[d] = wire[d]
      BY <3>1, <3>2 DEF HubTypes
    <3> QED BY <1>1, <3>1, <3>3 DEF Got
  <2> QED BY <1>2, <2>1, <2>2
<1>4. /\ cpc' \in [Clients -> Connected \cup {"out", "gone"}]
      /\ \A d \in Clients : cpc'[d] = cpc[d] \/ (cpc[d] \in Loaded /\ cpc'[d] \in Loaded)
  BY <1>1 DEF HubTypes, Connected, Loaded
<1>5. HubTypes'
  BY <1>1, <1>3, <1>4 DEF HubTypes
<1> QED BY <1>1, <1>3, <1>4, <1>5, Growing DEF HubTypes

(* The pump writes a message, or loses it and is gone.                     *)
LEMMA PumpDelivery ==
  ASSUME DeliveryInv, NEW c \in Clients, WritePump(c) \/ WriteFails(c)
  PROVE  DeliveryInv'
<1> USE DEF DeliveryInv
<1> DEFINE m == Head(send[c])
           t == Tail(send[c])
           w == Append(wire[c], m)
<1>1. /\ UNCHANGED <<seq, queue, reg, bundle, pub, cpc, base, emitted, done>>
      /\ send[c] # <<>> /\ send' = [send EXCEPT ![c] = t]
      /\ \/ wire' = [wire EXCEPT ![c] = w] /\ UNCHANGED missed
         \/ missed' = [missed EXCEPT ![c] = @ \cup {m.seq}] /\ UNCHANGED wire
  BY DEF WritePump, WriteFails
<1>2. /\ t \in Seq(Messages) /\ m \in Messages /\ m.seq \in Nat
      /\ Seqs(send[c]) = {m.seq} \cup Seqs(t)
  BY <1>1, ElemsSplit DEF HubTypes, Messages
<1> HIDE DEF m, t
<1>3. w \in Seq(Messages) /\ Seqs(w) = Seqs(wire[c]) \cup {m.seq}
  BY <1>2, ElemsAppend DEF HubTypes
<1> HIDE DEF w
<1>4. send' \in [Clients -> Seq(Messages)] /\ send'[c] = t
      /\ \A d \in Clients \ {c} : send'[d] = send[d]
  BY <1>1, <1>2 DEF HubTypes
<1>5. /\ wire' \in [Clients -> Seq(Messages)] /\ missed' \in [Clients -> SUBSET Nat]
      /\ \A d \in Clients : Got(d) \subseteq Got(d)'
  <2>1. CASE wire' = [wire EXCEPT ![c] = w] /\ UNCHANGED missed
    <3>1. wire' \in [Clients -> Seq(Messages)] /\ wire'[c] = w
          /\ \A d \in Clients \ {c} : wire'[d] = wire[d]
      BY <1>3, <2>1 DEF HubTypes
    <3> QED BY <1>2, <1>3, <1>4, <2>1, <3>1 DEF HubTypes, Got
  <2>2. CASE missed' = [missed EXCEPT ![c] = @ \cup {m.seq}] /\ UNCHANGED wire
    <3>1. missed' \in [Clients -> SUBSET Nat] /\ missed'[c] = missed[c] \cup {m.seq}
          /\ \A d \in Clients \ {c} : missed'[d] = missed[d]
      BY <1>2, <2>2 DEF HubTypes
    <3> QED BY <1>2, <1>4, <2>2, <3>1 DEF HubTypes, Got
  <2> QED BY <1>1, <2>1, <2>2
<1>6. HubTypes'
  BY <1>1, <1>4, <1>5 DEF HubTypes
<1> QED BY <1>1, <1>5, <1>6, Growing DEF HubTypes

LEMMA DisconnectDelivery ==
  ASSUME DeliveryInv, NEW c \in Clients, Disconnect(c)
  PROVE  DeliveryInv'
<1> USE DEF DeliveryInv
<1>1. /\ cpc' = [cpc EXCEPT ![c] = "gone"] /\ reg' = reg \ {c}
      /\ base' = [base EXCEPT ![c] = 0] /\ send' = [send EXCEPT ![c] = <<>>]
      /\ wire' = [wire EXCEPT ![c] = <<>>] /\ missed' = [missed EXCEPT ![c] = {}]
      /\ UNCHANGED <<seq, queue, bundle, pub, emitted, done>>
  BY DEF Disconnect
<1>2. /\ cpc'[c] = "gone"
      /\ \A d \in Clients \ {c} : /\ cpc'[d] = cpc[d] /\ base'[d] = base[d]
                                  /\ wire'[d] = wire[d] /\ send'[d] = send[d]
                                  /\ missed'[d] = missed[d]
  BY <1>1 DEF HubTypes
<1>3. HubTypes'
  <2>1. <<>> \in Seq(Messages)
    OBVIOUS
  <2>2. send' \in [Clients -> Seq(Messages)] /\ wire' \in [Clients -> Seq(Messages)]
    BY <1>1, <2>1 DEF HubTypes
  <2> QED BY <1>1, <2>2 DEF HubTypes
<1>4. Registry'
  BY <1>1, <1>2 DEF Registry, Connected
<1>5. Carried'
  <2>1. \A p \in Publishers : \A d \in pub[p].visited : cpc'[d] # "out"
    BY <1>1, <1>2 DEF Carried, HubTypes, Published
  <2> QED BY <1>1, <2>1 DEF Carried, IsEvent
<1>6. \A d \in Clients \ {c} : Got(d)' = Got(d)
  BY <1>2 DEF Got
<1>7. Reaching'
  BY <1>1, <1>2, <1>6 DEF Reaching, Connected
<1>8. NothingMissed'
  BY <1>1, <1>2 DEF NothingMissed
<1> QED BY <1>3, <1>4, <1>5, <1>7, <1>8

(* The four publishers' messages.                                          *)
LEMMA TakesDelivery ==
  ASSUME DeliveryInv, FanOut \/ Heartbeat \/ EmitAuditCheckpoint \/ EmitBundleActivated
  PROVE  DeliveryInv'
<1> USE DEF DeliveryInv
<1>0. seq + 1 \in Nat /\ 0 \in Nat /\ "none" \in Verdicts \cup {"none"}
  BY DEF HubTypes
<1>1. CASE FanOut
  <2> DEFINE e == Head(queue).ev
             v == Head(queue).verdict
             m == Msg("event", seq + 1, e, v)
  <2>1. queue # <<>> /\ e \in Nat /\ v \in Verdicts
        /\ Tail(queue) \in Seq([ev : Nat, verdict : Verdicts])
    <3>1. queue # <<>> /\ queue \in Seq([ev : Nat, verdict : Verdicts])
      BY <1>1 DEF FanOut, HubTypes
    <3>2. Head(queue) \in [ev : Nat, verdict : Verdicts]
          /\ Tail(queue) \in Seq([ev : Nat, verdict : Verdicts])
      BY <3>1, HeadTailProperties
    <3> QED BY <3>1, <3>2
  <2>2. Take("fanOut", m) /\ queue' = Tail(queue)
        /\ UNCHANGED <<reg, bundle, clientVars, send, emitted, done, missed>>
    BY <1>1 DEF FanOut
  <2> HIDE DEF e, v
  <2>3. m \in Messages /\ m.seq = seq + 1 /\ m.kind = "event"
    <3>1. "event" \in Kinds /\ v \in Verdicts \cup {"none"}
      BY <2>1 DEF Kinds
    <3> QED BY <1>0, <2>1, <3>1, MsgType
  <2> HIDE DEF m
  <2>4. "fanOut" \in Publishers /\ IsEvent(m)
    BY <2>3 DEF Publishers, IsEvent
  <2> QED BY <2>1, <2>2, <2>3, <2>4, TakeDelivery
<1>2. CASE Heartbeat
  <2> DEFINE m == Msg("heartbeat", seq + 1, 0, "none")
  <2>1. m \in Messages /\ m.seq = seq + 1 /\ m.kind = "heartbeat"
    BY <1>0, MsgType DEF Kinds
  <2>2. Take("heartbeat", m)
        /\ UNCHANGED <<queue, reg, bundle, clientVars, send, emitted, done, missed>>
    BY <1>2 DEF Heartbeat
  <2> HIDE DEF m
  <2>3. "heartbeat" \in Publishers /\ ~ IsEvent(m)
    BY <2>1 DEF Publishers, IsEvent
  <2> QED BY <2>1, <2>2, <2>3, TakeDelivery DEF HubTypes
<1>3. CASE EmitAuditCheckpoint
  <2> DEFINE m == Msg("checkpoint", seq + 1, 0, "none")
  <2>1. m \in Messages /\ m.seq = seq + 1 /\ m.kind = "checkpoint"
    BY <1>0, MsgType DEF Kinds
  <2>2. Take("audit", m)
        /\ UNCHANGED <<queue, reg, bundle, clientVars, send, emitted, done, missed>>
    BY <1>3 DEF EmitAuditCheckpoint
  <2> HIDE DEF m
  <2>3. "audit" \in Publishers /\ ~ IsEvent(m)
    BY <2>1 DEF Publishers, IsEvent
  <2> QED BY <2>1, <2>2, <2>3, TakeDelivery DEF HubTypes
<1>4. CASE EmitBundleActivated
  <2> DEFINE m == Msg("bundle", seq + 1, 0, "none")
  <2>1. m \in Messages /\ m.seq = seq + 1 /\ m.kind = "bundle"
    BY <1>0, MsgType DEF Kinds
  <2>2. Take("bundle", m)
        /\ UNCHANGED <<queue, reg, bundle, clientVars, send, emitted, done, missed>>
    BY <1>4 DEF EmitBundleActivated
  <2> HIDE DEF m
  <2>3. "bundle" \in Publishers /\ ~ IsEvent(m)
    BY <2>1 DEF Publishers, IsEvent
  <2> QED BY <2>1, <2>2, <2>3, TakeDelivery DEF HubTypes
<1> QED BY <1>1, <1>2, <1>3, <1>4

(* The messages that go to one client only.                                *)
LEMMA RepliesDelivery ==
  ASSUME DeliveryInv, NEW c \in Clients,
         handlePing(c) \/ \E n \in 1 .. MaxSeq : sendSystemError(c, n)
  PROVE  DeliveryInv'
<1>1. PICK m \in Messages : Offer(c, m)
  <2>1. Msg("pong", 0, 0, "none") \in Messages
    BY MsgType DEF Kinds
  <2>2. \A n \in 1 .. MaxSeq : Msg("error", n, 0, "none") \in Messages
    BY MsgType, HubAssumption DEF Kinds
  <2> QED BY <2>1, <2>2 DEF handlePing, sendSystemError
<1>2. UNCHANGED <<seq, queue, reg, bundle, pub, clientVars, emitted, done>>
  BY DEF handlePing, sendSystemError
<1> QED BY <1>1, <1>2, OfferDelivery

LEMMA DeliveryStep == DeliveryInv /\ [Next]_vars => DeliveryInv'
<1> SUFFICES ASSUME DeliveryInv, [Next]_vars PROVE DeliveryInv'
  OBVIOUS
<1>1. ASSUME NEW v \in Verdicts, Emit(v) PROVE DeliveryInv'
  <2>1. /\ UNCHANGED <<seq, reg, bundle, pub, cpc, base, wire, send, done, missed>>
        /\ emitted \in Nat /\ emitted' = emitted + 1
        /\ queue \in Seq([ev : Nat, verdict : Verdicts])
        /\ queue' = queue \/ queue' = Append(queue, [ev |-> emitted + 1, verdict |-> v])
    BY <1>1 DEF Emit, clientVars, DeliveryInv, HubTypes
  <2>2. queue' \in Seq([ev : Nat, verdict : Verdicts])
    <3> DEFINE Decisions == [ev : Nat, verdict : Verdicts]
               e == [ev |-> emitted + 1, verdict |-> v]
    <3>1. e \in Decisions /\ queue \in Seq(Decisions)
          /\ (queue' = queue \/ queue' = Append(queue, e))
      BY <2>1
    <3> HIDE DEF Decisions, e
    <3>2. queue' \in Seq(Decisions)
      BY <3>1, AppendProperties
    <3> QED BY <3>2 DEF Decisions
  <2>3. HubTypes'
    BY <2>1, <2>2 DEF DeliveryInv, HubTypes
  <2>4. \A c \in Clients : Got(c) \subseteq Got(c)'
    BY <2>1 DEF Got
  <2>5. seq' \in Nat /\ seq <= seq' /\ pub' \in [Publishers -> Published]
    BY <2>1 DEF DeliveryInv, HubTypes
  <2>6. Registry' /\ Carried' /\ Reaching' /\ NothingMissed'
    BY <2>1, <2>4, <2>5, Growing
  <2> QED BY <2>3, <2>6 DEF DeliveryInv
<1>2. ASSUME NEW p \in Publishers, Publish(p) PROVE DeliveryInv'
  <2>1. ASSUME NEW c \in Clients, Deliver(p, c) PROVE DeliveryInv'
    <3>1. pub[p].msg \in Messages
      BY DEF DeliveryInv, HubTypes, Published
    <3> QED BY <2>1, <3>1, OfferDelivery DEF Deliver
  <2> QED BY <1>2, <2>1, RangeDelivery, EndRangeDelivery DEF Publish
<1>3. ASSUME NEW c \in Clients, Serve(c) PROVE DeliveryInv'
  <2>1. CASE handleBackfill(c) \/ \E f \in SUBSET Verdicts : handleSubscribeFilter(c, f)
    <3>1. /\ UNCHANGED <<queue, reg, bundle, pub, cpc, base, wire, send, emitted, done, missed>>
          /\ seq' = seq \/ seq' = seq + 1
      BY <2>1 DEF handleBackfill, handleSubscribeFilter, clientVars
    <3>2. seq' \in Nat /\ seq <= seq'
      BY <3>1 DEF DeliveryInv, HubTypes
    <3>3. HubTypes'
      BY <3>1, <3>2 DEF DeliveryInv, HubTypes
    <3>4. \A d \in Clients : Got(d)' = Got(d)
      BY <3>1 DEF Got
    <3> QED BY <3>1, <3>2, <3>3, <3>4, Growing DEF DeliveryInv, HubTypes
  <2> QED BY <1>3, <2>1, StoreDelivery, LoadDelivery, WriteDelivery, PumpDelivery,
             DisconnectDelivery, RepliesDelivery DEF Serve
<1>4. CASE UNCHANGED vars
  BY <1>4 DEF vars, clientVars, DeliveryInv, HubTypes, Registry, Carried, Reaching, Got,
              NothingMissed
<1> QED BY <1>1, <1>2, <1>3, <1>4, TakesDelivery DEF Next

(* However registration, snapshot, broadcasts and failures interleave, for *)
(* any number of clients and any capacities: a client misses no message    *)
(* without a full channel or a failed write (server.go, handleWebSocket    *)
(* and broadcast).                                                         *)
THEOREM NothingMissedHolds == Spec => []NothingMissed
<1>1. DeliveryInv => NothingMissed
  BY DEF DeliveryInv
<1> QED BY <1>1, DeliveryInit, DeliveryStep, PTL DEF Spec

-----------------------------------------------------------------------------
(* Order on a channel: at the end something later, or at the front what is *)
(* taken from the next one.                                                *)
LEMMA InOrderAppend ==
  ASSUME NEW s \in Seq(Messages), NEW x \in Messages, InOrder(s),
         \A a \in Elems(s) : IsEvent(a) /\ IsEvent(x) => Before(a, x)
  PROVE  InOrder(Append(s, x))
<1> DEFINE t == Append(s, x)
<1>1. /\ t \in Seq(Messages) /\ Len(t) = Len(s) + 1 /\ t[Len(s) + 1] = x
      /\ \A i \in 1 .. Len(s) : t[i] = s[i] /\ s[i] \in Elems(s)
  BY DEF Elems
<1> HIDE DEF t
<1>2. Len(s) \in Nat
  OBVIOUS
<1> SUFFICES ASSUME NEW m \in 1 .. Len(t), NEW n \in 1 .. Len(t), m < n,
                    IsEvent(t[m]), IsEvent(t[n])
             PROVE  Before(t[m], t[n])
  BY DEF InOrder, t
<1>3. m \in 1 .. Len(s)
  BY <1>1, <1>2
<1>4. CASE n \in 1 .. Len(s)
  BY <1>1, <1>3, <1>4 DEF InOrder
<1>5. CASE n = Len(s) + 1
  BY <1>1, <1>3, <1>5
<1> QED BY <1>1, <1>2, <1>4, <1>5

LEMMA InOrderTail ==
  ASSUME NEW s \in Seq(Messages), s # <<>>, InOrder(s)
  PROVE  /\ InOrder(Tail(s))
         /\ \A b \in Elems(Tail(s)) : IsEvent(Head(s)) /\ IsEvent(b) => Before(Head(s), b)
<1> DEFINE t == Tail(s)
<1>1. /\ t \in Seq(Messages) /\ Len(s) \in Nat \ {0} /\ Len(t) = Len(s) - 1
      /\ Head(s) = s[1] /\ \A i \in 1 .. Len(t) : t[i] = s[i + 1]
  OBVIOUS
<1> HIDE DEF t
<1>2. 1 \in 1 .. Len(s) /\ \A i \in 1 .. Len(t) : i + 1 \in 1 .. Len(s) /\ 1 < i + 1
  BY <1>1
<1>3. InOrder(t)
  <2> SUFFICES ASSUME NEW m \in 1 .. Len(t), NEW n \in 1 .. Len(t), m < n,
                      IsEvent(t[m]), IsEvent(t[n])
               PROVE  Before(t[m], t[n])
    BY DEF InOrder
  <2>1. m + 1 < n + 1
    BY <1>1
  <2> QED BY <1>1, <1>2, <2>1 DEF InOrder
<1>4. ASSUME NEW b \in Elems(t), IsEvent(Head(s)), IsEvent(b) PROVE Before(Head(s), b)
  <2>1. PICK i \in 1 .. Len(t) : b = t[i]
    BY DEF Elems
  <2> QED BY <1>1, <1>2, <1>4, <2>1 DEF InOrder
<1> QED BY <1>3, <1>4 DEF t

LEMMA LinedOffer ==
  ASSUME NEW w \in Seq(Messages), NEW s \in Seq(Messages), NEW x \in Messages, Lined(w, s),
         \A a \in Elems(w) \cup Elems(s) : IsEvent(a) /\ IsEvent(x) => Before(a, x)
  PROVE  Lined(w, Append(s, x))
<1>1. InOrder(Append(s, x))
  BY InOrderAppend DEF Lined
<1>2. Elems(Append(s, x)) = Elems(s) \cup {x}
  BY ElemsAppend
<1> QED BY <1>1, <1>2 DEF Lined

LEMMA LinedDrop ==
  ASSUME NEW w \in Seq(Messages), NEW s \in Seq(Messages), s # <<>>, Lined(w, s)
  PROVE  Lined(w, Tail(s))
<1>1. InOrder(Tail(s))
  BY InOrderTail DEF Lined
<1>2. Elems(Tail(s)) \subseteq Elems(s)
  BY ElemsSplit
<1> QED BY <1>1, <1>2 DEF Lined

LEMMA LinedWrite ==
  ASSUME NEW w \in Seq(Messages), NEW s \in Seq(Messages), s # <<>>, Lined(w, s)
  PROVE  Lined(Append(w, Head(s)), Tail(s))
<1>1. Head(s) \in Messages /\ Elems(s) = {Head(s)} \cup Elems(Tail(s))
  BY ElemsSplit
<1>2. InOrder(Append(w, Head(s)))
  BY <1>1, InOrderAppend DEF Lined
<1>3. Elems(Append(w, Head(s))) = Elems(w) \cup {Head(s)}
  BY <1>1, ElemsAppend
<1>4. InOrder(Tail(s))
      /\ \A b \in Elems(Tail(s)) : IsEvent(Head(s)) /\ IsEvent(b) => Before(Head(s), b)
  BY InOrderTail DEF Lined
<1> QED BY <1>1, <1>2, <1>3, <1>4 DEF Lined

(* What handleWebSocket writes itself is no event.                         *)
LEMMA LinedOwn ==
  ASSUME NEW w \in Seq(Messages), NEW s \in Seq(Messages), NEW x \in Messages, Lined(w, s),
         ~ IsEvent(x)
  PROVE  Lined(Append(w, x), s)
<1>1. InOrder(Append(w, x))
  BY InOrderAppend DEF Lined
<1>2. Elems(Append(w, x)) = Elems(w) \cup {x}
  BY ElemsAppend
<1> QED BY <1>1, <1>2 DEF Lined

LEMMA LinedConcat ==
  ASSUME NEW w \in Seq(Messages), NEW s \in Seq(Messages), Lined(w, s)
  PROVE  InOrder(w \o s)
<1> DEFINE t == w \o s
<1>1. /\ t \in Seq(Messages) /\ Len(t) = Len(w) + Len(s)
      /\ \A i \in 1 .. Len(w) + Len(s) : t[i] = IF i <= Len(w) THEN w[i] ELSE s[i - Len(w)]
  BY ConcatProperties
<1> HIDE DEF t
<1>0. Len(w) \in Nat /\ Len(s) \in Nat
  OBVIOUS
<1>2. \A i \in 1 .. Len(t) : i > Len(w) => i - Len(w) \in 1 .. Len(s) /\ t[i] = s[i - Len(w)]
  BY <1>0, <1>1
<1>3. \A i \in 1 .. Len(t) : i <= Len(w) => i \in 1 .. Len(w) /\ t[i] = w[i]
  BY <1>0, <1>1
<1> SUFFICES ASSUME NEW m \in 1 .. Len(t), NEW n \in 1 .. Len(t), m < n,
                    IsEvent(t[m]), IsEvent(t[n])
             PROVE  Before(t[m], t[n])
  BY DEF InOrder, t
<1>4. CASE n <= Len(w)
  <2>1. m <= Len(w)
    BY <1>0, <1>1, <1>4
  <2> QED BY <1>3, <1>4, <2>1 DEF Lined, InOrder
<1>5. CASE m > Len(w)
  <2>1. n > Len(w) /\ m - Len(w) < n - Len(w)
    BY <1>0, <1>1, <1>5
  <2> QED BY <1>2, <1>5, <2>1 DEF Lined, InOrder
<1>6. CASE m <= Len(w) /\ n > Len(w)
  <2>1. t[m] \in Elems(w) /\ t[n] \in Elems(s)
    BY <1>2, <1>3, <1>6 DEF Elems
  <2> QED BY <2>1 DEF Lined
<1> QED BY <1>0, <1>1, <1>4, <1>5, <1>6

LEMMA OrderInit == Init => OrderInv
<1> SUFFICES ASSUME Init PROVE OrderInv
  OBVIOUS
<1>1. pub["fanOut"].pc = "idle"
  BY IdleType DEF Init, Publishers
<1>2. queue = <<>> /\ Len(queue) = 0
  BY DEF Init
<1>3. Queued
  BY <1>1, <1>2 DEF Queued
<1>4. ASSUME NEW c \in Clients PROVE Orderly(c)
  <2>1. wire[c] = <<>> /\ send[c] = <<>> /\ cpc[c] = "out" /\ Len(wire[c]) = 0 /\ Len(send[c]) = 0
    BY DEF Init
  <2>2. Elems(wire[c]) = {} /\ Elems(send[c]) = {}
    BY <2>1 DEF Elems
  <2> QED BY <2>1, <2>2 DEF Orderly, Lined, InOrder, Trailing, SnapshotFirst
<1> QED BY <1>3, <1>4 DEF OrderInv

(* A step of a publisher moves no message to or from a client.             *)
LEMMA FrontOrder ==
  ASSUME OrderInv, UNCHANGED <<wire, send, cpc>>, HubTypes, Queued',
         \A c \in Clients, a \in Messages : IsEvent(a) /\ Behind(c, a) => Behind(c, a)'
  PROVE  OrderInv'
<1> SUFFICES ASSUME NEW c \in Clients PROVE Orderly(c)'
  BY DEF OrderInv
<1>0. Orderly(c)
  BY DEF OrderInv
<1>1. Elems(wire[c]) \subseteq Messages /\ Elems(send[c]) \subseteq Messages
  BY ElemsType DEF HubTypes
<1>2. Trailing(c)'
  BY <1>0, <1>1 DEF Orderly, Trailing
<1> QED BY <1>0, <1>2 DEF Orderly, SnapshotFirst

LEMMA EmitOrder ==
  ASSUME OrderInv, HubTypes, NEW v \in Verdicts, Emit(v)
  PROVE  OrderInv'
<1> DEFINE f == pub["fanOut"]
           e == [ev |-> emitted + 1, verdict |-> v]
           D == [ev : Nat, verdict : Verdicts]
<1>1. /\ UNCHANGED <<wire, send, cpc, seq, pub>> /\ emitted' = emitted + 1 /\ emitted \in Nat
      /\ e \in D /\ e.ev = emitted + 1 /\ queue \in Seq(D)
      /\ queue' = queue \/ queue' = Append(queue, e)
  BY DEF Emit, clientVars, HubTypes
<1> HIDE DEF e
<1>2. /\ Len(queue') \in Nat /\ Len(queue) \in Nat
      /\ \A i \in 1 .. Len(queue) : queue[i].ev \in Nat
      /\ \A i \in 1 .. Len(queue') :
           (i \in 1 .. Len(queue) /\ queue'[i] = queue[i]) \/ (i = Len(queue) + 1 /\ queue'[i] = e)
  <2>1. \A i \in 1 .. Len(queue) : queue[i] \in D
    <3> HIDE DEF D
    <3> QED BY <1>1
  <2>2. Len(queue) \in Nat
    BY <1>1
  <2>3. CASE queue' = queue
    BY <2>1, <2>2, <2>3
  <2>4. CASE queue' = Append(queue, e)
    <3> HIDE DEF D
    <3>1. Len(queue') = Len(queue) + 1 /\ queue'[Len(queue) + 1] = e
          /\ \A i \in 1 .. Len(queue) : queue'[i] = queue[i]
      BY <1>1, <2>4, AppendProperties
    <3> QED BY <2>1, <2>2, <3>1 DEF D
  <2> QED BY <1>1, <2>3, <2>4
<1>3. f.msg.ev \in Nat /\ f = pub["fanOut"]
  BY DEF HubTypes, Published, Messages, Publishers
<1> HIDE DEF f, D
<1>4. Queued'
  <2>1. \A i, j \in 1 .. Len(queue') : i < j => queue'[i].ev < queue'[j].ev
    BY <1>1, <1>2 DEF OrderInv, Queued
  <2>2. \A i \in 1 .. Len(queue') : queue'[i].ev <= emitted'
    BY <1>1, <1>2 DEF OrderInv, Queued
  <2>3. f.pc # "idle" =>
          f.msg.ev <= emitted' /\ \A i \in 1 .. Len(queue') : f.msg.ev < queue'[i].ev
    <3> SUFFICES ASSUME f.pc # "idle"
                 PROVE  f.msg.ev <= emitted' /\ \A i \in 1 .. Len(queue') : f.msg.ev < queue'[i].ev
      OBVIOUS
    <3>1. f.msg.ev <= emitted /\ \A i \in 1 .. Len(queue) : f.msg.ev < queue[i].ev
      BY <1>3 DEF OrderInv, Queued
    <3>2. f.msg.ev <= emitted' /\ f.msg.ev < e.ev
      BY <1>1, <1>3, <3>1
    <3> QED BY <1>2, <3>1, <3>2
  <2> QED BY <1>1, <1>3, <2>1, <2>2, <2>3 DEF Queued
<1>5. ASSUME NEW c \in Clients, NEW a \in Messages, Behind(c, a) PROVE Behind(c, a)'
  <2>1. a.ev \in Nat /\ a.ev <= emitted
    BY <1>5 DEF Messages, Behind
  <2>2. a.ev <= emitted' /\ a.ev < e.ev
    BY <1>1, <2>1
  <2>3. \A i \in 1 .. Len(queue) : a.ev < queue[i].ev
    BY <1>5 DEF Behind
  <2>4. \A i \in 1 .. Len(queue') : a.ev < queue'[i].ev
    BY <1>2, <2>2, <2>3
  <2> QED BY <1>1, <1>5, <2>2, <2>4 DEF Behind, Before
<1> QED BY <1>1, <1>4, <1>5, FrontOrder

(* The fan-out takes the first event of the queue, which is after all that *)
(* was sent and before what stays.                                         *)
LEMMA FanOutOrder ==
  ASSUME OrderInv, DeliveryInv, FanOut
  PROVE  OrderInv'
<1> USE DEF DeliveryInv
<1> DEFINE e == Head(queue).ev
           v == Head(queue).verdict
           m == Msg("event", seq + 1, e, v)
           D == [ev : Nat, verdict : Verdicts]
<1>1. /\ queue # <<>> /\ queue' = Tail(queue) /\ queue \in Seq(D)
      /\ pub["fanOut"].pc = "idle" /\ seq' = seq + 1 /\ seq \in Nat /\ emitted \in Nat
      /\ pub' = [pub EXCEPT !["fanOut"] = [@ EXCEPT !.pc = "taken", !.msg = m]]
      /\ UNCHANGED <<wire, send, cpc, emitted>>
  BY DEF FanOut, Take, clientVars, HubTypes
<1>2. pub'["fanOut"].pc = "taken" /\ pub'["fanOut"].msg = m
  BY <1>1 DEF HubTypes, Publishers, Published
<1>3. m.ev = e /\ m.seq = seq + 1
  BY DEF Msg
<1>4. /\ Len(queue) \in Nat \ {0} /\ Head(queue) = queue[1]
      /\ Len(queue') = Len(queue) - 1
      /\ \A i \in 1 .. Len(queue') : queue'[i] = queue[i + 1]
      /\ \A i \in 1 .. Len(queue) : queue[i] \in D
  <2> HIDE DEF D
  <2> QED BY <1>1, HeadTailProperties
<1>5. /\ 1 \in 1 .. Len(queue) /\ e = queue[1].ev
      /\ \A i \in 1 .. Len(queue') : i + 1 \in 1 .. Len(queue) /\ 1 < i + 1
      /\ \A i \in 1 .. Len(queue) : queue[i].ev \in Nat
  BY <1>4
<1> HIDE DEF e, v, m, D
<1>6. Queued'
  <2>1. \A i, j \in 1 .. Len(queue') : i < j => queue'[i].ev < queue'[j].ev
    BY <1>4, <1>5 DEF OrderInv, Queued
  <2>2. \A i \in 1 .. Len(queue') : queue'[i].ev <= emitted'
    BY <1>1, <1>4, <1>5 DEF OrderInv, Queued
  <2>3. m.ev <= emitted' /\ \A i \in 1 .. Len(queue') : m.ev < queue'[i].ev
    BY <1>1, <1>3, <1>4, <1>5 DEF OrderInv, Queued
  <2> QED BY <1>2, <2>1, <2>2, <2>3 DEF Queued
<1>7. ASSUME NEW c \in Clients, NEW a \in Messages, Behind(c, a) PROVE Behind(c, a)'
  <2>1. a.ev \in Nat /\ a.seq \in Nat /\ a.seq <= seq /\ a.ev <= emitted
    BY <1>7 DEF Messages, Behind
  <2>2. a.ev < m.ev
    BY <1>3, <1>5, <1>7 DEF Behind
  <2>3. a.seq < m.seq /\ a.seq <= seq'
    BY <1>1, <1>3, <2>1
  <2>4. \A i \in 1 .. Len(queue') : a.ev < queue'[i].ev
    BY <1>4, <1>5, <1>7 DEF Behind
  <2> QED BY <1>1, <1>2, <2>1, <2>2, <2>3, <2>4 DEF Behind, Before
<1> QED BY <1>1, <1>6, <1>7, FrontOrder

(* The other steps that move no message.                                   *)
LEMMA CountOrder ==
  ASSUME OrderInv, HubTypes, UNCHANGED <<wire, send, cpc, emitted, queue>>,
         seq' \in Nat, seq <= seq',
         \/ pub'["fanOut"] = Idle
         \/ /\ pub["fanOut"].pc # "idle" \/ pub'["fanOut"].pc = "idle"
            /\ pub'["fanOut"].msg = pub["fanOut"].msg
            /\ pub'["fanOut"].visited = pub["fanOut"].visited
  PROVE  OrderInv'
<1>1. Queued'
  BY IdleType DEF OrderInv, Queued
<1>2. ASSUME NEW c \in Clients, NEW a \in Messages, Behind(c, a) PROVE Behind(c, a)'
  <2>1. a.seq \in Nat /\ a.seq <= seq /\ seq \in Nat
    BY <1>2 DEF Messages, Behind, HubTypes
  <2>2. a.seq <= seq'
    BY <2>1
  <2> QED BY <1>2, <2>2, IdleType DEF Behind, Before
<1> QED BY <1>1, <1>2, FrontOrder

(* A step that concerns one client.                                        *)
LEMMA ClientOrder ==
  ASSUME OrderInv, NEW c \in Clients, UNCHANGED <<seq, emitted, queue>>,
         pub'["fanOut"].pc = pub["fanOut"].pc, pub'["fanOut"].msg = pub["fanOut"].msg,
         pub["fanOut"].visited \subseteq pub'["fanOut"].visited,
         \A d \in Clients \ {c} : wire'[d] = wire[d] /\ send'[d] = send[d] /\ cpc'[d] = cpc[d],
         Lined(wire'[c], send'[c]), SnapshotFirst(c)',
         \A a \in Elems(wire'[c]) \cup Elems(send'[c]) :
           IsEvent(a) => a \in Elems(wire[c]) \cup Elems(send[c]) \/ Behind(c, a)'
  PROVE  OrderInv'
<1>1. Queued'
  BY DEF OrderInv, Queued
<1>2. \A d, a : Behind(d, a) => Behind(d, a)'
  BY DEF Behind, Before
<1>3. Orderly(c)'
  BY <1>2 DEF OrderInv, Orderly, Trailing
<1>4. ASSUME NEW d \in Clients \ {c} PROVE Orderly(d)'
  BY <1>2 DEF OrderInv, Orderly, Trailing, SnapshotFirst
<1> QED BY <1>1, <1>3, <1>4 DEF OrderInv

(* A broadcast, a pong and a system error at the end of a channel.         *)
LEMMA OfferOrder ==
  ASSUME OrderInv, DeliveryInv, NEW c \in Clients, NEW m \in Messages, Offer(c, m),
         UNCHANGED <<seq, queue, clientVars, emitted>>, m.kind # "snapshot",
         pub'["fanOut"].pc = pub["fanOut"].pc, pub'["fanOut"].msg = pub["fanOut"].msg,
         pub["fanOut"].visited \subseteq pub'["fanOut"].visited,
         IsEvent(m) => /\ pub["fanOut"].pc # "idle" /\ m = pub["fanOut"].msg
                       /\ c \notin pub["fanOut"].visited /\ c \in pub'["fanOut"].visited
  PROVE  OrderInv'
<1> USE DEF DeliveryInv
<1>1. /\ UNCHANGED <<wire, cpc>>
      /\ \A d \in Clients : send'[d] # send[d] => d = c /\ send'[d] = Append(send[d], m)
  BY OfferEffect DEF clientVars
<1>2. wire[c] \in Seq(Messages) /\ send[c] \in Seq(Messages)
  BY DEF HubTypes
<1>3. Orderly(c)
  BY DEF OrderInv
<1>4. \A a \in Elems(wire[c]) \cup Elems(send[c]) : IsEvent(a) /\ IsEvent(m) => Before(a, m)
  BY <1>3 DEF Orderly, Trailing, Behind
<1>5. Lined(wire[c], send'[c]) /\ Elems(send'[c]) \subseteq Elems(send[c]) \cup {m}
  <2>1. CASE send'[c] = send[c]
    BY <1>3, <2>1 DEF Orderly
  <2>2. CASE send'[c] = Append(send[c], m)
    <3>1. Lined(wire[c], Append(send[c], m))
      BY <1>2, <1>3, <1>4, LinedOffer DEF Orderly
    <3>2. Elems(Append(send[c], m)) = Elems(send[c]) \cup {m}
      BY <1>2, ElemsAppend
    <3> QED BY <2>2, <3>1, <3>2
  <2> QED BY <1>1, <2>1, <2>2
<1>6. SnapshotFirst(c)'
  BY <1>1, <1>3, <1>5 DEF Orderly, SnapshotFirst
<1>7. IsEvent(m) => Behind(c, m)'
  <2> SUFFICES ASSUME IsEvent(m) PROVE Behind(c, m)'
    OBVIOUS
  <2>1. m.seq <= seq
    BY DEF Carried, Publishers
  <2>2. m.ev <= emitted /\ \A i \in 1 .. Len(queue) : m.ev < queue[i].ev
    BY DEF OrderInv, Queued
  <2> QED BY <2>1, <2>2 DEF Behind
<1> QED BY <1>1, <1>5, <1>6, <1>7, ClientOrder

LEMMA DeliverOrder ==
  ASSUME OrderInv, DeliveryInv, NEW p \in Publishers, NEW c \in Clients, Deliver(p, c)
  PROVE  OrderInv'
<1> DEFINE m == pub[p].msg
<1>1. /\ pub[p].pc = "range" /\ c \notin pub[p].visited /\ Offer(c, m)
      /\ pub' = [pub EXCEPT ![p].visited = @ \cup {c}]
      /\ UNCHANGED <<seq, queue, clientVars, emitted>>
  BY DEF Deliver
<1>2. m \in Messages /\ m.kind # "snapshot" /\ (IsEvent(m) <=> p = "fanOut")
  BY <1>1 DEF DeliveryInv, HubTypes, Published, Carried
<1>3. /\ pub'["fanOut"].pc = pub["fanOut"].pc /\ pub'["fanOut"].msg = pub["fanOut"].msg
      /\ pub["fanOut"].visited \subseteq pub'["fanOut"].visited
      /\ p = "fanOut" => c \in pub'["fanOut"].visited
  <2>1. CASE p = "fanOut"
    BY <1>1, <2>1 DEF DeliveryInv, HubTypes, Published, Publishers
  <2>2. CASE p # "fanOut"
    BY <1>1, <2>2 DEF DeliveryInv, HubTypes, Publishers
  <2> QED BY <2>1, <2>2
<1>4. IsEvent(m) => /\ pub["fanOut"].pc # "idle" /\ m = pub["fanOut"].msg
                    /\ c \notin pub["fanOut"].visited /\ c \in pub'["fanOut"].visited
  BY <1>1, <1>2, <1>3
<1> HIDE DEF m
<1> QED BY <1>1, <1>2, <1>3, <1>4, OfferOrder

LEMMA RepliesOrder ==
  ASSUME OrderInv, DeliveryInv, NEW c \in Clients,
         handlePing(c) \/ \E n \in 1 .. MaxSeq : sendSystemError(c, n)
  PROVE  OrderInv'
<1>1. PICK m \in Messages : Offer(c, m) /\ m.kind \in {"pong", "error"}
  <2>1. Msg("pong", 0, 0, "none") \in Messages /\ Msg("pong", 0, 0, "none").kind = "pong"
    BY MsgType DEF Kinds
  <2>2. \A n \in 1 .. MaxSeq : /\ Msg("error", n, 0, "none") \in Messages
                               /\ Msg("error", n, 0, "none").kind = "error"
    BY MsgType, HubAssumption DEF Kinds
  <2> QED BY <2>1, <2>2 DEF handlePing, sendSystemError
<1>2. UNCHANGED <<seq, queue, pub, clientVars, emitted>>
  BY DEF handlePing, sendSystemError
<1>3. m.kind # "snapshot" /\ ~ IsEvent(m)
  BY <1>1 DEF IsEvent
<1> QED BY <1>1, <1>2, <1>3, OfferOrder

(* The snapshot, and the bundle event behind it.                           *)
LEMMA WriteOrder ==
  ASSUME OrderInv, DeliveryInv, NEW c \in Clients, SendSnapshot(c) \/ ReplayBundle(c)
  PROVE  OrderInv'
<1> USE DEF DeliveryInv
<1>1. UNCHANGED <<seq, emitted, queue, pub, send>>
      /\ \A d \in Clients \ {c} : wire'[d] = wire[d] /\ cpc'[d] = cpc[d]
  BY DEF SendSnapshot, ReplayBundle, HubTypes
<1>2. wire[c] \in Seq(Messages) /\ send[c] \in Seq(Messages) /\ Orderly(c)
  BY DEF HubTypes, OrderInv
<1>3. ASSUME NEW m \in Messages, ~ IsEvent(m), wire'[c] = Append(wire[c], m), SnapshotFirst(c)'
      PROVE  OrderInv'
  <2>1. Lined(wire'[c], send[c]) /\ Elems(wire'[c]) = Elems(wire[c]) \cup {m}
    BY <1>2, <1>3, LinedOwn, ElemsAppend DEF Orderly
  <2> QED BY <1>1, <1>3, <2>1, ClientOrder
<1>4. CASE SendSnapshot(c)
  <2> DEFINE m == Msg("snapshot", 0, 0, "none")
  <2>1. m \in Messages /\ m.kind = "snapshot"
    BY MsgType DEF Kinds
  <2>2. /\ wire'[c] = Append(wire[c], m) /\ cpc'[c] = "snapshot" /\ wire[c] = <<>>
    BY <1>2, <1>4 DEF SendSnapshot, HubTypes, Orderly, SnapshotFirst
  <2> HIDE DEF m
  <2>3. Len(wire'[c]) = 1 /\ wire'[c][1] = m /\ wire'[c] # <<>>
    BY <2>1, <2>2
  <2>4. SnapshotFirst(c)'
    BY <1>1, <1>2, <2>1, <2>2, <2>3 DEF Orderly, SnapshotFirst
  <2>5. ~ IsEvent(m)
    BY <2>1 DEF IsEvent
  <2> QED BY <1>3, <2>1, <2>2, <2>4, <2>5
<1>5. CASE ReplayBundle(c) /\ wire' = wire
  <2>1. cpc[c] = "snapshot" /\ cpc'[c] = "live"
    BY <1>5 DEF ReplayBundle, HubTypes
  <2>2. SnapshotFirst(c)'
    BY <1>1, <1>2, <1>5, <2>1 DEF Orderly, SnapshotFirst
  <2> QED BY <1>1, <1>2, <1>5, <2>2, ClientOrder DEF Orderly
<1>6. CASE ReplayBundle(c) /\ wire' # wire
  <2> DEFINE m == Msg("bundle", bundle, 0, "none")
  <2>1. m \in Messages /\ m.kind = "bundle"
    BY MsgType DEF Kinds, HubTypes
  <2>2. wire'[c] = Append(wire[c], m) /\ cpc'[c] = "live" /\ wire[c] # <<>>
    BY <1>2, <1>6 DEF ReplayBundle, HubTypes, Orderly, SnapshotFirst
  <2> HIDE DEF m
  <2>3. /\ Len(wire'[c]) = Len(wire[c]) + 1 /\ Len(wire[c]) \in Nat \ {0}
        /\ wire'[c][Len(wire[c]) + 1] = m /\ wire'[c] # <<>>
        /\ \A i \in 1 .. Len(wire[c]) : wire'[c][i] = wire[c][i]
    BY <1>2, <2>1, <2>2
  <2>4. SnapshotFirst(c)'
    BY <1>1, <1>2, <2>1, <2>2, <2>3 DEF Orderly, SnapshotFirst
  <2>5. ~ IsEvent(m)
    BY <2>1 DEF IsEvent
  <2> QED BY <1>3, <2>1, <2>2, <2>4, <2>5
<1> QED BY <1>4, <1>5, <1>6

(* The pump moves the first message of the channel to the wire, or drops   *)
(* it.                                                                     *)
LEMMA PumpOrder ==
  ASSUME OrderInv, DeliveryInv, NEW c \in Clients, WritePump(c) \/ WriteFails(c)
  PROVE  OrderInv'
<1> USE DEF DeliveryInv
<1> DEFINE m == Head(send[c])
           t == Tail(send[c])
           w == Append(wire[c], m)
<1>1. /\ UNCHANGED <<seq, emitted, queue, pub, cpc>>
      /\ cpc[c] = "live" /\ send[c] # <<>> /\ send' = [send EXCEPT ![c] = t]
      /\ wire' = [wire EXCEPT ![c] = w] \/ wire' = wire
  BY DEF WritePump, WriteFails
<1>2. wire[c] \in Seq(Messages) /\ send[c] \in Seq(Messages) /\ Orderly(c)
  BY DEF HubTypes, OrderInv
<1>3. t \in Seq(Messages) /\ m \in Messages /\ Elems(send[c]) = {m} \cup Elems(t)
  BY <1>1, <1>2, ElemsSplit
<1>4. Lined(w, t) /\ Lined(wire[c], t)
  BY <1>1, <1>2, LinedWrite, LinedDrop DEF Orderly
<1> HIDE DEF m, t
<1>5. /\ Elems(w) = Elems(wire[c]) \cup {m}
      /\ Len(w) = Len(wire[c]) + 1 /\ Len(wire[c]) \in Nat /\ w # <<>>
      /\ w[Len(wire[c]) + 1] = m /\ \A i \in 1 .. Len(wire[c]) : w[i] = wire[c][i]
  BY <1>2, <1>3, ElemsAppend, AppendProperties
<1> HIDE DEF w
<1>6. send'[c] = t /\ \A d \in Clients \ {c} : send'[d] = send[d]
  BY <1>1 DEF HubTypes
<1>7. (wire'[c] = w \/ wire'[c] = wire[c]) /\ \A d \in Clients \ {c} : wire'[d] = wire[d]
  BY <1>1 DEF HubTypes
<1>8. Lined(wire'[c], send'[c])
  BY <1>4, <1>6, <1>7
<1>9. SnapshotFirst(c)'
  <2>1. wire[c] # <<>> /\ Len(wire[c]) # 0
    BY <1>1, <1>2 DEF Orderly, SnapshotFirst
  <2>2. m.kind # "snapshot" /\ \A b \in Elems(t) : b.kind # "snapshot"
    BY <1>2, <1>3 DEF Orderly, SnapshotFirst
  <2>3. \A n \in 1 .. Len(wire[c]) : wire[c][n].kind = "snapshot" <=> n = 1
    BY <1>2 DEF Orderly, SnapshotFirst
  <2>4. \A n \in 1 .. Len(wire'[c]) : wire'[c][n].kind = "snapshot" <=> n = 1
    <3>1. CASE wire'[c] = wire[c]
      BY <2>3, <3>1
    <3>2. CASE wire'[c] = w
      BY <1>5, <2>1, <2>2, <2>3, <3>2
    <3> QED BY <1>7, <3>1, <3>2
  <2>5. wire'[c] # <<>> /\ cpc'[c] = "live"
    BY <1>1, <1>5, <1>7, <2>1
  <2> QED BY <1>6, <2>2, <2>4, <2>5 DEF SnapshotFirst
<1>10. Elems(wire'[c]) \cup Elems(send'[c]) \subseteq Elems(wire[c]) \cup Elems(send[c])
  BY <1>3, <1>5, <1>6, <1>7
<1> QED BY <1>1, <1>6, <1>7, <1>8, <1>9, <1>10, ClientOrder

(* Registration sends nothing, and a client that leaves is forgotten.      *)
LEMMA ComeAndGoOrder ==
  ASSUME OrderInv, DeliveryInv, NEW c \in Clients,
         Store(c) \/ LoadSequence(c) \/ Disconnect(c)
  PROVE  OrderInv'
<1> USE DEF DeliveryInv
<1>1. UNCHANGED <<seq, emitted, queue, pub>>
      /\ \A d \in Clients \ {c} : wire'[d] = wire[d] /\ send'[d] = send[d] /\ cpc'[d] = cpc[d]
  BY DEF Store, LoadSequence, Disconnect, HubTypes
<1>2. Orderly(c)
  BY DEF OrderInv
<1>3. CASE Store(c) \/ LoadSequence(c)
  <2>1. UNCHANGED <<wire, send>> /\ cpc[c] \in {"out", "stored"} /\ cpc'[c] \in {"stored", "loaded"}
    BY <1>3 DEF Store, LoadSequence, HubTypes
  <2>2. SnapshotFirst(c)'
    BY <1>2, <2>1 DEF Orderly, SnapshotFirst
  <2> QED BY <1>1, <1>2, <2>1, <2>2, ClientOrder DEF Orderly
<1>4. CASE Disconnect(c)
  <2>1. wire'[c] = <<>> /\ send'[c] = <<>> /\ cpc'[c] = "gone" /\ Len(wire'[c]) = 0
        /\ Len(send'[c]) = 0
    BY <1>4 DEF Disconnect, HubTypes
  <2>2. Elems(wire'[c]) = {} /\ Elems(send'[c]) = {}
    BY <2>1 DEF Elems
  <2>3. Lined(wire'[c], send'[c]) /\ SnapshotFirst(c)'
    BY <2>1, <2>2 DEF Lined, InOrder, SnapshotFirst
  <2> QED BY <1>1, <2>2, <2>3, ClientOrder
<1> QED BY <1>3, <1>4

LEMMA OrderStep == OrderInv /\ DeliveryInv /\ [Next]_vars => OrderInv'
<1> SUFFICES ASSUME OrderInv, DeliveryInv, [Next]_vars PROVE OrderInv'
  OBVIOUS
<1>0. HubTypes /\ seq \in Nat
  BY DEF DeliveryInv, HubTypes
<1>1. ASSUME NEW v \in Verdicts, Emit(v) PROVE OrderInv'
  BY <1>0, <1>1, EmitOrder
<1>2. CASE Heartbeat \/ EmitAuditCheckpoint \/ EmitBundleActivated
  <2>1. UNCHANGED <<wire, send, cpc, emitted, queue>> /\ seq' = seq + 1
        /\ pub'["fanOut"] = pub["fanOut"]
    BY <1>0, <1>2 DEF Heartbeat, EmitAuditCheckpoint, EmitBundleActivated, Take, clientVars,
                      HubTypes, Publishers
  <2>2. seq' \in Nat /\ seq <= seq'
    BY <1>0, <2>1
  <2> QED BY <1>0, <2>1, <2>2, CountOrder
<1>3. ASSUME NEW p \in Publishers, Publish(p) PROVE OrderInv'
  <2>1. CASE BeginRange(p)
    <3>1. /\ UNCHANGED <<wire, send, cpc, emitted, queue, seq>> /\ pub[p].pc = "taken"
          /\ pub' = [pub EXCEPT ![p] = [@ EXCEPT !.pc = "range", !.must = reg]]
      BY <2>1 DEF BeginRange, clientVars
    <3>2. pub'["fanOut"].msg = pub["fanOut"].msg /\ pub'["fanOut"].visited = pub["fanOut"].visited
          /\ (pub["fanOut"].pc # "idle" \/ pub'["fanOut"].pc = "idle")
      <4>1. CASE p = "fanOut"
        BY <1>0, <3>1, <4>1 DEF HubTypes, Published, Publishers
      <4>2. CASE p # "fanOut"
        BY <1>0, <3>1, <4>2 DEF HubTypes, Publishers
      <4> QED BY <4>1, <4>2
    <3> QED BY <1>0, <3>1, <3>2, CountOrder
  <2>2. CASE EndRange(p)
    <3>1. UNCHANGED <<wire, send, cpc, emitted, queue, seq>> /\ pub' = [pub EXCEPT ![p] = Idle]
      BY <2>2 DEF EndRange, clientVars
    <3>2. pub'["fanOut"] = Idle \/ pub'["fanOut"] = pub["fanOut"]
      BY <1>0, <3>1 DEF HubTypes, Publishers
    <3> QED BY <1>0, <3>1, <3>2, CountOrder
  <2> QED BY <1>3, <2>1, <2>2, DeliverOrder DEF Publish
<1>4. ASSUME NEW c \in Clients, Serve(c) PROVE OrderInv'
  <2>1. CASE handleBackfill(c) \/ \E f \in SUBSET Verdicts : handleSubscribeFilter(c, f)
    <3>1. UNCHANGED <<queue, pub, cpc, wire, send, emitted>> /\ (seq' = seq \/ seq' = seq + 1)
      BY <2>1 DEF handleBackfill, handleSubscribeFilter, clientVars
    <3>2. seq' \in Nat /\ seq <= seq'
      BY <1>0, <3>1
    <3> QED BY <1>0, <3>1, <3>2, CountOrder
  <2> QED BY <1>4, <2>1, ComeAndGoOrder, WriteOrder, PumpOrder, RepliesOrder DEF Serve
<1>5. CASE UNCHANGED vars
  BY <1>0, <1>5, CountOrder DEF vars, clientVars
<1> QED BY <1>1, <1>2, <1>3, <1>4, <1>5, FanOutOrder DEF Next

(* A client sees its snapshot first and then the decisions in the order of *)
(* Emit, each at most once, whatever the other publishers, full channels   *)
(* and failing writes do, for any number of clients and events (server.go, *)
(* fanOut, broadcast and writePump).                                       *)
THEOREM EventsInOrderHolds == Spec => []EventsInOrder
<1>1. OrderInv /\ DeliveryInv => EventsInOrder
  <2> SUFFICES ASSUME OrderInv, DeliveryInv, NEW c \in Clients
               PROVE  /\ \A n \in 1 .. Len(wire[c]) : wire[c][n].kind = "snapshot" <=> n = 1
                      /\ InOrder(wire[c] \o send[c])
    BY DEF EventsInOrder
  <2>1. Orderly(c) /\ wire[c] \in Seq(Messages) /\ send[c] \in Seq(Messages)
    BY DEF OrderInv, DeliveryInv, HubTypes
  <2> QED BY <2>1, LinedConcat DEF Orderly, SnapshotFirst
<1> QED BY <1>1, DeliveryInit, DeliveryStep, OrderInit, OrderStep, PTL DEF Spec

-----------------------------------------------------------------------------
(* Admission.                                                              *)
(* Where handleWebSocket can be.                                           *)
Places == {"new", "refused", "allowed", "upgraded", "counted", "client", "leaving", "closed"}

(* The registry and the counters have their types; with SlotsExact this is *)
(* inductive.                                                              *)
AdmissionTypeOK ==
  /\ pc \in [Conns -> Places]
  /\ conns \in [IPs -> Nat]

AdmissionInv == AdmissionTypeOK /\ SlotsExact

(* The requests that hold a slot, wherever they come from.                 *)
Held == {"upgraded", "counted", "client", "leaving"}

(* The requests of an address that hold a slot are finitely many.          *)
LEMMA HoldingFinite ==
  ASSUME IsFiniteSet(Conns), NEW i
  PROVE  IsFiniteSet(Holding(i)) /\ Cardinality(Holding(i)) \in Nat
<1>1. Holding(i) \in SUBSET Conns
  BY DEF Holding
<1> QED
  BY <1>1, FS_Subset, FS_CardinalityType

(* A step that takes or gives no slot leaves the counters exact.           *)
LEMMA SameHolders ==
  ASSUME AdmissionInv, NEW h \in Conns, NEW l \in Places,
         pc' = [pc EXCEPT ![h] = l], UNCHANGED conns,
         pc[h] \in Held <=> l \in Held
  PROVE  \A i \in IPs : conns'[i] = Cardinality(Holding(i)')
<1> SUFFICES ASSUME NEW i \in IPs PROVE conns'[i] = Cardinality(Holding(i)')
  OBVIOUS
<1>1. Holding(i)' = Holding(i)
  BY DEF Holding, Held, AdmissionInv, AdmissionTypeOK
<1> QED
  BY <1>1 DEF AdmissionInv, SlotsExact

(* Every step keeps the invariant: inc and dec move the counter of exactly *)
(* the address whose set of holders they change.                           *)
LEMMA AdmissionStep ==
  AdmissionInv /\ [AdmissionNext]_admissionVars => AdmissionInv'
<1> SUFFICES ASSUME AdmissionInv, [AdmissionNext]_admissionVars PROVE AdmissionInv'
  OBVIOUS
<1>0. /\ IsFiniteSet(Conns) /\ ip \in [Conns -> IPs]
      /\ pc \in [Conns -> Places] /\ conns \in [IPs -> Nat]
      /\ clients = {h \in Conns : pc[h] = "client"}
      /\ \A i \in IPs : conns[i] = Cardinality(Holding(i))
  BY AdmissionAssumption DEF AdmissionInv, AdmissionTypeOK, SlotsExact
<1>1. CASE UNCHANGED admissionVars
  BY <1>1, <1>0 DEF admissionVars, AdmissionInv, AdmissionTypeOK, SlotsExact, Holding
<1>2. ASSUME NEW i \in IPs, Slide(i) PROVE AdmissionInv'
  BY <1>2, <1>0 DEF Slide, AdmissionInv, AdmissionTypeOK, SlotsExact, Holding
<1>3. ASSUME NEW h \in Conns, NEW l \in Places, pc' = [pc EXCEPT ![h] = l], UNCHANGED conns,
             pc[h] \in Held <=> l \in Held,
             clients' = {x \in Conns : pc'[x] = "client"}
      PROVE  AdmissionInv'
  <2>1. \A i \in IPs : conns'[i] = Cardinality(Holding(i)')
    BY <1>3, SameHolders
  <2> QED
    BY <2>1, <1>0, <1>3 DEF AdmissionInv, AdmissionTypeOK, SlotsExact
<1>4. ASSUME NEW h \in Conns, allow(h) PROVE AdmissionInv'
  <2>1. PICK l \in {"allowed", "refused"} : pc' = [pc EXCEPT ![h] = l]
    BY <1>4 DEF allow, Goto
  <2> QED
    BY <2>1, <1>0, <1>3, <1>4 DEF allow, Places, Held
<1>5. ASSUME NEW h \in Conns, UpgradeFails(h) PROVE AdmissionInv'
  BY <1>0, <1>3, <1>5 DEF UpgradeFails, Goto, Places, Held
<1>6. ASSUME NEW h \in Conns, Count(h) PROVE AdmissionInv'
  <2>1. PICK l \in {"leaving", "counted"} : pc' = [pc EXCEPT ![h] = l]
    BY <1>6 DEF Count, Goto
  <2> QED
    BY <2>1, <1>0, <1>3, <1>6 DEF Count, Places, Held
<1>7. ASSUME NEW h \in Conns, StoreClient(h) PROVE AdmissionInv'
  BY <1>0, <1>3, <1>7 DEF StoreClient, Goto, Places, Held
<1>8. ASSUME NEW h \in Conns, DeleteClient(h) PROVE AdmissionInv'
  BY <1>0, <1>3, <1>8 DEF DeleteClient, Goto, Places, Held
<1>9. ASSUME NEW h \in Conns, inc(h) PROVE AdmissionInv'
  <2>1. /\ pc' = [pc EXCEPT ![h] = "upgraded"] /\ pc[h] = "allowed"
        /\ conns' = [conns EXCEPT ![ip[h]] = @ + 1] /\ UNCHANGED clients
        /\ ip[h] \in IPs
    BY <1>0, <1>9 DEF inc, Goto
  <2>2. ASSUME NEW i \in IPs PROVE conns'[i] = Cardinality(Holding(i)')
    <3>1. CASE i = ip[h]
      <4>1. Holding(i)' = Holding(i) \cup {h} /\ h \notin Holding(i)
        BY <1>0, <2>1, <3>1 DEF Holding
      <4>2. Cardinality(Holding(i) \cup {h}) = Cardinality(Holding(i)) + 1
        BY <1>0, <4>1, HoldingFinite, FS_AddElement
      <4> QED
        BY <1>0, <2>1, <3>1, <4>1, <4>2
    <3>2. CASE i # ip[h]
      <4>1. Holding(i)' = Holding(i)
        BY <1>0, <2>1, <3>2 DEF Holding
      <4> QED
        BY <1>0, <2>1, <3>2, <4>1
    <3> QED
      BY <3>1, <3>2
  <2> QED
    BY <1>0, <2>1, <2>2 DEF AdmissionInv, AdmissionTypeOK, SlotsExact, Places
<1>10. ASSUME NEW h \in Conns, dec(h) PROVE AdmissionInv'
  <2>1. /\ pc' = [pc EXCEPT ![h] = "closed"] /\ pc[h] = "leaving" /\ UNCHANGED clients
        /\ conns' = [conns EXCEPT ![ip[h]] = IF @ > 0 THEN @ - 1 ELSE @]
        /\ ip[h] \in IPs
    BY <1>0, <1>10 DEF dec, Goto
  <2>2. ASSUME NEW i \in IPs PROVE conns'[i] = Cardinality(Holding(i)')
    <3>1. CASE i = ip[h]
      <4>1. Holding(i)' = Holding(i) \ {h} /\ h \in Holding(i)
        BY <1>0, <2>1, <3>1 DEF Holding
      <4>2. Cardinality(Holding(i) \ {h}) = Cardinality(Holding(i)) - 1
        BY <1>0, <4>1, HoldingFinite, FS_RemoveElement
      <4>3. Cardinality(Holding(i)) # 0
        BY <1>0, <4>1, HoldingFinite, FS_EmptySet
      <4> QED
        BY <1>0, <2>1, <3>1, <4>1, <4>2, <4>3, HoldingFinite
    <3>2. CASE i # ip[h]
      <4>1. Holding(i)' = Holding(i)
        BY <1>0, <2>1, <3>2 DEF Holding
      <4> QED
        BY <1>0, <2>1, <3>2, <4>1
    <3> QED
      BY <3>1, <3>2
  <2> QED
    BY <1>0, <2>1, <2>2 DEF AdmissionInv, AdmissionTypeOK, SlotsExact, Places
<1> QED
  BY <1>1, <1>2, <1>4, <1>5, <1>6, <1>7, <1>8, <1>9, <1>10 DEF AdmissionNext, Handle

(* Whatever the limits and however the checks race: the counter of every   *)
(* address is the number of its open connections, so a slot is never       *)
(* leaked and the guard of dec against negative counters never needed, and *)
(* the registry holds the clients that are served (server.go 613-683).     *)
THEOREM SlotsExactHolds == AdmissionSpec => []SlotsExact
<1>1. AdmissionInit => AdmissionInv
  <2> SUFFICES ASSUME AdmissionInit PROVE AdmissionInv
    OBVIOUS
  <2>1. \A i \in IPs : Holding(i) = {}
    BY DEF AdmissionInit, Holding
  <2> QED
    BY <2>1, FS_EmptySet DEF AdmissionInit, AdmissionInv, AdmissionTypeOK, SlotsExact, Places
<1>2. AdmissionInv /\ [AdmissionNext]_admissionVars => AdmissionInv'
  BY AdmissionStep
<1>3. AdmissionInv => SlotsExact
  BY DEF AdmissionInv
<1> QED
  BY <1>1, <1>2, <1>3, PTL DEF AdmissionSpec
=============================================================================
