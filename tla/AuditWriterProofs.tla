-------------------------- MODULE AuditWriterProofs --------------------------
(***************************************************************************)
(* The hash chain of the audit log, the conservation of the items and the  *)
(* durability of checkpoints, for every channel and batch size,            *)
(* number of records, failed transactions, crashes and restarts.           *)
(***************************************************************************)
EXTENDS AuditWriter, SequenceTheorems, FiniteSetTheorems, TLAPS

Hashes == Seq(Nat)
Rows == [id : Nat, hash : Hashes]

(* Each row carries the hash of its id chained to the row before it.       *)
Chained(l) ==
  \A n \in 1 .. Len(l) :
    l[n].hash = chainHash(IF n = 1 THEN ZeroHash ELSE l[n - 1].hash, l[n].id)

Extends(l, m) == Len(l) <= Len(m) /\ \A n \in 1 .. Len(l) : m[n] = l[n]

ChainTypes ==
  /\ log \in Seq(Rows) /\ tlog \in Seq(Rows)
  /\ prevHash \in Hashes /\ cur \in Hashes
  /\ ch \in Seq(Item) /\ batch \in Seq(Item)
  /\ blind \in Nat /\ nextId \in Nat /\ back \in {"loop", "stopped"}
  /\ wpc = "tx" => idx \in Nat \ {0}

(* The hash in memory is that of the last committed row; inside a          *)
(* transaction, that of the last row it inserted, and the transaction has  *)
(* only added rows to the committed ones.  The hashes are right unless a   *)
(* restart could not read the last one.                                    *)
ChainInv ==
  /\ ChainTypes
  /\ wpc = "tx" => Extends(log, tlog)
  /\ blind = 0 =>
       /\ Chained(log)
       /\ wpc # "down" => prevHash = LastHash(log)
       /\ wpc = "tx" => Chained(tlog) /\ cur = LastHash(tlog)

LEMMA ChainHashType ==
  ASSUME NEW h \in Hashes, NEW r \in Nat
  PROVE  chainHash(h, r) \in Hashes
BY DEF chainHash, Hashes

LEMMA LastHashType ==
  ASSUME NEW l \in Seq(Rows)
  PROVE  LastHash(l) \in Hashes
<1>1. CASE l = <<>>
  BY <1>1 DEF LastHash, ZeroHash, Hashes
<1>2. CASE l # <<>>
  <2>1. l[Len(l)] \in Rows
    BY <1>2
  <2> QED
    BY <1>2, <2>1 DEF LastHash, Rows
<1> QED
  BY <1>1, <1>2

(* Appending a row hashed from the last one keeps a chain chained.         *)
LEMMA ChainGrows ==
  ASSUME NEW l \in Seq(Rows), Chained(l), NEW r \in Nat
  PROVE  LET row == [id |-> r, hash |-> chainHash(LastHash(l), r)]
             m == Append(l, row)
         IN  /\ m \in Seq(Rows) /\ Chained(m)
             /\ LastHash(m) = chainHash(LastHash(l), r)
             /\ Extends(l, m)
<1> DEFINE row == [id |-> r, hash |-> chainHash(LastHash(l), r)]
           m == Append(l, row)
<1>1. row \in Rows
  BY ChainHashType, LastHashType DEF Rows
<1>2. row.id = r /\ row.hash = chainHash(LastHash(l), r)
  OBVIOUS
<1> HIDE DEF row
<1>3. /\ m \in Seq(Rows) /\ Len(m) = Len(l) + 1 /\ Len(l) \in Nat
      /\ m[Len(l) + 1] = row
      /\ \A n \in 1 .. Len(l) : m[n] = l[n]
  BY <1>1
<1> HIDE DEF m
<1>4. LastHash(m) = row.hash
  <2>1. m # <<>>
    BY <1>3
  <2> QED
    BY <1>3, <2>1 DEF LastHash
<1>5. Chained(m)
  <2> SUFFICES ASSUME NEW n \in 1 .. Len(m)
               PROVE  m[n].hash = chainHash(IF n = 1 THEN ZeroHash ELSE m[n - 1].hash, m[n].id)
    BY DEF Chained
  <2>1. CASE n <= Len(l)
    <3>1. n \in 1 .. Len(l) /\ m[n] = l[n] /\ (n # 1 => m[n - 1] = l[n - 1])
      BY <1>3, <2>1
    <3> QED
      BY <3>1 DEF Chained
  <2>2. CASE n = Len(l) + 1
    <3>1. m[n] = row
      BY <1>3, <2>2
    <3>2. LastHash(l) = IF n = 1 THEN ZeroHash ELSE m[n - 1].hash
      <4>1. CASE l = <<>>
        BY <2>2, <4>1 DEF LastHash
      <4>2. CASE l # <<>>
        <5>1. Len(l) \in 1 .. Len(l) /\ n # 1 /\ n - 1 = Len(l)
          BY <1>3, <2>2, <4>2
        <5> QED
          BY <1>3, <4>2, <5>1 DEF LastHash
      <4> QED
        BY <4>1, <4>2
    <3> QED
      BY <1>2, <3>1, <3>2
  <2> QED
    BY <1>3, <2>1, <2>2
<1>6. Extends(l, m)
  BY <1>3 DEF Extends
<1> QED
  BY <1>2, <1>3, <1>4, <1>5, <1>6 DEF m, row

LEMMA AppendExtends ==
  ASSUME NEW l \in Seq(Rows), NEW row \in Rows
  PROVE  Append(l, row) \in Seq(Rows) /\ Extends(l, Append(l, row))
BY DEF Extends

LEMMA EmptyChain == <<>> \in Seq(Rows) /\ Chained(<<>>) /\ LastHash(<<>>) = ZeroHash
BY DEF Chained, LastHash

LEMMA ZeroHashType == ZeroHash \in Hashes
BY DEF ZeroHash, Hashes

LEMMA InitChain == Init => ChainInv
<1> SUFFICES ASSUME Init PROVE ChainInv
  OBVIOUS
<1>1. ChainTypes
  BY EmptyChain, ZeroHashType DEF Init, ChainTypes, Item
<1> QED
  BY <1>1, EmptyChain DEF Init, ChainInv

(* Steps that touch neither the log nor the transaction.                   *)
ChainState == <<log, tlog, prevHash, cur, idx, blind>>

LEMMA OtherStepsTypes ==
  ASSUME ChainTypes, NEW k \in LabelKeys, NEW kind \in {"record", "label"},
         Enqueue([kind |-> kind, id |-> nextId, key |-> k])
  PROVE  ch' \in Seq(Item)
<1> DEFINE item == [kind |-> kind, id |-> nextId, key |-> k]
<1>1. item \in Item /\ ch \in Seq(Item)
  BY DEF ChainTypes, Item
<1>2. ch' = Append(ch, item) \/ ch' = ch
  BY DEF Enqueue
<1> HIDE DEF item
<1> QED
  BY <1>1, <1>2

LEMMA StepChain ==
  ASSUME ChainInv, [Next]_vars
  PROVE  ChainInv'
<1> USE DEF ChainInv
<1>1. ASSUME UNCHANGED ChainState, wpc # "down" \/ wpc' = "down",
             wpc' = "tx" => wpc = "tx",
             ch' \in Seq(Item), batch' \in Seq(Item), nextId' \in Nat,
             back' \in {"loop", "stopped"}
      PROVE  ChainInv'
  <2>1. ChainTypes'
    BY <1>1 DEF ChainTypes, ChainState
  <2> QED
    BY <1>1, <2>1 DEF ChainState
<1>2. CASE UNCHANGED vars
  BY <1>1, <1>2 DEF vars, dbVars, enqVars, txVars, histVars, ChainState, ChainTypes
<1>3. CASE WriteRecord
  <2>1. PICK k \in LabelKeys : Enqueue([kind |-> "record", id |-> nextId, key |-> k])
    BY <1>3 DEF WriteRecord
  <2>2. ch' \in Seq(Item)
    BY <2>1, OtherStepsTypes
  <2>3. UNCHANGED ChainState /\ UNCHANGED <<wpc, batch, back>> /\ nextId' = nextId + 1
    BY <1>3 DEF WriteRecord, dbVars, txVars, histVars, ChainState
  <2> QED
    BY <1>1, <1>3, <2>2, <2>3 DEF WriteRecord, ChainTypes
<1>4. CASE WriteSessionLabel
  <2>1. PICK k \in LabelKeys : Enqueue([kind |-> "label", id |-> nextId, key |-> k])
    BY <1>4 DEF WriteSessionLabel
  <2>2. ch' \in Seq(Item)
    BY <2>1, OtherStepsTypes
  <2>3. UNCHANGED ChainState /\ UNCHANGED <<wpc, batch, back>> /\ nextId' = nextId + 1
    BY <1>4 DEF WriteSessionLabel, dbVars, txVars, histVars, ChainState
  <2> QED
    BY <1>1, <1>4, <2>2, <2>3 DEF WriteSessionLabel, ChainTypes
<1>5. CASE Cancel \/ TimerFires \/ Done \/ DrainFlush
  BY <1>1, <1>5 DEF Cancel, TimerFires, Done, DrainFlush, dbVars, enqVars, txVars, histVars,
                    ChainState, ChainTypes
<1>6. CASE Receive \/ DrainReceive
  <2>1. ch' \in Seq(Item) /\ batch' \in Seq(Item)
    <3>1. ch \in Seq(Item) /\ batch \in Seq(Item) /\ ch # <<>>
      BY <1>6 DEF Receive, DrainReceive, ChainTypes
    <3>2. ch' = Tail(ch) /\ batch' = Append(batch, Head(ch))
      BY <1>6 DEF Receive, DrainReceive
    <3>3. Head(ch) \in Item /\ Tail(ch) \in Seq(Item)
      BY <3>1, HeadTailProperties
    <3> QED
      BY <3>1, <3>2, <3>3
  <2>2. UNCHANGED ChainState /\ nextId' = nextId /\ back' \in {"loop", "stopped"}
    BY <1>6 DEF Receive, DrainReceive, dbVars, txVars, histVars, ChainState, ChainTypes
  <2>3. wpc \in {"loop", "drain"} /\ wpc' # "tx"
    BY <1>6 DEF Receive, DrainReceive
  <2> QED
    BY <1>1, <2>1, <2>2, <2>3 DEF ChainTypes
<1>7. CASE Count
  <2>1. UNCHANGED ChainState /\ UNCHANGED <<ch, nextId, back>> /\ batch' = <<>>
    BY <1>7 DEF Count, dbVars, enqVars, txVars, histVars, ChainState
  <2>2. wpc = "count" /\ wpc' \in {"emit", back}
    BY <1>7 DEF Count
  <2> QED
    BY <1>1, <2>1, <2>2 DEF ChainTypes
<1>8. CASE EmitCheckpoint \/ SaveCheckpointSeq
  <2>1. UNCHANGED ChainState /\ UNCHANGED <<ch, batch, nextId, back>>
    BY <1>8 DEF EmitCheckpoint, SaveCheckpointSeq, dbVars, enqVars, txVars, histVars, ChainState
  <2>2. wpc \in {"emit", "save"} /\ wpc' \in {"save", back}
    BY <1>8 DEF EmitCheckpoint, SaveCheckpointSeq
  <2> QED
    BY <1>1, <2>1, <2>2 DEF ChainTypes
<1>9. CASE Begin
  <2>1. ChainTypes'
    BY <1>9 DEF Begin, ChainTypes, dbVars, enqVars, histVars
  <2>2. Extends(log, log)
    BY DEF Extends, ChainTypes
  <2> QED
    BY <1>9, <2>1, <2>2 DEF Begin, dbVars, histVars
<1>10. CASE InsertRecord
  <2>1. batch[idx].id \in Nat
    <3>1. idx \in 1 .. Len(batch) /\ batch \in Seq(Item)
      BY <1>10 DEF InsertRecord, ChainTypes
    <3>2. batch[idx] \in Item
      BY <3>1
    <3> QED
      BY <3>2 DEF Item
  <2> DEFINE m == Append(tlog, [id |-> batch[idx].id, hash |-> chainHash(cur, batch[idx].id)])
  <2>2. /\ tlog \in Seq(Rows) /\ cur \in Hashes /\ Extends(log, tlog)
        /\ blind = 0 => cur = LastHash(tlog) /\ Chained(tlog)
    BY <1>10 DEF InsertRecord, ChainTypes
  <2>3. /\ m \in Seq(Rows) /\ Extends(tlog, m)
        /\ blind = 0 => Chained(m) /\ LastHash(m) = chainHash(cur, batch[idx].id)
    <3>1. [id |-> batch[idx].id, hash |-> chainHash(cur, batch[idx].id)] \in Rows
      BY <2>1, <2>2, ChainHashType DEF Rows
    <3>2. m \in Seq(Rows) /\ Extends(tlog, m)
      BY <2>2, <3>1, AppendExtends
    <3>3. CASE blind = 0
      BY <2>1, <2>2, <3>3, ChainGrows
    <3> QED
      BY <3>2, <3>3
  <2>4. tlog' = m /\ cur' = chainHash(cur, batch[idx].id) /\ idx' = idx + 1
    BY <1>10 DEF InsertRecord
  <2> HIDE DEF m
  <2>5. Extends(log, m)
    BY <2>2, <2>3 DEF Extends, ChainTypes
  <2>6. UNCHANGED <<log, prevHash, wpc, ch, batch, nextId, back, blind>>
    BY <1>10 DEF InsertRecord, dbVars, enqVars, histVars
  <2>7. ChainTypes'
    <3>1. cur' \in Hashes
      BY <2>1, <2>4, ChainHashType DEF ChainTypes
    <3>2. idx' \in Nat \ {0}
      BY <1>10, <2>4 DEF ChainTypes, InsertRecord
    <3> QED
      BY <2>3, <2>4, <2>6, <3>1, <3>2 DEF ChainTypes
  <2> QED
    BY <2>3, <2>4, <2>5, <2>6, <2>7
<1>11. CASE InsertSessionLabel
  <2>1. UNCHANGED <<log, tlog, cur, prevHash, wpc, ch, batch, nextId, back, blind>> /\ idx' = idx + 1
    BY <1>11 DEF InsertSessionLabel, dbVars, enqVars, histVars
  <2>2. ChainTypes'
    BY <2>1 DEF ChainTypes
  <2> QED
    BY <2>1, <2>2
<1>12. CASE Commit
  <2>1. ChainTypes'
    BY <1>12, EmptyChain, ZeroHashType DEF Commit, ChainTypes, enqVars, histVars
  <2> QED
    BY <1>12, <2>1 DEF Commit, histVars, ChainTypes
<1>13. CASE WriteFails
  <2>1. ChainTypes'
    BY <1>13, EmptyChain, ZeroHashType DEF WriteFails, ChainTypes, dbVars, enqVars
  <2> QED
    BY <1>13, <2>1 DEF WriteFails, dbVars
<1>14. CASE Crash
  <2>1. ChainTypes'
    BY <1>14, EmptyChain, ZeroHashType DEF Crash, ChainTypes, dbVars
  <2> QED
    BY <1>14, <2>1 DEF Crash, dbVars
<1>15. CASE Restart
  <2>1. /\ log' = log /\ wpc' = "loop" /\ wpc = "down"
        /\ \/ prevHash' = LastHash(log) /\ blind' = blind
           \/ prevHash' = ZeroHash /\ blind' = blind + (IF log = <<>> THEN 0 ELSE 1)
    BY <1>15 DEF Restart, dbVars
  <2>2. prevHash' \in Hashes /\ blind' \in Nat
    BY <2>1, LastHashType, ZeroHashType DEF ChainTypes
  <2>3. ChainTypes'
    BY <1>15, <2>1, <2>2 DEF Restart, ChainTypes, txVars
  <2>4. blind' = 0 => blind = 0 /\ prevHash' = LastHash(log)
    BY <2>1 DEF ChainTypes, LastHash, ZeroHash
  <2> QED
    BY <2>1, <2>3, <2>4
<1> QED
  BY <1>2, <1>3, <1>4, <1>5, <1>6, <1>7, <1>8, <1>9, <1>10, <1>11, <1>12, <1>13, <1>14, <1>15
  DEF Next, Writer, Flush

(* The stored chain verifies at every moment, unless a writer was started  *)
(* that could not read the last hash (audit.go 97, 373).                   *)
THEOREM ChainVerifiesHolds == Spec => []ChainVerifies
<1>1. ChainInv => ChainVerifies
  BY DEF ChainInv, Chained, ChainVerifies, runAuditVerify
<1>2. ChainInv /\ [Next]_vars => ChainInv'
  BY StepChain
<1> QED
  BY <1>1, <1>2, InitChain, PTL DEF Spec

(* Rows of the log are never changed or removed.                           *)
THEOREM LogAppendOnlyHolds == Spec => LogAppendOnly
<1> DEFINE Grows == Len(log') >= Len(log) /\ \A n \in 1 .. Len(log) : log'[n] = log[n]
<1>1. ChainInv /\ [Next]_vars => [Grows]_vars
  <2> SUFFICES ASSUME ChainInv, [Next]_vars PROVE Grows
    OBVIOUS
  <2>1. log \in Seq(Rows) /\ Len(log) \in Nat
    BY DEF ChainInv, ChainTypes
  <2>2. CASE log' = log
    BY <2>1, <2>2
  <2>3. CASE Commit
    <3>1. log' = tlog /\ Extends(log, tlog) /\ tlog \in Seq(Rows)
      BY <2>3 DEF Commit, ChainInv, ChainTypes
    <3> QED
      BY <2>1, <3>1 DEF Extends
  <2>4. log' = log \/ Commit
    BY DEF Next, Writer, Flush, vars, dbVars, WriteRecord, WriteSessionLabel, Cancel,
           Receive, TimerFires, Done, DrainReceive, DrainFlush, Begin, InsertRecord,
           InsertSessionLabel, WriteFails, Count, EmitCheckpoint, SaveCheckpointSeq,
           Crash, Restart
  <2> QED
    BY <2>2, <2>3, <2>4
<1>2. ChainInv /\ [Next]_vars => ChainInv'
  BY StepChain
<1> QED
  BY <1>1, <1>2, InitChain, PTL DEF Spec, LogAppendOnly

-----------------------------------------------------------------------------
(* Conservation of the accepted items.                                     *)
(* The ids of a sequence of items or rows rise; all ids of one set are     *)
(* below those of another.                                                 *)
Rising(s) == \A m, n \in 1 .. Len(s) : m < n => s[m].id < s[n].id
Below(A, B) == \A a \in A, b \in B : a < b

(* Items enter the channel with rising ids, and batch and log follow in    *)
(* that order; nothing of a batch that was not written is in the log.      *)
Ordered ==
  /\ Rising(log) /\ Rising(batch) /\ Rising(ch)
  /\ Below(Ids(log), Ids(ch)) /\ Below(Ids(batch), Ids(ch))
  /\ wpc # "count" => Below(Ids(log), Ids(batch))
  /\ nextId >= 1 /\ Below(Ids(log) \cup Ids(batch) \cup Ids(ch), {nextId})

(* Inside a transaction: the rows of the items before idx, and no others,  *)
(* are added to the committed ones.                                        *)
Ours(kind, n) == {batch[m].id : m \in {k \in 1 .. Len(batch) : k < n /\ batch[k].kind = kind}}
RowIds(rows) == {row.id : row \in rows}
InTransaction ==
  wpc = "tx" =>
    /\ idx <= Len(batch) + 1
    /\ Rising(tlog)
    /\ Ids(tlog) = Ids(log) \cup Ours("record", idx)
    /\ RowIds(tlabels) = RowIds(labels) \cup Ours("label", idx)

(* Every id that was given out is in one place.                            *)
Elsewhere == Persisted \cup failed \cup crashed
OnePlace ==
  /\ refused \subseteq 1 .. nextId - 1
  /\ Accepted = InMemory \cup Elsewhere
  /\ InMemory \cap Elsewhere = {}
  /\ Persisted \cap (failed \cup crashed) = {} /\ failed \cap crashed = {}

(* The way out: once the drain found the channel empty, whatever enters    *)
(* it was enqueued after the cancellation.                                 *)
WayOut ==
  /\ mark \in Nat /\ mark <= nextId
  /\ wpc = "drain" => cancelled
  /\ wpc = "stopped" => back = "stopped"
  /\ back = "stopped" =>
       /\ wpc \in {"begin", "tx", "count", "emit", "save", "stopped"} /\ cancelled
       /\ \A n \in 1 .. Len(ch) : ch[n].id >= mark
  /\ wpc \in {"emit", "save", "stopped", "down"} => batch = <<>>
  /\ wpc = "down" => ch = <<>>

ConserveInv == ChainInv /\ Ordered /\ InTransaction /\ OnePlace /\ WayOut


LEMMA IdsEmpty == Ids(<<>>) = {}
BY DEF Ids

LEMMA IdsIn ==
  ASSUME NEW S, NEW s \in Seq(S), \A x \in S : x.id \in Nat
  PROVE  Ids(s) \subseteq Nat
<1>1. \A n \in 1 .. Len(s) : s[n] \in S
  OBVIOUS
<1> QED
  BY <1>1 DEF Ids

LEMMA IdsNat ==
  ASSUME ChainTypes
  PROVE  Ids(log) \subseteq Nat /\ Ids(batch) \subseteq Nat /\ Ids(ch) \subseteq Nat
<1>1. (\A x \in Rows : x.id \in Nat) /\ (\A x \in Item : x.id \in Nat)
  BY DEF Rows, Item
<1> QED
  BY <1>1, IdsIn DEF ChainTypes

LEMMA AppendIds ==
  ASSUME NEW S, NEW s \in Seq(S), NEW x \in S
  PROVE  Ids(Append(s, x)) = Ids(s) \cup {x.id}
<1> DEFINE t == Append(s, x)
<1>1. Len(t) = Len(s) + 1 /\ Len(s) \in Nat /\ t[Len(s) + 1] = x
      /\ \A n \in 1 .. Len(s) : t[n] = s[n]
  OBVIOUS
<1> HIDE DEF t
<1>2. ASSUME NEW i PROVE i \in Ids(t) <=> i \in Ids(s) \cup {x.id}
  <2>1. ASSUME i \in Ids(t) PROVE i \in Ids(s) \cup {x.id}
    <3>1. PICK n \in 1 .. Len(t) : t[n].id = i
      BY <2>1 DEF Ids
    <3>2. n \in 1 .. Len(s) \/ n = Len(s) + 1
      BY <1>1
    <3> QED
      BY <1>1, <3>1, <3>2 DEF Ids
  <2>2. ASSUME i \in Ids(s) \cup {x.id} PROVE i \in Ids(t)
    <3>1. CASE i = x.id
      <4>1. Len(s) + 1 \in 1 .. Len(t)
        BY <1>1
      <4> QED
        BY <1>1, <3>1, <4>1 DEF Ids
    <3>2. CASE i \in Ids(s)
      <4>1. PICK n \in 1 .. Len(s) : s[n].id = i
        BY <3>2 DEF Ids
      <4>2. n \in 1 .. Len(t) /\ t[n] = s[n]
        BY <1>1
      <4> QED
        BY <4>1, <4>2 DEF Ids
    <3> QED
      BY <2>2, <3>1, <3>2
  <2> QED
    BY <2>1, <2>2
<1> QED
  BY <1>2 DEF t

LEMMA AppendRising ==
  ASSUME NEW S, NEW s \in Seq(S), NEW x \in S, Rising(s), Below(Ids(s), {x.id})
  PROVE  Rising(Append(s, x))
<1> DEFINE t == Append(s, x)
<1>1. Len(t) = Len(s) + 1 /\ Len(s) \in Nat /\ t[Len(s) + 1] = x
      /\ \A n \in 1 .. Len(s) : t[n] = s[n]
  OBVIOUS
<1>2. \A n \in 1 .. Len(s) : s[n].id < x.id
  BY DEF Below, Ids
<1> HIDE DEF t
<1>3. ASSUME NEW m \in 1 .. Len(t), NEW n \in 1 .. Len(t), m < n
      PROVE  t[m].id < t[n].id
  <2>1. m \in 1 .. Len(s) /\ (n \in 1 .. Len(s) \/ n = Len(s) + 1)
    BY <1>1, <1>3
  <2> QED
    BY <1>1, <1>2, <1>3, <2>1 DEF Rising
<1> QED
  BY <1>3 DEF Rising, t

(* Taking the head of a rising sequence.                                   *)
LEMMA TailIds ==
  ASSUME NEW S, NEW s \in Seq(S), s # <<>>, Rising(s)
  PROVE  /\ Ids(s) = {Head(s).id} \cup Ids(Tail(s))
         /\ Rising(Tail(s)) /\ Below({Head(s).id}, Ids(Tail(s)))
         /\ Head(s) \in S /\ Tail(s) \in Seq(S)
<1> DEFINE t == Tail(s)
<1>1. /\ Len(s) \in Nat \ {0} /\ Len(t) = Len(s) - 1 /\ Head(s) = s[1]
      /\ t \in Seq(S) /\ Head(s) \in S
      /\ \A n \in 1 .. Len(s) - 1 : t[n] = s[n + 1]
  BY HeadTailProperties
<1> HIDE DEF t
<1>2. ASSUME NEW i PROVE i \in Ids(s) <=> i \in {Head(s).id} \cup Ids(t)
  <2>1. ASSUME i \in Ids(s) PROVE i \in {Head(s).id} \cup Ids(t)
    <3>1. PICK n \in 1 .. Len(s) : s[n].id = i
      BY <2>1 DEF Ids
    <3>2. n = 1 \/ (n - 1 \in 1 .. Len(t) /\ t[n - 1] = s[n])
      BY <1>1
    <3> QED
      BY <1>1, <3>1, <3>2 DEF Ids
  <2>2. ASSUME i \in {Head(s).id} \cup Ids(t) PROVE i \in Ids(s)
    <3>1. CASE i = Head(s).id
      <4>1. 1 \in 1 .. Len(s)
        BY <1>1
      <4> QED
        BY <1>1, <3>1, <4>1 DEF Ids
    <3>2. CASE i \in Ids(t)
      <4>1. PICK n \in 1 .. Len(t) : t[n].id = i
        BY <3>2 DEF Ids
      <4>2. n + 1 \in 1 .. Len(s) /\ t[n] = s[n + 1]
        BY <1>1
      <4> QED
        BY <4>1, <4>2 DEF Ids
    <3> QED
      BY <2>2, <3>1, <3>2
  <2> QED
    BY <2>1, <2>2
<1>3. Rising(t)
  <2>1. ASSUME NEW m \in 1 .. Len(t), NEW n \in 1 .. Len(t), m < n
        PROVE  t[m].id < t[n].id
    <3>1. /\ m + 1 \in 1 .. Len(s) /\ n + 1 \in 1 .. Len(s) /\ m + 1 < n + 1
          /\ t[m] = s[m + 1] /\ t[n] = s[n + 1]
      BY <1>1, <2>1
    <3> QED
      BY <3>1 DEF Rising
  <2> QED
    BY <2>1 DEF Rising
<1>4. Below({Head(s).id}, Ids(t))
  <2>1. ASSUME NEW n \in 1 .. Len(t) PROVE Head(s).id < t[n].id
    <3>1. 1 \in 1 .. Len(s) /\ n + 1 \in 1 .. Len(s) /\ 1 < n + 1 /\ t[n] = s[n + 1]
      BY <1>1
    <3> QED
      BY <1>1, <3>1 DEF Rising
  <2> QED
    BY <2>1 DEF Below, Ids
<1> QED
  BY <1>1, <1>2, <1>3, <1>4 DEF t

(* The rows of one kind that a transaction has inserted.                   *)
LEMMA OursGrows ==
  ASSUME ChainTypes, NEW n \in 1 .. Len(batch), NEW kind
  PROVE  /\ batch[n].kind = kind => Ours(kind, n + 1) = Ours(kind, n) \cup {batch[n].id}
         /\ batch[n].kind # kind => Ours(kind, n + 1) = Ours(kind, n)
<1>1. Len(batch) \in Nat
  BY DEF ChainTypes
<1> DEFINE K(q) == {k \in 1 .. Len(batch) : k < q /\ batch[k].kind = kind}
<1>2. CASE batch[n].kind = kind
  <2>1. K(n + 1) = K(n) \cup {n}
    BY <1>1, <1>2
  <2> HIDE DEF K
  <2>2. {batch[m].id : m \in K(n + 1)} = {batch[m].id : m \in K(n)} \cup {batch[n].id}
    BY <2>1
  <2> QED
    BY <1>2, <2>2 DEF Ours, K
<1>3. CASE batch[n].kind # kind
  <2>1. K(n + 1) = K(n)
    BY <1>1, <1>3
  <2> QED
    BY <1>3, <2>1 DEF Ours
<1> QED
  BY <1>2, <1>3

LEMMA OursBounds ==
  ASSUME ChainTypes, Rising(batch), NEW n \in Nat, NEW kind
  PROVE  /\ Ours(kind, n) \subseteq Ids(batch)
         /\ Ours(kind, 1) = {}
         /\ n \in 1 .. Len(batch) => Below(Ours(kind, n), {batch[n].id})
         /\ n > Len(batch) => Ours("record", n) \cup Ours("label", n) = Ids(batch)
<1>1. Len(batch) \in Nat /\ \A m \in 1 .. Len(batch) : batch[m].kind \in {"record", "label"}
  <2>1. \A m \in 1 .. Len(batch) : batch[m] \in Item
    BY DEF ChainTypes
  <2> QED
    BY <2>1 DEF ChainTypes, Item
<1>2. Ours(kind, n) \subseteq Ids(batch)
  BY DEF Ours, Ids
<1>3. Ours(kind, 1) = {}
  BY DEF Ours
<1>4. ASSUME n \in 1 .. Len(batch) PROVE Below(Ours(kind, n), {batch[n].id})
  BY <1>4 DEF Ours, Below, Rising
<1>5. ASSUME n > Len(batch) PROVE Ours("record", n) \cup Ours("label", n) = Ids(batch)
  <2>1. \A m \in 1 .. Len(batch) : m < n
    BY <1>1, <1>5
  <2> QED
    BY <1>1, <2>1 DEF Ours, Ids
<1> QED
  BY <1>2, <1>3, <1>4, <1>5

-----------------------------------------------------------------------------
LEMMA InitConserve == Init => ConserveInv
<1> SUFFICES ASSUME Init PROVE ConserveInv
  OBVIOUS
<1>1. ChainInv
  BY InitChain
<1>2. Ordered
  BY IdsEmpty DEF Init, Ordered, Rising, Below
<1>3. Accepted = {} /\ InMemory = {} /\ Persisted = {}
  BY IdsEmpty DEF Init, Accepted, InMemory, Persisted
<1>4. OnePlace
  BY <1>3 DEF Init, OnePlace, Elsewhere
<1> QED
  BY <1>1, <1>2, <1>4 DEF Init, ConserveInv, InTransaction, WayOut

(* What an enqueue puts on the channel, if anything.                       *)
LEMMA EnqueueStep ==
  ASSUME ChainTypes, WriteRecord \/ WriteSessionLabel
  PROVE  /\ nextId' = nextId + 1
         /\ UNCHANGED <<dbVars, ctlVars, wpc, back, batch, prevHash, txVars, ckVars, histVars>>
         /\ \/ \E x \in Item : x.id = nextId /\ ch' = Append(ch, x) /\ refused' = refused
            \/ ch' = ch /\ refused' = refused \cup {nextId}
<1> DEFINE R(k) == [kind |-> "record", id |-> nextId, key |-> k]
           L(k) == [kind |-> "label", id |-> nextId, key |-> k]
<1>1. \A k \in LabelKeys : /\ R(k) \in Item /\ R(k).id = nextId
                           /\ L(k) \in Item /\ L(k).id = nextId
  BY DEF Item, ChainTypes
<1>2. \E x \in Item : x.id = nextId /\ Enqueue(x)
  BY <1>1 DEF WriteRecord, WriteSessionLabel
<1> QED
  BY <1>2 DEF WriteRecord, WriteSessionLabel, Enqueue

LEMMA ReceiveStep ==
  ASSUME ChainTypes, Rising(ch), Receive \/ DrainReceive
  PROVE  /\ ch' = Tail(ch) /\ batch' = Append(batch, Head(ch)) /\ Head(ch) \in Item
         /\ Ids(batch') = Ids(batch) \cup {Head(ch).id}
         /\ Ids(ch) = {Head(ch).id} \cup Ids(ch')
         /\ Rising(ch') /\ Below({Head(ch).id}, Ids(ch'))
         /\ wpc \in {"loop", "drain"} /\ wpc' \in {"loop", "begin", "drain"}
         /\ UNCHANGED <<dbVars, nextId, refused, ctlVars, prevHash, txVars, ckVars, histVars>>
<1>1. /\ ch # <<>> /\ ch' = Tail(ch) /\ batch' = Append(batch, Head(ch))
      /\ ch \in Seq(Item) /\ batch \in Seq(Item)
  BY DEF Receive, DrainReceive, ChainTypes
<1>2. /\ Ids(ch) = {Head(ch).id} \cup Ids(Tail(ch)) /\ Rising(Tail(ch))
      /\ Below({Head(ch).id}, Ids(Tail(ch))) /\ Head(ch) \in Item
  BY <1>1, TailIds
<1>3. Ids(Append(batch, Head(ch))) = Ids(batch) \cup {Head(ch).id}
  BY <1>1, <1>2, AppendIds
<1>4. /\ wpc \in {"loop", "drain"} /\ wpc' \in {"loop", "begin", "drain"}
      /\ UNCHANGED <<dbVars, nextId, refused, ctlVars, prevHash, txVars, ckVars, histVars>>
  BY DEF Receive, DrainReceive
<1> QED
  BY <1>1, <1>2, <1>3, <1>4

(* The order of the ids.                                                   *)
LEMMA OrderedStep ==
  ASSUME ConserveInv, [Next]_vars
  PROVE  Ordered'
<1>0. ChainTypes /\ Ordered /\ nextId \in Nat
  BY DEF ConserveInv, ChainInv, ChainTypes
<1>n. Ids(log) \subseteq Nat /\ Ids(batch) \subseteq Nat /\ Ids(ch) \subseteq Nat
  BY <1>0, IdsNat
<1>1. ASSUME UNCHANGED <<log, ch, batch, nextId>>, wpc = "count" => wpc' = "count"
      PROVE  Ordered'
  BY <1>0, <1>1 DEF Ordered
<1>2. CASE WriteRecord \/ WriteSessionLabel
  <2>1. UNCHANGED <<log, batch, wpc>> /\ nextId' = nextId + 1
    BY <1>0, <1>2, EnqueueStep DEF dbVars
  <2>2. CASE ch' = ch
    BY <1>0, <1>n, <2>1, <2>2 DEF Ordered, Below
  <2>3. ASSUME NEW x \in Item, x.id = nextId, ch' = Append(ch, x) PROVE Ordered'
    <3>1. Ids(ch') = Ids(ch) \cup {nextId} /\ Rising(ch')
      <4>1. ch \in Seq(Item) /\ Rising(ch) /\ Below(Ids(ch), {x.id})
        BY <1>0, <2>3 DEF Ordered, ChainTypes, Below
      <4> QED
        BY <2>3, <4>1, AppendIds, AppendRising
    <3> QED
      BY <1>0, <1>n, <2>1, <3>1 DEF Ordered, Below
  <2> QED
    BY <1>0, <1>2, <2>2, <2>3, EnqueueStep
<1>3. CASE Receive \/ DrainReceive
  <2>1. /\ batch' = Append(batch, Head(ch)) /\ Head(ch) \in Item
        /\ Ids(batch') = Ids(batch) \cup {Head(ch).id}
        /\ Ids(ch) = {Head(ch).id} \cup Ids(ch')
        /\ Rising(ch') /\ Below({Head(ch).id}, Ids(ch'))
        /\ wpc \in {"loop", "drain"} /\ wpc' \in {"loop", "begin", "drain"}
        /\ UNCHANGED <<log, nextId>>
    BY <1>0, <1>3, ReceiveStep DEF Ordered, dbVars
  <2>2. Rising(batch')
    BY <1>0, <2>1, AppendRising DEF Ordered, ChainTypes, Below
  <2> QED
    BY <1>0, <2>1, <2>2 DEF Ordered, Below
<1>4. CASE Commit
  <2>1. /\ log' = tlog /\ Rising(tlog) /\ wpc' = "count" /\ wpc = "tx"
        /\ Ids(tlog) = Ids(log) \cup Ours("record", idx)
        /\ UNCHANGED <<ch, batch, nextId>>
    BY <1>4 DEF Commit, ConserveInv, InTransaction, enqVars
  <2>2. Ours("record", idx) \subseteq Ids(batch)
    BY <1>0, <2>1, OursBounds DEF ChainTypes, Ordered
  <2> QED
    BY <1>0, <2>1, <2>2 DEF Ordered, Below
<1>5. CASE Count
  <2>1. batch' = <<>> /\ UNCHANGED <<log, ch, nextId>>
    BY <1>5 DEF Count, dbVars, enqVars
  <2>2. Ids(batch') = {} /\ Rising(batch')
    BY <2>1, IdsEmpty DEF Rising
  <2> QED
    BY <1>0, <2>1, <2>2 DEF Ordered, Below
<1>6. CASE Crash
  <2>1. batch' = <<>> /\ ch' = <<>> /\ UNCHANGED <<log, nextId>>
    BY <1>6 DEF Crash, dbVars
  <2>2. Ids(batch') = {} /\ Rising(batch') /\ Ids(ch') = {} /\ Rising(ch')
    BY <2>1, IdsEmpty DEF Rising
  <2> QED
    BY <1>0, <2>1, <2>2 DEF Ordered, Below
<1>7. CASE \/ UNCHANGED vars \/ Cancel \/ TimerFires \/ Done \/ DrainFlush \/ Begin \/ InsertRecord
           \/ InsertSessionLabel \/ WriteFails \/ EmitCheckpoint \/ SaveCheckpointSeq \/ Restart
  <2>1. UNCHANGED <<log, ch, batch, nextId>> /\ (wpc = "count" => wpc' = "count")
    BY <1>7 DEF vars, dbVars, enqVars, Cancel, TimerFires, Done, DrainFlush, Begin,
                InsertRecord, InsertSessionLabel, WriteFails, EmitCheckpoint,
                SaveCheckpointSeq, Restart
  <2> QED
    BY <1>1, <2>1
<1> QED
  BY <1>2, <1>3, <1>4, <1>5, <1>6, <1>7 DEF Next, Writer, Flush

(* The rows a transaction holds.                                           *)
LEMMA InTransactionStep ==
  ASSUME ConserveInv, [Next]_vars
  PROVE  InTransaction'
<1>0. /\ ChainTypes /\ Ordered /\ InTransaction
      /\ Rising(log) /\ Rising(batch) /\ Len(batch) \in Nat
  BY DEF ConserveInv, ChainInv, Ordered, ChainTypes
<1>1. CASE wpc' # "tx"
  BY <1>1 DEF InTransaction
<1>2. ASSUME wpc = "tx", wpc' = "tx", UNCHANGED <<log, labels, batch, tlog, tlabels, idx>>
      PROVE  InTransaction'
  BY <1>0, <1>2 DEF InTransaction, Ours
<1>3. CASE WriteRecord \/ WriteSessionLabel
  <2>1. UNCHANGED <<wpc, log, labels, batch, tlog, tlabels, idx>>
    BY <1>0, <1>3, EnqueueStep DEF dbVars, txVars
  <2> QED
    BY <1>1, <1>2, <2>1
<1>4. CASE UNCHANGED vars \/ Cancel
  <2>1. UNCHANGED <<wpc, log, labels, batch, tlog, tlabels, idx>>
    BY <1>4 DEF vars, dbVars, txVars, Cancel
  <2> QED
    BY <1>1, <1>2, <2>1
<1>5. CASE Begin
  <2>1. /\ tlog' = log /\ tlabels' = labels /\ idx' = 1
        /\ UNCHANGED <<log, labels, batch>>
    BY <1>5 DEF Begin, dbVars
  <2>2. Ours("record", 1) = {} /\ Ours("label", 1) = {}
    BY <1>0, OursBounds
  <2>3. Ours("record", idx)' = {} /\ Ours("label", idx)' = {}
    BY <2>1, <2>2 DEF Ours
  <2> QED
    BY <1>0, <2>1, <2>3 DEF InTransaction
<1>6. CASE InsertRecord
  <2> DEFINE b == batch[idx]
             row == [id |-> b.id, hash |-> chainHash(cur, b.id)]
  <2>1. /\ wpc = "tx" /\ idx \in 1 .. Len(batch) /\ b.kind = "record"
        /\ tlog' = Append(tlog, row) /\ idx' = idx + 1
        /\ UNCHANGED <<log, labels, batch, tlabels>>
    BY <1>0, <1>6 DEF InsertRecord, ChainTypes, dbVars
  <2>2. /\ Ours("record", idx + 1) = Ours("record", idx) \cup {b.id}
        /\ Ours("label", idx + 1) = Ours("label", idx)
    BY <1>0, <2>1, OursGrows
  <2>3. /\ Ours("record", idx)' = Ours("record", idx) \cup {b.id}
        /\ Ours("label", idx)' = Ours("label", idx)
    BY <2>1, <2>2 DEF Ours
  <2>4. row \in Rows /\ tlog \in Seq(Rows) /\ row.id = b.id
    <3>1. b \in Item /\ cur \in Hashes /\ tlog \in Seq(Rows)
      BY <1>0, <2>1 DEF ChainTypes
    <3>2. b.id \in Nat
      BY <3>1 DEF Item
    <3>3. chainHash(cur, b.id) \in Hashes
      BY <3>1, <3>2, ChainHashType
    <3> QED
      BY <3>1, <3>2, <3>3 DEF Rows
  <2>5. b.id \in Ids(batch)
    BY <2>1 DEF Ids
  <2>6. Below(Ids(tlog), {b.id})
    <3>1. Below(Ours("record", idx), {b.id})
      <4>1. idx \in Nat
        BY <2>1
      <4> QED
        BY <1>0, <2>1, <4>1, OursBounds
    <3>2. Below(Ids(log), {b.id}) /\ Ids(tlog) = Ids(log) \cup Ours("record", idx)
      BY <1>0, <2>1, <2>5 DEF Ordered, InTransaction, Below
    <3> QED
      BY <3>1, <3>2 DEF Below
  <2> HIDE DEF row, b
  <2>7. Ids(tlog') = Ids(tlog) \cup {b.id} /\ Rising(tlog')
    <3>1. Rising(tlog)
      BY <1>0, <2>1 DEF InTransaction
    <3> QED
      BY <2>1, <2>4, <2>6, <3>1, AppendIds, AppendRising
  <2> QED
    BY <1>0, <2>1, <2>3, <2>7 DEF InTransaction
<1>7. CASE InsertSessionLabel
  <2> DEFINE b == batch[idx]
  <2>1. /\ wpc = "tx" /\ idx \in 1 .. Len(batch) /\ b.kind = "label"
        /\ tlabels' = tlabels \cup {[key |-> b.key, id |-> b.id]} /\ idx' = idx + 1
        /\ UNCHANGED <<log, labels, batch, tlog>>
    BY <1>0, <1>7 DEF InsertSessionLabel, ChainTypes, dbVars
  <2>2. /\ Ours("label", idx + 1) = Ours("label", idx) \cup {b.id}
        /\ Ours("record", idx + 1) = Ours("record", idx)
    BY <1>0, <2>1, OursGrows
  <2>3. /\ Ours("label", idx)' = Ours("label", idx) \cup {b.id}
        /\ Ours("record", idx)' = Ours("record", idx)
    BY <2>1, <2>2 DEF Ours
  <2>4. RowIds(tlabels') = RowIds(tlabels) \cup {b.id}
    <3> DEFINE r == [key |-> b.key, id |-> b.id]
    <3>1. r.id = b.id /\ tlabels' = tlabels \cup {r}
      BY <2>1
    <3> HIDE DEF r, b
    <3> QED
      BY <3>1 DEF RowIds
  <2>5. /\ idx <= Len(batch) + 1 /\ Rising(tlog)
        /\ Ids(tlog) = Ids(log) \cup Ours("record", idx)
        /\ RowIds(tlabels) = RowIds(labels) \cup Ours("label", idx)
    BY <1>0, <2>1 DEF InTransaction
  <2> HIDE DEF b
  <2>6. idx' <= Len(batch') + 1 /\ Rising(tlog')
    BY <1>0, <2>1, <2>5
  <2>7. Ids(tlog') = Ids(log') \cup Ours("record", idx)'
    BY <2>1, <2>3, <2>5
  <2>8. RowIds(tlabels') = RowIds(labels') \cup Ours("label", idx)'
    BY <2>1, <2>3, <2>4, <2>5
  <2> QED
    BY <2>6, <2>7, <2>8 DEF InTransaction
<1>8. CASE \/ Receive \/ DrainReceive \/ TimerFires \/ Done \/ DrainFlush \/ Commit \/ WriteFails
           \/ EmitCheckpoint \/ Crash \/ Restart
  BY <1>1, <1>8 DEF Receive, DrainReceive, TimerFires, Done, DrainFlush, Commit, WriteFails,
                    EmitCheckpoint, Crash, Restart
<1>9. CASE Count \/ SaveCheckpointSeq
  <2>1. back \in {"loop", "stopped"} /\ wpc' \in {"emit", back}
    BY <1>0, <1>9 DEF Count, SaveCheckpointSeq, ChainTypes
  <2> QED
    BY <1>1, <2>1
<1> QED
  BY <1>3, <1>4, <1>5, <1>6, <1>7, <1>8, <1>9 DEF Next, Writer, Flush

(* An item changes its place, but never has two or none.                   *)
LEMMA OnePlaceStep ==
  ASSUME ConserveInv, [Next]_vars
  PROVE  OnePlace'
<1>0. ChainTypes /\ Ordered /\ OnePlace /\ nextId \in Nat /\ nextId >= 1
  BY DEF ConserveInv, ChainInv, ChainTypes, Ordered
<1>1. ASSUME UNCHANGED <<nextId, refused, failed, crashed>>,
             InMemory' = InMemory, Persisted' = Persisted
      PROVE  OnePlace'
  BY <1>0, <1>1 DEF OnePlace, Elsewhere, Accepted
<1>2. CASE WriteRecord \/ WriteSessionLabel
  <2>1. UNCHANGED <<log, labels, batch, wpc, failed, crashed>> /\ nextId' = nextId + 1
    BY <1>0, <1>2, EnqueueStep DEF dbVars, histVars
  <2>2. Persisted' = Persisted
    BY <2>1 DEF Persisted
  <2>3. 1 .. nextId' - 1 = (1 .. nextId - 1) \cup {nextId} /\ nextId \notin 1 .. nextId - 1
    BY <1>0, <2>1
  <2>4. CASE ch' = ch /\ refused' = refused \cup {nextId}
    <3>1. InMemory' = InMemory
      BY <2>1, <2>4 DEF InMemory
    <3>2. Accepted' = Accepted
      BY <1>0, <2>3, <2>4 DEF Accepted, OnePlace
    <3> QED
      BY <1>0, <2>1, <2>2, <2>3, <2>4, <3>1, <3>2 DEF OnePlace, Elsewhere
  <2>5. ASSUME NEW x \in Item, x.id = nextId, ch' = Append(ch, x), refused' = refused
        PROVE  OnePlace'
    <3>1. Ids(ch') = Ids(ch) \cup {nextId}
      BY <1>0, <2>5, AppendIds DEF ChainTypes
    <3>2. InMemory' = InMemory \cup {nextId}
      BY <2>1, <3>1 DEF InMemory
    <3>3. Accepted' = Accepted \cup {nextId} /\ nextId \notin Accepted
      BY <1>0, <2>3, <2>5 DEF Accepted, OnePlace
    <3> QED
      BY <1>0, <2>1, <2>2, <2>3, <2>5, <3>2, <3>3 DEF OnePlace, Elsewhere
  <2> QED
    BY <1>0, <1>2, <2>4, <2>5, EnqueueStep
<1>3. CASE Receive \/ DrainReceive
  <2>1. /\ Ids(batch') = Ids(batch) \cup {Head(ch).id}
        /\ Ids(ch) = {Head(ch).id} \cup Ids(ch')
        /\ wpc \in {"loop", "drain"} /\ wpc' \in {"loop", "begin", "drain"}
        /\ UNCHANGED <<log, labels, nextId, refused, failed, crashed>>
    BY <1>0, <1>3, ReceiveStep DEF Ordered, dbVars, histVars
  <2>2. InMemory' = InMemory
    BY <2>1 DEF InMemory
  <2>3. Persisted' = Persisted
    BY <2>1 DEF Persisted
  <2> QED
    BY <1>1, <2>1, <2>2, <2>3
<1>4. CASE Commit
  <2>1. /\ wpc = "tx" /\ wpc' = "count" /\ log' = tlog /\ labels' = tlabels
        /\ idx > Len(batch) /\ idx \in Nat
        /\ UNCHANGED <<ch, batch, nextId, refused, failed, crashed>>
    BY <1>0, <1>4 DEF Commit, enqVars, histVars, ChainTypes
  <2>2. /\ Ids(tlog) = Ids(log) \cup Ours("record", idx)
        /\ RowIds(tlabels) = RowIds(labels) \cup Ours("label", idx)
    BY <2>1 DEF ConserveInv, InTransaction
  <2>3. Ours("record", idx) \cup Ours("label", idx) = Ids(batch)
    BY <1>0, <2>1, OursBounds DEF Ordered
  <2>4. Persisted' = Persisted \cup Ids(batch)
    BY <2>1, <2>2, <2>3 DEF Persisted, RowIds
  <2>5. InMemory = Ids(ch) \cup Ids(batch) /\ InMemory' = Ids(ch)
    BY <2>1 DEF InMemory
  <2>6. Ids(ch) \cap Ids(batch) = {}
    BY <1>0, IdsNat DEF Ordered, Below
  <2>7. Accepted' = Accepted
    BY <2>1 DEF Accepted
  <2> QED
    BY <1>0, <2>1, <2>4, <2>5, <2>6, <2>7 DEF OnePlace, Elsewhere
<1>5. CASE WriteFails
  <2>1. /\ wpc \in {"begin", "tx"} /\ wpc' = "count" /\ failed' = failed \cup Ids(batch)
        /\ UNCHANGED <<log, labels, ch, batch, nextId, refused, crashed>>
    BY <1>5 DEF WriteFails, dbVars, enqVars
  <2>2. InMemory = Ids(ch) \cup Ids(batch) /\ InMemory' = Ids(ch)
    BY <2>1 DEF InMemory
  <2>3. Ids(ch) \cap Ids(batch) = {}
    BY <1>0, IdsNat DEF Ordered, Below
  <2>4. Accepted' = Accepted /\ Persisted' = Persisted
    BY <2>1 DEF Accepted, Persisted
  <2> QED
    BY <1>0, <2>1, <2>2, <2>3, <2>4 DEF OnePlace, Elsewhere
<1>6. CASE Count
  <2>1. /\ wpc = "count" /\ batch' = <<>> /\ wpc' \in {"emit", back}
        /\ UNCHANGED <<log, labels, ch, nextId, refused, failed, crashed>>
    BY <1>6 DEF Count, dbVars, enqVars, histVars
  <2>2. InMemory' = InMemory
    BY <1>0, <2>1, IdsEmpty DEF InMemory, ChainTypes
  <2>3. Persisted' = Persisted
    BY <2>1 DEF Persisted
  <2> QED
    BY <1>1, <2>1, <2>2, <2>3
<1>7. CASE Crash
  <2>1. /\ crashed' = crashed \cup InMemory /\ ch' = <<>> /\ batch' = <<>>
        /\ UNCHANGED <<log, labels, nextId, refused, failed>>
    BY <1>7 DEF Crash, dbVars, InMemory
  <2>2. InMemory' = {}
    BY <2>1, IdsEmpty DEF InMemory
  <2>3. Accepted' = Accepted /\ Persisted' = Persisted
    BY <2>1 DEF Accepted, Persisted
  <2> QED
    BY <1>0, <2>1, <2>2, <2>3 DEF OnePlace, Elsewhere
<1>8. CASE \/ UNCHANGED vars \/ Cancel \/ TimerFires \/ Done \/ DrainFlush \/ Begin \/ InsertRecord
           \/ InsertSessionLabel \/ EmitCheckpoint \/ SaveCheckpointSeq \/ Restart
  <2>1. /\ UNCHANGED <<log, labels, ch, batch, nextId, refused, failed, crashed>>
        /\ wpc = "count" <=> wpc' = "count"
    BY <1>0, <1>8 DEF vars, dbVars, enqVars, histVars, Cancel, TimerFires, Done, DrainFlush,
                      Begin, InsertRecord, InsertSessionLabel, EmitCheckpoint,
                      SaveCheckpointSeq, Restart, ChainTypes
  <2>2. InMemory' = InMemory
    BY <2>1 DEF InMemory
  <2>3. Persisted' = Persisted
    BY <2>1 DEF Persisted
  <2> QED
    BY <1>1, <2>1, <2>2, <2>3
<1> QED
  BY <1>2, <1>3, <1>4, <1>5, <1>6, <1>7, <1>8 DEF Next, Writer, Flush

(* The way out of the writer.                                              *)
LEMMA WayOutStep ==
  ASSUME ConserveInv, [Next]_vars
  PROVE  WayOut'
<1>0. ChainTypes /\ Ordered /\ WayOut /\ nextId \in Nat /\ mark \in Nat /\ mark <= nextId
  BY DEF ConserveInv, ChainInv, ChainTypes, WayOut
<1>1. CASE WriteRecord \/ WriteSessionLabel
  <2>1. UNCHANGED <<batch, wpc, back, cancelled, mark>> /\ nextId' = nextId + 1 /\ wpc # "down"
    BY <1>0, <1>1, EnqueueStep DEF ctlVars, WriteRecord, WriteSessionLabel
  <2>2. CASE ch' = ch
    BY <1>0, <2>1, <2>2 DEF WayOut
  <2>3. ASSUME NEW x \in Item, x.id = nextId, ch' = Append(ch, x) PROVE WayOut'
    <3>1. Len(ch') = Len(ch) + 1 /\ ch'[Len(ch) + 1] = x /\ Len(ch) \in Nat
          /\ \A n \in 1 .. Len(ch) : ch'[n] = ch[n]
      BY <1>0, <2>3 DEF ChainTypes
    <3>2. ASSUME back = "stopped", NEW n \in 1 .. Len(ch') PROVE ch'[n].id >= mark
      <4>1. n \in 1 .. Len(ch) \/ n = Len(ch) + 1
        BY <3>1
      <4> QED
        BY <1>0, <2>3, <3>1, <3>2, <4>1 DEF WayOut
    <3> QED
      BY <1>0, <2>1, <3>2 DEF WayOut
  <2> QED
    BY <1>0, <1>1, <2>2, <2>3, EnqueueStep
<1>2. CASE Receive \/ DrainReceive
  <2>1. /\ wpc \in {"loop", "drain"} /\ wpc' \in {"loop", "begin", "drain"}
        /\ wpc' = "drain" => wpc = "drain"
        /\ back' \in {"loop", back} /\ UNCHANGED <<nextId, cancelled, mark>>
    BY <1>2 DEF Receive, DrainReceive, ctlVars
  <2>2. back' # "stopped"
    BY <1>0, <2>1 DEF WayOut
  <2> QED
    BY <1>0, <2>1, <2>2 DEF WayOut
<1>3. CASE Cancel
  <2>1. /\ ~ cancelled /\ cancelled' /\ mark' = nextId
        /\ UNCHANGED <<nextId, ch, batch, wpc, back>>
    BY <1>3 DEF Cancel, enqVars
  <2> QED
    BY <1>0, <2>1 DEF WayOut
<1>4. CASE TimerFires \/ Done
  <2>1. /\ wpc = "loop" /\ wpc' \in {"begin", "drain"} /\ (wpc' = "drain" => cancelled)
        /\ back' \in {back, "loop"} /\ UNCHANGED <<nextId, ch, batch, cancelled, mark>>
    BY <1>4 DEF TimerFires, Done, enqVars, ctlVars
  <2>2. back' # "stopped"
    BY <1>0, <2>1 DEF WayOut
  <2> QED
    BY <1>0, <2>1, <2>2 DEF WayOut
<1>5. CASE DrainFlush
  <2>1. /\ wpc = "drain" /\ ch = <<>> /\ back' = "stopped"
        /\ wpc' = "begin" \/ (wpc' = "stopped" /\ batch = <<>>)
        /\ UNCHANGED <<nextId, ch, batch, cancelled, mark>>
    BY <1>5 DEF DrainFlush, enqVars, ctlVars
  <2> QED
    BY <1>0, <2>1 DEF WayOut
<1>6. CASE Begin \/ InsertRecord \/ InsertSessionLabel \/ Commit \/ WriteFails \/ EmitCheckpoint
  <2>1. /\ UNCHANGED <<nextId, ch, batch, cancelled, mark, back>>
        /\ \/ wpc \in {"begin", "tx"} /\ wpc' \in {"tx", "count"}
           \/ wpc = "emit" /\ wpc' = "save"
    BY <1>6 DEF Begin, InsertRecord, InsertSessionLabel, Commit, WriteFails, EmitCheckpoint,
                enqVars, ctlVars
  <2> QED
    BY <1>0, <2>1 DEF WayOut
<1>7. CASE Count \/ SaveCheckpointSeq
  <2>1. /\ UNCHANGED <<nextId, ch, cancelled, mark, back>>
        /\ batch' = <<>> /\ wpc \in {"count", "save"}
        /\ wpc' \in {"emit", back}
    BY <1>0, <1>7 DEF Count, SaveCheckpointSeq, enqVars, ctlVars, WayOut
  <2> QED
    BY <1>0, <2>1 DEF WayOut, ChainTypes
<1>8. CASE Crash
  BY <1>0, <1>8 DEF WayOut, Crash
<1>9. CASE Restart
  BY <1>0, <1>9 DEF WayOut, Restart, ctlVars
<1>10. CASE UNCHANGED vars
  BY <1>0, <1>10 DEF WayOut, vars, enqVars, ctlVars
<1> QED
  BY <1>1, <1>2, <1>3, <1>4, <1>5, <1>6, <1>7, <1>8, <1>9, <1>10 DEF Next, Writer, Flush

(* An accepted item is in exactly one place, records are stored in the     *)
(* order of their acceptance, and a writer that has stopped has written    *)
(* all that was accepted before the cancellation.                          *)
THEOREM ConservedHolds == Spec => []Conserved
<1>1. ConserveInv => Conserved
  <2> SUFFICES ASSUME ConserveInv PROVE Conserved
    OBVIOUS
  <2>1. ASSUME wpc = "stopped", NEW i \in InMemory PROVE i >= mark
    <3>1. back = "stopped" /\ batch = <<>>
      BY <2>1 DEF ConserveInv, WayOut
    <3>2. i \in Ids(ch)
      BY <2>1, <3>1, IdsEmpty DEF InMemory
    <3> QED
      BY <3>1, <3>2 DEF ConserveInv, WayOut, Ids
  <2> QED
    BY <2>1 DEF ConserveInv, Conserved, OnePlace, Ordered, Rising, Elsewhere
<1>2. ConserveInv /\ [Next]_vars => ConserveInv'
  BY StepChain, OrderedStep, InTransactionStep, OnePlaceStep, WayOutStep DEF ConserveInv
<1> QED
  BY <1>1, <1>2, InitConserve, PTL DEF Spec

-----------------------------------------------------------------------------
(* Checkpoints.                                                            *)
(* The hash h is the zero hash or that of a row of l.                      *)
Held(h, l) == h = ZeroHash \/ \E m \in 1 .. Len(l) : l[m].hash = h

Checkpoints == [seq : Nat, hash : Hashes, prev : Seq(Hashes), count : Nat]
CheckpointTypes ==
  /\ emitted \in Seq(Checkpoints)
  /\ since \in Nat /\ ckSeq \in Nat /\ savedSeq \in Nat /\ prevCk \in Hashes

(* What the writer would put into a checkpoint is in the database, and     *)
(* what a transaction would make of it is in what the transaction commits. *)
CheckpointInv ==
  /\ ChainInv /\ CheckpointTypes
  /\ Held(prevHash, log)
  /\ wpc = "tx" => Held(cur, tlog)
  /\ CheckpointDurable

LEMMA HeldGrows ==
  ASSUME NEW l \in Seq(Rows), NEW m \in Seq(Rows), Extends(l, m), NEW h, Held(h, l)
  PROVE  Held(h, m)
BY DEF Held, Extends

LEMMA InitCheckpoint == Init => CheckpointInv
<1> SUFFICES ASSUME Init PROVE CheckpointInv
  OBVIOUS
<1>1. ChainInv
  BY InitChain
<1>2. CheckpointTypes
  BY ZeroHashType DEF Init, CheckpointTypes
<1> QED
  BY <1>1, <1>2 DEF Init, CheckpointInv, Held, CheckpointDurable

LEMMA CheckpointTypesStep ==
  ASSUME ChainInv, CheckpointTypes, [Next]_vars
  PROVE  CheckpointTypes'
<1>0. ChainTypes /\ Len(batch) \in Nat
  BY DEF ChainInv, ChainTypes
<1>1. CASE Count
  <2> DEFINE K == {m \in 1 .. Len(batch) : batch[m].kind = "record"}
  <2>1. IsFiniteSet(1 .. Len(batch)) /\ K \subseteq 1 .. Len(batch)
    BY <1>0, FS_Interval
  <2>2. Cardinality(K) \in Nat
    BY <2>1, FS_Subset, FS_CardinalityType
  <2>3. since' = since + Cardinality(K) /\ UNCHANGED <<emitted, ckSeq, savedSeq, prevCk>>
    BY <1>1 DEF Count, dbVars
  <2> HIDE DEF K
  <2> QED
    BY <2>2, <2>3 DEF CheckpointTypes
<1>2. CASE EmitCheckpoint
  <2> DEFINE c == [seq |-> ckSeq + 1, hash |-> prevHash,
                   prev |-> IF ckSeq + 1 > 1 THEN <<prevCk>> ELSE <<>>, count |-> since]
  <2>1. /\ ckSeq' = ckSeq + 1 /\ emitted' = Append(emitted, c)
        /\ prevCk' = prevHash /\ since' = 0 /\ savedSeq' = savedSeq
    BY <1>2 DEF EmitCheckpoint, dbVars
  <2>2. c \in Checkpoints
    <3>1. (IF ckSeq + 1 > 1 THEN <<prevCk>> ELSE <<>>) \in Seq(Hashes)
      BY DEF CheckpointTypes
    <3> QED
      BY <1>0, <3>1 DEF CheckpointTypes, ChainTypes, Checkpoints
  <2> HIDE DEF c
  <2> QED
    BY <1>0, <2>1, <2>2 DEF CheckpointTypes, ChainTypes
<1>3. CASE SaveCheckpointSeq
  BY <1>3 DEF SaveCheckpointSeq, CheckpointTypes, ckVars
<1>4. CASE Restart
  BY <1>4, ZeroHashType DEF Restart, CheckpointTypes, dbVars
<1>5. CASE UNCHANGED <<emitted, since, ckSeq, savedSeq, prevCk>>
  BY <1>5 DEF CheckpointTypes
<1> QED
  BY <1>1, <1>2, <1>3, <1>4, <1>5
  DEF Next, Writer, Flush, vars, dbVars, ckVars, WriteRecord, WriteSessionLabel, Cancel,
      Receive, TimerFires, Done, DrainReceive, DrainFlush, Begin, InsertRecord,
      InsertSessionLabel, Commit, WriteFails, Crash

LEMMA CheckpointStep ==
  ASSUME CheckpointInv, [Next]_vars
  PROVE  CheckpointInv'
<1>0. /\ ChainInv /\ ChainInv' /\ CheckpointTypes /\ CheckpointTypes'
      /\ log \in Seq(Rows) /\ tlog \in Seq(Rows) /\ log' \in Seq(Rows) /\ tlog' \in Seq(Rows)
  BY StepChain, CheckpointTypesStep DEF CheckpointInv, ChainInv, ChainTypes
<1>1. /\ Held(prevHash, log) /\ (wpc = "tx" => Held(cur, tlog) /\ Extends(log, tlog))
      /\ \A n \in 1 .. Len(emitted) : Held(emitted[n].hash, log)
  BY DEF CheckpointInv, CheckpointDurable, Held, ChainInv
<1>2. SUFFICES /\ Held(prevHash', log') /\ (wpc' = "tx" => Held(cur', tlog'))
               /\ \A n \in 1 .. Len(emitted') : Held(emitted'[n].hash, log')
  BY <1>0 DEF CheckpointInv, CheckpointDurable, Held
<1>3. CASE Commit
  <2>1. /\ log' = tlog /\ prevHash' = cur /\ wpc = "tx" /\ wpc' = "count" /\ emitted' = emitted
    BY <1>3 DEF Commit, ckVars
  <2> QED
    BY <1>0, <1>1, <2>1, HeldGrows
<1>4. CASE Begin
  <2>1. /\ tlog' = log /\ cur' = prevHash /\ UNCHANGED <<log, prevHash, emitted>>
    BY <1>4 DEF Begin, dbVars, ckVars
  <2> QED
    BY <1>1, <2>1
<1>5. CASE InsertRecord
  <2> DEFINE row == [id |-> batch[idx].id, hash |-> chainHash(cur, batch[idx].id)]
  <2>1. /\ tlog' = Append(tlog, row) /\ cur' = row.hash /\ UNCHANGED <<log, prevHash, emitted>>
    BY <1>5 DEF InsertRecord, dbVars, ckVars
  <2> HIDE DEF row
  <2>2. Len(tlog') = Len(tlog) + 1 /\ tlog'[Len(tlog) + 1] = row /\ Len(tlog) \in Nat
    BY <1>0, <2>1
  <2>3. Held(cur', tlog')
    BY <2>1, <2>2 DEF Held
  <2> QED
    BY <1>1, <2>1, <2>3
<1>6. CASE EmitCheckpoint
  <2>1. /\ \E c : c.hash = prevHash /\ emitted' = Append(emitted, c)
        /\ wpc' = "save" /\ UNCHANGED <<log, prevHash>>
    BY <1>6 DEF EmitCheckpoint, dbVars
  <2>2. PICK c : c.hash = prevHash /\ emitted' = Append(emitted, c)
    BY <2>1
  <2>3. /\ Len(emitted') = Len(emitted) + 1 /\ Len(emitted) \in Nat
        /\ emitted'[Len(emitted) + 1] = c
        /\ \A n \in 1 .. Len(emitted) : emitted'[n] = emitted[n]
    BY <1>0, <2>2 DEF CheckpointTypes
  <2>4. ASSUME NEW n \in 1 .. Len(emitted') PROVE Held(emitted'[n].hash, log')
    <3>1. n \in 1 .. Len(emitted) \/ n = Len(emitted) + 1
      BY <2>3
    <3> QED
      BY <1>1, <2>1, <2>2, <2>3, <3>1
  <2> QED
    BY <1>1, <2>1, <2>4
<1>7. CASE Restart
  <2>1. /\ prevHash' \in {LastHash(log), ZeroHash} /\ wpc' = "loop"
        /\ UNCHANGED <<log, emitted>>
    BY <1>7 DEF Restart, dbVars
  <2>2. Held(LastHash(log), log)
    <3>1. log = <<>> \/ Len(log) \in 1 .. Len(log)
      BY <1>0
    <3> QED
      BY <3>1 DEF Held, LastHash
  <2> QED
    BY <1>1, <2>1, <2>2 DEF Held
<1>8. CASE UNCHANGED <<log, prevHash, emitted>> /\ (wpc' = "tx" => wpc = "tx" /\ UNCHANGED <<tlog, cur>>)
  BY <1>1, <1>8
<1>9. CASE Count \/ SaveCheckpointSeq
  <2>1. back \in {"loop", "stopped"} /\ wpc' \in {"emit", back} /\ UNCHANGED <<log, prevHash, emitted>>
    BY <1>0, <1>9 DEF Count, SaveCheckpointSeq, ChainInv, ChainTypes, dbVars, ckVars
  <2> QED
    BY <1>8, <2>1
<1>10. CASE \/ UNCHANGED vars \/ WriteRecord \/ WriteSessionLabel \/ Cancel \/ Receive \/ TimerFires
            \/ Done \/ DrainReceive \/ DrainFlush \/ InsertSessionLabel \/ WriteFails \/ Crash
  BY <1>8, <1>10
  DEF vars, dbVars, ckVars, txVars, WriteRecord, WriteSessionLabel, Cancel, Receive, TimerFires,
      Done, DrainReceive, DrainFlush, InsertSessionLabel, WriteFails, Crash
<1> QED
  BY <1>3, <1>4, <1>5, <1>6, <1>7, <1>9, <1>10 DEF Next, Writer, Flush

(* No checkpoint handed to emitFn names a hash that the database does not  *)
(* hold, at the time or ever after (audit.go 132-141).                     *)
THEOREM CheckpointDurableHolds == Spec => []CheckpointDurable
<1>1. CheckpointInv => CheckpointDurable
  BY DEF CheckpointInv
<1>2. CheckpointInv /\ [Next]_vars => CheckpointInv'
  BY CheckpointStep
<1> QED
  BY <1>1, <1>2, InitCheckpoint, PTL DEF Spec
=============================================================================
