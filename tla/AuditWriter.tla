----------------------------- MODULE AuditWriter -----------------------------
(***************************************************************************)
(* The audit writer of internal/audit/audit.go: request goroutines enqueue *)
(* records and label changes on a bounded channel without blocking; one    *)
(* goroutine batches them and writes each batch in one SQLite transaction, *)
(* chaining the records by hash; every CheckpointEvery records it emits a  *)
(* checkpoint.  The process can crash at any point and be started again on *)
(* the same database, and any statement can fail.                          *)
(*                                                                         *)
(* A hash is modelled by the sequence of record ids it was computed from:  *)
(* equal hashes have equal histories.                                      *)
(***************************************************************************)
EXTENDS Integers, Sequences, FiniteSets

CONSTANTS ChannelCap, BatchSize, CheckpointEvery,  \* 1024, 64, 100 in the code
          LabelKeys,     \* (session_id, changed_at), primary key of session_labels
          MaxItems, MaxRestarts   \* bounds of the model

ASSUME SizesAssumption == /\ ChannelCap \in Nat \ {0} /\ BatchSize \in Nat \ {0}
                          /\ CheckpointEvery \in Nat \ {0}
                          /\ MaxItems \in Nat /\ MaxRestarts \in Nat

VARIABLES
  \* the database
  log,       \* audit_log: rows [id, hash]
  labels,    \* session_labels: rows [key, id]
  savedSeq,  \* audit_meta: checkpoint_seq
  \* the writer
  ch,        \* channel of items
  cancelled, \* ctx is cancelled
  wpc,       \* where the writer goroutine is
  back,      \* where flush returns to
  batch, prevHash,
  tlog, tlabels, cur, idx,   \* the transaction: its view, the hash, the item
  since, ckSeq, prevCk,      \* recordsSinceCheckpoint, checkpointSeq, prevCheckpointHash
  dropped,
  \* history
  nextId, restarts,
  emitted,   \* checkpoints handed to emitFn
  refused,   \* items dropped on a full channel
  failed,    \* items of batches whose transaction failed
  crashed,   \* items in memory at a crash, or left in the channel of a stopped writer
  blind,     \* starts that did not get the last hash of a log with rows
  mark       \* first item enqueued after the cancellation

dbVars == <<log, labels, savedSeq>>
txVars == <<tlog, tlabels, cur, idx>>
ckVars == <<since, ckSeq, prevCk, emitted>>
histVars == <<restarts, failed, crashed, blind>>
enqVars == <<ch, nextId, dropped, refused>>
ctlVars == <<cancelled, mark>>
vars == <<dbVars, enqVars, ctlVars, wpc, back, batch, prevHash, txVars, ckVars, histVars>>

Item == [kind : {"record", "label"}, id : Nat, key : LabelKeys]
Ids(s) == {s[n].id : n \in 1 .. Len(s)}

ZeroHash == <<>>
chainHash(prev, r) == Append(prev, r)
LastHash(l) == IF l = <<>> THEN ZeroHash ELSE l[Len(l)].hash

Init ==
  /\ log = <<>> /\ labels = {} /\ savedSeq = 0
  /\ ch = <<>> /\ nextId = 1 /\ dropped = 0 /\ refused = {}
  /\ cancelled = FALSE /\ mark = 0
  /\ wpc = "loop" /\ back = "loop" /\ batch = <<>> /\ prevHash = ZeroHash
  /\ tlog = <<>> /\ tlabels = {} /\ cur = ZeroHash /\ idx = 0
  /\ since = 0 /\ ckSeq = 0 /\ prevCk = ZeroHash /\ emitted = <<>>
  /\ restarts = 0 /\ failed = {} /\ crashed = {} /\ blind = 0

-----------------------------------------------------------------------------
(* A send in a select with a default: a full channel drops the item.       *)
Enqueue(item) ==
  \/ /\ Len(ch) < ChannelCap
     /\ ch' = Append(ch, item)
     /\ UNCHANGED <<dropped, refused>>
  \/ /\ Len(ch) >= ChannelCap
     /\ dropped' = dropped + 1
     /\ refused' = refused \cup {item.id}
     /\ UNCHANGED ch

WriteRecord ==
  /\ wpc # "down" /\ nextId <= MaxItems
  /\ \E k \in LabelKeys : Enqueue([kind |-> "record", id |-> nextId, key |-> k])
  /\ nextId' = nextId + 1
  /\ UNCHANGED <<dbVars, ctlVars, wpc, back, batch, prevHash, txVars, ckVars, histVars>>

WriteSessionLabel ==
  /\ wpc # "down" /\ nextId <= MaxItems
  /\ \E k \in LabelKeys : Enqueue([kind |-> "label", id |-> nextId, key |-> k])
  /\ nextId' = nextId + 1
  /\ UNCHANGED <<dbVars, ctlVars, wpc, back, batch, prevHash, txVars, ckVars, histVars>>

Cancel ==
  /\ wpc # "down" /\ ~ cancelled
  /\ cancelled' = TRUE /\ mark' = nextId
  /\ UNCHANGED <<dbVars, enqVars, wpc, back, batch, prevHash, txVars, ckVars, histVars>>

-----------------------------------------------------------------------------
(* The select of Start: an item is received, and a full batch is flushed.  *)
Receive ==
  /\ wpc = "loop" /\ ch # <<>>
  /\ batch' = Append(batch, Head(ch)) /\ ch' = Tail(ch)
  /\ wpc' = IF Len(batch') >= BatchSize THEN "begin" ELSE "loop"
  /\ back' = "loop"
  /\ UNCHANGED <<dbVars, nextId, dropped, refused, ctlVars, prevHash, txVars, ckVars, histVars>>

(* Mutant: the timer is not reset after a flush, so it fires only when the *)
(* writer has never flushed.                                               *)
TimerFiresOnce ==
  /\ wpc = "loop" /\ batch # <<>> /\ log = <<>>
  /\ wpc' = "begin" /\ back' = "loop"
  /\ UNCHANGED <<dbVars, enqVars, ctlVars, batch, prevHash, txVars, ckVars, histVars>>

(* The batch timer fires; an empty batch is not flushed.                   *)
TimerFires ==
  /\ wpc = "loop" /\ batch # <<>>
  /\ wpc' = "begin" /\ back' = "loop"
  /\ UNCHANGED <<dbVars, enqVars, ctlVars, batch, prevHash, txVars, ckVars, histVars>>

(* Mutant: the drain starts with a new batch.                              *)
DoneDropsBatch ==
  /\ wpc = "loop" /\ cancelled
  /\ wpc' = "drain" /\ batch' = <<>>
  /\ UNCHANGED <<dbVars, enqVars, ctlVars, back, prevHash, txVars, ckVars, histVars>>

(* ctx.Done is selected: the channel is drained, ...                       *)
Done ==
  /\ wpc = "loop" /\ cancelled
  /\ wpc' = "drain"
  /\ UNCHANGED <<dbVars, enqVars, ctlVars, back, batch, prevHash, txVars, ckVars, histVars>>

DrainReceive ==
  /\ wpc = "drain" /\ ch # <<>>
  /\ batch' = Append(batch, Head(ch)) /\ ch' = Tail(ch)
  /\ UNCHANGED <<dbVars, nextId, dropped, refused, ctlVars, wpc, back, prevHash, txVars, ckVars, histVars>>

(* ... and when it is empty the rest is flushed and Start returns.         *)
DrainFlush ==
  /\ wpc = "drain" /\ ch = <<>>
  /\ wpc' = (IF batch = <<>> THEN "stopped" ELSE "begin") /\ back' = "stopped"
  /\ UNCHANGED <<dbVars, enqVars, ctlVars, batch, prevHash, txVars, ckVars, histVars>>

-----------------------------------------------------------------------------
(* writeBatch: one transaction.                                            *)
Begin ==
  /\ wpc = "begin"
  /\ tlog' = log /\ tlabels' = labels /\ cur' = prevHash /\ idx' = 1
  /\ wpc' = "tx"
  /\ UNCHANGED <<dbVars, enqVars, ctlVars, back, batch, prevHash, ckVars, histVars>>

InsertRecord ==
  LET r == batch[idx].id
  IN  /\ wpc = "tx" /\ idx <= Len(batch) /\ batch[idx].kind = "record"
      /\ tlog' = Append(tlog, [id |-> r, hash |-> chainHash(cur, r)])
      /\ cur' = chainHash(cur, r)
      /\ idx' = idx + 1
      /\ UNCHANGED <<dbVars, enqVars, ctlVars, wpc, back, batch, prevHash, tlabels, ckVars, histVars>>

(* The row violates the primary key when the session has a label change    *)
(* with the same timestamp: then only WriteFails is possible.              *)
InsertSessionLabel ==
  LET r == batch[idx]
  IN  /\ wpc = "tx" /\ idx <= Len(batch) /\ r.kind = "label"
      /\ \A row \in tlabels : row.key # r.key
      /\ tlabels' = tlabels \cup {[key |-> r.key, id |-> r.id]}
      /\ idx' = idx + 1
      /\ UNCHANGED <<dbVars, enqVars, ctlVars, wpc, back, batch, prevHash, tlog, cur, ckVars, histVars>>

Commit ==
  /\ wpc = "tx" /\ idx > Len(batch)
  /\ log' = tlog /\ labels' = tlabels
  /\ prevHash' = cur
  /\ tlog' = <<>> /\ tlabels' = {} /\ cur' = ZeroHash /\ idx' = 0
  /\ wpc' = "count"
  /\ UNCHANGED <<savedSeq, enqVars, ctlVars, back, batch, ckVars, histVars>>

(* Mutant: a failed batch returns the hash it had reached.                 *)
WriteFailsAdvancesHash ==
  /\ wpc \in {"begin", "tx"}
  /\ prevHash' = IF wpc = "tx" THEN cur ELSE prevHash
  /\ failed' = failed \cup Ids(batch)
  /\ tlog' = <<>> /\ tlabels' = {} /\ cur' = ZeroHash /\ idx' = 0
  /\ wpc' = "count"
  /\ UNCHANGED <<dbVars, enqVars, ctlVars, back, batch, ckVars, restarts, crashed, blind>>

(* Begin, an INSERT or Commit fails: rollback, the hash is unchanged.      *)
WriteFails ==
  /\ wpc \in {"begin", "tx"}
  /\ failed' = failed \cup Ids(batch)
  /\ tlog' = <<>> /\ tlabels' = {} /\ cur' = ZeroHash /\ idx' = 0
  /\ wpc' = "count"
  /\ UNCHANGED <<dbVars, enqVars, ctlVars, back, batch, prevHash, ckVars, restarts, crashed, blind>>

(* The rest of flush: records are counted, whether they were written or    *)
(* not, and the batch is emptied.                                          *)
Count ==
  LET n == since + Cardinality({m \in 1 .. Len(batch) : batch[m].kind = "record"})
  IN  /\ wpc = "count"
      /\ since' = n
      /\ batch' = <<>>
      /\ wpc' = IF n >= CheckpointEvery THEN "emit" ELSE back
      /\ UNCHANGED <<dbVars, enqVars, ctlVars, back, prevHash, txVars, ckSeq, prevCk, emitted, histVars>>

(* The checkpoint is handed to emitFn, ...                                 *)
EmitCheckpoint ==
  /\ wpc = "emit"
  /\ ckSeq' = ckSeq + 1
  /\ emitted' = Append(emitted, [seq |-> ckSeq', hash |-> prevHash,
                                 prev |-> IF ckSeq' > 1 THEN <<prevCk>> ELSE <<>>,
                                 count |-> since])
  /\ prevCk' = prevHash /\ since' = 0
  /\ wpc' = "save"
  /\ UNCHANGED <<dbVars, enqVars, ctlVars, back, batch, prevHash, txVars, histVars>>

(* ... then its sequence number is saved; an error is ignored.             *)
SaveCheckpointSeq ==
  /\ wpc = "save"
  /\ savedSeq' \in {savedSeq, ckSeq}
  /\ wpc' = back
  /\ UNCHANGED <<log, labels, enqVars, ctlVars, back, batch, prevHash, txVars, ckVars, histVars>>

-----------------------------------------------------------------------------
(* The process dies, or exits after the writer has stopped: what is in     *)
(* memory is gone, an open transaction is rolled back.                     *)
Crash ==
  /\ wpc # "down" /\ restarts < MaxRestarts
  /\ wpc' = "down" /\ back' = "loop"
  /\ crashed' = crashed \cup Ids(ch) \cup
       (IF wpc = "count" THEN {} ELSE Ids(batch))
  /\ ch' = <<>> /\ batch' = <<>> /\ cancelled' = FALSE /\ mark' = 0
  /\ tlog' = <<>> /\ tlabels' = {} /\ cur' = ZeroHash /\ idx' = 0
  /\ UNCHANGED <<dbVars, nextId, dropped, refused, prevHash, ckVars, restarts, failed, blind>>

(* NewWriter and Start on the same database.  A failing SELECT gives the   *)
(* zero hash, or the checkpoint number zero.                               *)
Restart ==
  /\ wpc = "down"
  /\ restarts' = restarts + 1
  /\ \/ prevHash' = LastHash(log) /\ UNCHANGED blind
     \/ prevHash' = ZeroHash /\ blind' = blind + (IF log = <<>> THEN 0 ELSE 1)
  /\ ckSeq' \in {savedSeq, 0}
  /\ since' = 0 /\ prevCk' = ZeroHash
  /\ dropped' = 0
  /\ wpc' = "loop"
  /\ UNCHANGED <<dbVars, ch, nextId, refused, ctlVars, back, batch, txVars, emitted, failed, crashed>>

-----------------------------------------------------------------------------
Flush == \/ Begin \/ InsertRecord \/ InsertSessionLabel \/ Commit \/ WriteFails
         \/ Count \/ EmitCheckpoint \/ SaveCheckpointSeq
Writer == Receive \/ TimerFires \/ Done \/ DrainReceive \/ DrainFlush \/ Flush
Next == WriteRecord \/ WriteSessionLabel \/ Cancel \/ Writer \/ Crash \/ Restart

Spec == Init /\ [][Next]_vars

(* The writer goroutine is scheduled, and its timer fires.                 *)
FairSpec == Spec /\ WF_vars(Writer) /\ WF_vars(TimerFires)

-----------------------------------------------------------------------------
(* nixis audit verify: recompute each hash from the one before it,         *)
(* starting from the zero hash at the first row.                           *)
runAuditVerify ==
  \A n \in 1 .. Len(log) :
    log[n].hash = chainHash(IF n = 1 THEN ZeroHash ELSE log[n - 1].hash, log[n].id)

Accepted == (1 .. nextId - 1) \ refused
Persisted == Ids(log) \cup {row.id : row \in labels}
InMemory == Ids(ch) \cup (IF wpc = "count" THEN {} ELSE Ids(batch))

(* The stored chain verifies, through failed transactions, crashes in the  *)
(* middle of a batch and restarts, unless a restart could not read the     *)
(* last hash: loadLastChainHash then returns the zero hash (audit.go 373). *)
ChainVerifies == blind = 0 => runAuditVerify

(* Conservation: an accepted item is in exactly one place: in memory, in   *)
(* the database, in a batch whose transaction failed, or lost in a crash;  *)
(* records are stored in the order in which they were accepted; and when   *)
(* the writer has stopped, nothing accepted before the cancellation is     *)
(* left in memory (audit.go 178-205).                                      *)
Conserved ==
  /\ Accepted = InMemory \cup Persisted \cup failed \cup crashed
  /\ InMemory \cap (Persisted \cup failed \cup crashed) = {}
  /\ Persisted \cap (failed \cup crashed) = {} /\ failed \cap crashed = {}
  /\ \A m, n \in 1 .. Len(log) : m < n => log[m].id < log[n].id
  /\ wpc = "stopped" => \A i \in InMemory : i >= mark

(* A checkpoint never names a hash that the database does not hold.        *)
CheckpointDurable ==
  \A n \in 1 .. Len(emitted) :
    \/ emitted[n].hash = ZeroHash
    \/ \E m \in 1 .. Len(log) : log[m].hash = emitted[n].hash

(* Rows are only ever added at the end.                                    *)
LogAppendOnly ==
  [][/\ Len(log') >= Len(log)
     /\ \A n \in 1 .. Len(log) : log'[n] = log[n]]_vars

(* Every accepted item reaches the database, or is in a batch that failed  *)
(* or in a process that died.                                              *)
EventuallyWritten ==
  \A i \in 1 .. MaxItems :
    (i \in InMemory) ~> (i \notin InMemory \/ wpc = "stopped")

-----------------------------------------------------------------------------
(* "A SQLite write failure must not silently produce a partial audit       *)
(* trail": an item that an operating writer no longer holds is persisted,  *)
(* or was counted as dropped.                                              *)
NoSilentGap ==
  restarts = 0 /\ wpc = "loop" =>
    Cardinality((1 .. nextId - 1) \ (Persisted \cup InMemory)) <= dropped
=============================================================================
