----------------------------- MODULE DaemonProofs -----------------------------
(***************************************************************************)
(* Proofs about PidLock and Daemon, for every number of processes, hooks,  *)
(* pid files and slots: the PID file of a running daemon keeps its PID, a  *)
(* daemon that has stopped has had every request it evaluated audited, and *)
(* a daemon that serves owns the socket path.  And about Installation, for *)
(* every clean machine, every circumstances and any number of commands:    *)
(* what setup and uninstall leave where they are interrupted.              *)
(***************************************************************************)
EXTENDS Daemon, Installation, SequenceTheorems, WellFoundedInduction, TLAPS

-----------------------------------------------------------------------------
(* The PID lock on its own.                                                *)

(* Facts about the inode a process has open. *)
LEMMA OpenInode ==
  ASSUME TypeOK, NEW p \in Procs, pc[p] \notin {"down", "closed"}
  PROVE  fd[p] \in Inodes
BY DEF TypeOK, NoInode

LEMMA InodesPositive == NoInode \notin Inodes
BY MaxInodesAssumption DEF Inodes, NoInode

(* Every state the program starts in satisfies the inductive invariant. *)
LEMMA InitInv == Init => PidLockInv
BY MaxInodesAssumption, ProcsAssumption
   DEF Init, PidLockInv, TypeOK, LockerOwnsInode, OwnerPidIntact, Holds,
       Inodes, NoInode, States

(* Types, and the descriptor discipline of TypeOK, are kept by every step. *)
LEMMA TypeStep == PidLockInv /\ [Next]_vars => TypeOK'
<1> SUFFICES ASSUME PidLockInv, [Next]_vars PROVE TypeOK'
  OBVIOUS
<1> USE DEF TypeOK, States
<1>0. TypeOK /\ NoInode \notin Inodes /\ MaxInodes \in Nat
  BY InodesPositive, MaxInodesAssumption DEF PidLockInv
<1>1. CASE UNCHANGED vars
  BY <1>0, <1>1 DEF vars
<1>2. ASSUME NEW p \in Procs, OpenExisting(p) PROVE TypeOK'
  BY <1>0, <1>2 DEF OpenExisting
<1>3. ASSUME NEW p \in Procs, OpenCreate(p) PROVE TypeOK'
  BY <1>0, <1>3, ProcsAssumption DEF OpenCreate
<1>4. ASSUME NEW p \in Procs, FlockWon(p) PROVE TypeOK'
  BY <1>0, <1>4 DEF FlockWon
<1>5. ASSUME NEW p \in Procs, FlockLost(p) PROVE TypeOK'
  BY <1>0, <1>5 DEF FlockLost
<1>6. ASSUME NEW p \in Procs, WritePid(p) PROVE TypeOK'
  BY <1>0, <1>6 DEF WritePid
<1>7. ASSUME NEW p \in Procs, UnlockFlock(p) PROVE TypeOK'
  BY <1>0, <1>7 DEF UnlockFlock
<1>8. ASSUME NEW p \in Procs, UnlockClose(p) PROVE TypeOK'
  BY <1>0, <1>8 DEF UnlockClose, CloseFile
<1>9. ASSUME NEW p \in Procs, UnlockRemove(p) PROVE TypeOK'
  BY <1>0, <1>9 DEF UnlockRemove
<1>10. ASSUME NEW p \in Procs, Die(p) PROVE TypeOK'
  BY <1>0, <1>10 DEF Die, CloseFile
<1> QED
  BY <1>1, <1>2, <1>3, <1>4, <1>5, <1>6, <1>7, <1>8, <1>9, <1>10 DEF Next

(* A lock that is won, released or dropped by the kernel is never the lock *)
(* of another process that believes it holds it.                           *)
LEMMA OwnerStep == PidLockInv /\ [Next]_vars => LockerOwnsInode' /\ OwnerPidIntact'
<1> SUFFICES ASSUME PidLockInv, [Next]_vars
             PROVE  LockerOwnsInode' /\ OwnerPidIntact'
  OBVIOUS
<1> USE ProcsAssumption DEF PidLockInv, LockerOwnsInode, OwnerPidIntact, Holds
<1>a. \A q \in Procs : pc[q] \notin {"down", "closed"} => fd[q] \in Inodes
  BY OpenInode
<1>1. CASE UNCHANGED vars
  BY <1>1 DEF vars
<1>2. ASSUME NEW p \in Procs, OpenExisting(p)
      PROVE LockerOwnsInode' /\ OwnerPidIntact'
  BY <1>2, <1>a DEF OpenExisting, TypeOK
<1>3. ASSUME NEW p \in Procs, OpenCreate(p)
      PROVE LockerOwnsInode' /\ OwnerPidIntact'
  BY <1>3, <1>a DEF OpenCreate, TypeOK
<1>4. ASSUME NEW p \in Procs, FlockWon(p)
      PROVE LockerOwnsInode' /\ OwnerPidIntact'
  BY <1>4, <1>a DEF FlockWon, TypeOK
<1>5. ASSUME NEW p \in Procs, FlockLost(p)
      PROVE LockerOwnsInode' /\ OwnerPidIntact'
  BY <1>5, <1>a DEF FlockLost, TypeOK
<1>6. ASSUME NEW p \in Procs, WritePid(p)
      PROVE LockerOwnsInode' /\ OwnerPidIntact'
  BY <1>6, <1>a DEF WritePid, TypeOK
<1>7. ASSUME NEW p \in Procs, UnlockFlock(p)
      PROVE LockerOwnsInode' /\ OwnerPidIntact'
  BY <1>7, <1>a DEF UnlockFlock, TypeOK
<1>8. ASSUME NEW p \in Procs, UnlockClose(p)
      PROVE LockerOwnsInode' /\ OwnerPidIntact'
  BY <1>8, <1>a DEF UnlockClose, CloseFile, TypeOK
<1>9. ASSUME NEW p \in Procs, UnlockRemove(p)
      PROVE LockerOwnsInode' /\ OwnerPidIntact'
  BY <1>9, <1>a DEF UnlockRemove, TypeOK
<1>10. ASSUME NEW p \in Procs, Die(p)
      PROVE LockerOwnsInode' /\ OwnerPidIntact'
  BY <1>10, <1>a DEF Die, CloseFile, TypeOK
<1> QED
  BY <1>1, <1>2, <1>3, <1>4, <1>5, <1>6, <1>7, <1>8, <1>9, <1>10 DEF Next

(* A daemon that runs is the holder of the inode it opened and its PID is  *)
(* what that inode contains, in every reachable state.                     *)
THEOREM OwnerPidIntactHolds == Spec => []OwnerPidIntact
<1>1. PidLockInv /\ [Next]_vars => PidLockInv'
  BY TypeStep, OwnerStep DEF PidLockInv
<1>2. PidLockInv => OwnerPidIntact
  BY DEF PidLockInv
<1> QED
  BY InitInv, <1>1, <1>2, PTL DEF Spec

-----------------------------------------------------------------------------
(* The daemon.                                                             *)

(* What the two results need of the types.                                 *)
Types ==
  /\ pc \in [Procs -> States]
  /\ run \in [Procs -> RunStates]
  /\ owner \in [Hooks -> Procs \cup {NoProc}]
  /\ conn \in [Hooks -> ConnStates]
  /\ decision \in [Hooks -> {"none", "allow", "deny"}]
  /\ hook \in [Hooks -> HookStates]
  /\ queue \in [Procs -> SUBSET Items]
  /\ sock \in Procs \cup {NoProc}

(* Run advances only while the process holds the lock, and its last state  *)
(* lasts until Unlock has removed the pid file.                            *)
RunUnderLock ==
  \A p \in Procs :
    /\ run[p] \notin {"idle", "returned"} => pc[p] = "running"
    /\ run[p] = "returned" => pc[p] \in {"running", "unlocked", "closed"}

(* The history variable records what it says.                              *)
TwiceSeen == \A p, q \in Procs : p # q /\ Holds(p) /\ Holds(q) => twice

SockInv == Types /\ RunUnderLock /\ TwiceSeen /\ SocketReachable

(* A hook that has not dialled has no connection, and an open connection   *)
(* has an owner.                                                           *)
Connected ==
  \A h \in Hooks :
    /\ hook[h] = "new" => conn[h] = "none"
    /\ conn[h] \notin {"none", "closed"} => owner[h] \in Procs
    /\ decision[h] # "none" => conn[h] \in {"evaluated", "answered", "closed"}
    /\ conn[h] = "none" => decision[h] = "none" /\ owner[h] = NoProc

(* What a live process has evaluated is with its writer or written.        *)
Handed ==
  \A h \in Hooks : owner[h] \in Procs =>
    /\ decision[h] = "allow" => <<h, "label">> \in queue[owner[h]] \cup written
    /\ decision[h] # "none" /\ conn[h] = "closed"
         => <<h, "record">> \in queue[owner[h]] \cup written

(* What each state of the shutdown sequence has waited for.                *)
Waited ==
  \A p \in Procs :
    /\ run[p] \in {"closed", "waiting", "cancelled", "flushed", "returned"}
         => \A h \in Hooks : owner[h] = p => conn[h] # "backlog"
    /\ run[p] \in {"waiting", "cancelled", "flushed", "returned"}
         => \A h \in Hooks : owner[h] = p => conn[h] # "held"
    /\ run[p] \in {"cancelled", "flushed", "returned"}
         => \A h \in Hooks : owner[h] = p => conn[h] \notin InFlightStates
    /\ run[p] \in {"flushed", "returned"} => queue[p] = {}

AuditInv == Types /\ Connected /\ Handed /\ Waited

-----------------------------------------------------------------------------
(* The actions of the lock leave the daemon's variables alone; of pc they  *)
(* change one process.                                                     *)
LEMMA AcquireFacts ==
  ASSUME NEW p \in Procs, Acquire(p), Types
  PROVE  /\ pc[p] \in {"down", "opened", "locked"}
         /\ pc' \in [Procs -> States]
         /\ \A q \in Procs : q # p => pc'[q] = pc[q]
         /\ UNCHANGED dvars
BY DEF Acquire, OpenExisting, OpenCreate, FlockWon, FlockLost, WritePid, Types, States

(* A process that dies is down.                                            *)
LEMMA DieFacts ==
  ASSUME NEW p \in Procs, Die(p), Types
  PROVE  pc' = [pc EXCEPT ![p] = "down"]
BY DEF Die

(* Audit items, and the queue after one is handed over.                    *)
LEMMA ItemsHave == \A h \in Hooks : <<h, "label">> \in Items /\ <<h, "record">> \in Items
BY DEF Items

(* The queue keeps its type, whoever the item is handed to.                *)
LEMMA EnqueueType ==
  ASSUME NEW p, NEW item \in Items, Enqueue(p, item), queue \in [Procs -> SUBSET Items]
  PROVE  queue' \in [Procs -> SUBSET Items]
BY DEF Enqueue

(* Types are kept by every step.                                           *)
LEMMA TypesStep == Types /\ [DaemonNext]_allvars => Types'
<1> SUFFICES ASSUME Types, [DaemonNext]_allvars PROVE Types'
  OBVIOUS
<1> USE DEF vars, lifevars, connvars, hookvars, auditvars, dvars, GoRun, GoConn, Mine, Held
<1>1. CASE UNCHANGED allvars
  BY <1>1 DEF Types, allvars
<1>2. ASSUME NEW p \in Procs, Acquire(p) PROVE Types'
  BY <1>2, AcquireFacts DEF Types
<1>3. ASSUME NEW p \in Procs, DaemonStep(p) PROVE Types'
  <2>1. CASE RemoveStale(p) \/ Listen(p) \/ Stop(p)
    BY <2>1 DEF RemoveStale, Listen, Stop, Types, RunStates, ConnStates
  <2>2. CASE AcceptDone(p) \/ CancelAudit(p) \/ AuditDone(p) \/ RemoveSocket(p)
    BY <2>2 DEF AcceptDone, CancelAudit, AuditDone, RemoveSocket, Types, RunStates
  <2>3. CASE Exit(p)
    BY <2>3 DEF Exit, UnlockFlock, UnlockClose, UnlockRemove, Types, RunStates, States
  <2>4. ASSUME NEW h \in Hooks, Accept(p, h) \/ Admit(p, h) PROVE Types'
    BY <2>4 DEF Accept, Admit, Types, ConnStates, InFlightStates
  <2> QED BY <1>3, <2>1, <2>2, <2>3, <2>4 DEF DaemonStep, Shutdown
<1>4. ASSUME NEW p \in Procs, Crash(p) PROVE Types'
  BY <1>4, DieFacts DEF Crash, Types, States, RunStates, ConnStates
<1>5. ASSUME NEW h \in Hooks, Handler(h) PROVE Types'
  <2>1. CASE ReadFails(h) \/ Refuse(h) \/ Answer(h)
    BY <2>1 DEF ReadFails, Refuse, Answer, Types, ConnStates, InFlightStates
  <2>2. ASSUME NEW d \in {"allow", "deny"}, Evaluate(h, d) PROVE Types'
    <3>1. queue' \in [Procs -> SUBSET Items]
      BY <2>2, EnqueueType, ItemsHave DEF Evaluate, Types
    <3> QED BY <2>2, <3>1 DEF Evaluate, Types, ConnStates, InFlightStates
  <2>3. CASE Record(h)
    <3>1. queue' \in [Procs -> SUBSET Items]
      BY <2>3, EnqueueType, ItemsHave DEF Record, Types
    <3> QED BY <2>3, <3>1 DEF Record, Types, ConnStates, InFlightStates
  <2> QED BY <1>5, <2>1, <2>2, <2>3 DEF Handler
<1>6. ASSUME NEW h \in Hooks, HookStep(h) PROVE Types'
  <2>1. CASE Dial(h)
    BY <2>1 DEF Dial, Types, HookStates, ConnStates
  <2>2. CASE Send(h) \/ Receive(h) \/ FailOpen(h)
    BY <2>2 DEF Send, Receive, FailOpen, Types, HookStates
  <2> QED BY <1>6, <2>1, <2>2 DEF HookStep
<1> QED BY <1>1, <1>2, <1>3, <1>4, <1>5, <1>6 DEF DaemonNext

(* The types hold at the start.                                            *)
LEMMA TypesInit == DaemonInit => Types
BY DEF DaemonInit, Init, Types, States, RunStates, ConnStates, HookStates

-----------------------------------------------------------------------------
(* Run of a process advances under its lock.                               *)
LEMMA RunUnderLockStep == Types /\ RunUnderLock /\ [DaemonNext]_allvars => RunUnderLock'
<1> SUFFICES ASSUME Types, RunUnderLock, [DaemonNext]_allvars PROVE RunUnderLock'
  OBVIOUS
<1> USE DEF vars, lifevars, connvars, hookvars, auditvars, dvars, GoRun
<1>1. CASE UNCHANGED allvars
  BY <1>1 DEF RunUnderLock, allvars
<1>2. ASSUME NEW p \in Procs, Acquire(p) PROVE RunUnderLock'
  BY <1>2, AcquireFacts DEF RunUnderLock, Types
<1>3. ASSUME NEW p \in Procs, DaemonStep(p) PROVE RunUnderLock'
  <2>1. CASE RemoveStale(p) \/ Listen(p) \/ Stop(p)
    BY <2>1 DEF RemoveStale, Listen, Stop, Types, RunUnderLock
  <2>2. CASE AcceptDone(p) \/ CancelAudit(p) \/ AuditDone(p) \/ RemoveSocket(p)
    BY <2>2 DEF AcceptDone, CancelAudit, AuditDone, RemoveSocket, Types, RunUnderLock
  <2>3. CASE Exit(p)
    BY <2>3 DEF Exit, UnlockFlock, UnlockClose, UnlockRemove, Types, RunUnderLock
  <2>4. ASSUME NEW h \in Hooks, Accept(p, h) \/ Admit(p, h) PROVE RunUnderLock'
    BY <2>4 DEF Accept, Admit, RunUnderLock
  <2> QED BY <1>3, <2>1, <2>2, <2>3, <2>4 DEF DaemonStep, Shutdown
<1>4. ASSUME NEW p \in Procs, Crash(p) PROVE RunUnderLock'
  BY <1>4, DieFacts DEF Crash, Types, RunUnderLock
<1>5. ASSUME NEW h \in Hooks, Handler(h) PROVE RunUnderLock'
  BY <1>5 DEF Handler, ReadFails, Refuse, Answer, Evaluate, Record, RunUnderLock
<1>6. ASSUME NEW h \in Hooks, HookStep(h) PROVE RunUnderLock'
  BY <1>6 DEF HookStep, Dial, Send, Receive, FailOpen, RunUnderLock
<1> QED BY <1>1, <1>2, <1>3, <1>4, <1>5, <1>6 DEF DaemonNext

(* The history variable is set with the second holder and never cleared.   *)
LEMMA TwiceStep == TwiceSeen /\ [DaemonNext]_allvars => TwiceSeen' /\ (twice => twice')
<1> SUFFICES ASSUME TwiceSeen, [DaemonNext]_allvars PROVE TwiceSeen' /\ (twice => twice')
  OBVIOUS
<1>1. CASE UNCHANGED allvars
  BY <1>1 DEF TwiceSeen, allvars, vars, Holds
<1>2. CASE DaemonNext
  <2>1. twice' = (twice \/ \E p, q \in Procs : p # q /\ Holds(p)' /\ Holds(q)')
    BY <1>2 DEF DaemonNext
  <2>2. twice => twice'
    BY <2>1, Zenon
  <2>3. TwiceSeen'
    BY <2>1, Zenon DEF TwiceSeen
  <2> QED BY <2>2, <2>3
<1> QED BY <1>1, <1>2

(* The socket path is touched only by a process that holds the lock: if    *)
(* another one was serving, two held it.                                   *)
LEMMA SocketStep == SockInv /\ [DaemonNext]_allvars => SocketReachable'
<1> SUFFICES ASSUME SockInv, [DaemonNext]_allvars, ~twice',
                    NEW q \in Procs, run'[q] = "serving"
             PROVE  sock' = q
  BY DEF SocketReachable
<1> USE DEF vars, lifevars, connvars, hookvars, auditvars, dvars, GoRun
<1>0. ~twice /\ Types /\ RunUnderLock /\ TwiceSeen /\ SocketReachable
  BY TwiceStep DEF SockInv
<1>a. ASSUME NEW p \in Procs, pc[p] = "running", run[q] = "serving" PROVE p = q
  BY <1>0, <1>a DEF RunUnderLock, TwiceSeen, Holds
<1>b. ASSUME UNCHANGED lifevars PROVE sock' = q
  BY <1>0, <1>b DEF SocketReachable
<1>2. ASSUME NEW p \in Procs, Acquire(p) PROVE sock' = q
  BY <1>2, <1>b DEF Acquire
<1>3. ASSUME NEW p \in Procs, DaemonStep(p) PROVE sock' = q
  <2>1. CASE RemoveStale(p)
    BY <2>1, <1>0, <1>a DEF RemoveStale, Types
  <2>2. CASE Listen(p)
    BY <2>2, <1>0, <1>a DEF Listen, Types, RunUnderLock
  <2>3. CASE Stop(p)
    BY <2>3, <1>0, <1>a DEF Stop, Types, RunUnderLock
  <2>4. CASE AcceptDone(p) \/ CancelAudit(p) \/ AuditDone(p)
    BY <2>4, <1>0 DEF AcceptDone, CancelAudit, AuditDone, Types, SocketReachable
  <2>5. CASE RemoveSocket(p)
    BY <2>5, <1>0, <1>a DEF RemoveSocket, Types, RunUnderLock
  <2>6. CASE Exit(p)
    BY <2>6, <1>0 DEF Exit, Types, SocketReachable
  <2>7. ASSUME NEW h \in Hooks, Accept(p, h) \/ Admit(p, h) PROVE sock' = q
    BY <2>7, <1>b DEF Accept, Admit
  <2> QED BY <1>3, <2>1, <2>2, <2>3, <2>4, <2>5, <2>6, <2>7 DEF DaemonStep, Shutdown
<1>4. ASSUME NEW p \in Procs, Crash(p) PROVE sock' = q
  BY <1>4, <1>0 DEF Crash, Types, SocketReachable
<1>5. ASSUME NEW h \in Hooks, Handler(h) PROVE sock' = q
  BY <1>5, <1>b DEF Handler, ReadFails, Refuse, Answer, Evaluate, Record
<1>6. ASSUME NEW h \in Hooks, HookStep(h) PROVE sock' = q
  BY <1>6, <1>b DEF HookStep, Dial, Send, Receive, FailOpen
<1>7. CASE UNCHANGED allvars
  BY <1>7, <1>b DEF allvars
<1> QED BY <1>2, <1>3, <1>4, <1>5, <1>6, <1>7 DEF DaemonNext

(* As long as the PID lock has kept daemons apart, the one that accepts    *)
(* connections is the one the socket path leads to.                        *)
THEOREM SocketReachableHolds == DaemonSpec => []SocketReachable
<1>1. DaemonInit => SockInv
  BY TypesInit DEF DaemonInit, Init, SockInv, RunUnderLock, TwiceSeen, SocketReachable, Holds
<1>2. SockInv /\ [DaemonNext]_allvars => SockInv'
  BY TypesStep, RunUnderLockStep, TwiceStep, SocketStep DEF SockInv
<1>3. SockInv => SocketReachable
  BY DEF SockInv
<1> QED BY <1>1, <1>2, <1>3, PTL DEF DaemonSpec

-----------------------------------------------------------------------------
(* A connection goes from the backlog to the accept loop, to a handler and *)
(* to its end; only a handler decides.                                     *)
LEMMA ConnectedStep == Types /\ Connected /\ [DaemonNext]_allvars => Connected'
<1> SUFFICES ASSUME Types, Connected, [DaemonNext]_allvars PROVE Connected'
  OBVIOUS
<1> USE DEF lifevars, connvars, hookvars, auditvars, dvars, GoRun, GoConn, Mine, Held
<1>b. ASSUME UNCHANGED <<connvars, hook>> PROVE Connected'
  BY <1>b DEF Connected
<1>1. CASE UNCHANGED allvars
  BY <1>1, <1>b DEF allvars
<1>2. ASSUME NEW p \in Procs, Acquire(p) PROVE Connected'
  BY <1>2, <1>b DEF Acquire
<1>3. ASSUME NEW p \in Procs, DaemonStep(p) PROVE Connected'
  <2>1. CASE RemoveStale(p) \/ Listen(p)
    BY <2>1, <1>b DEF RemoveStale, Listen
  <2>2. CASE Shutdown(p)
    BY <2>2, <1>b DEF Shutdown, AcceptDone, CancelAudit, AuditDone, RemoveSocket, Exit
  <2>3. CASE Stop(p)
    BY <2>3 DEF Stop, Types, Connected
  <2>4. ASSUME NEW h \in Hooks, Accept(p, h) \/ Admit(p, h) PROVE Connected'
    BY <2>4 DEF Accept, Admit, Types, Connected
  <2> QED BY <1>3, <2>1, <2>2, <2>3, <2>4 DEF DaemonStep
<1>4. ASSUME NEW p \in Procs, Crash(p) PROVE Connected'
  <2>1. ASSUME NEW h \in Hooks, owner[h] = p
        PROVE  conn'[h] = "closed" /\ owner'[h] = NoProc /\ hook[h] # "new"
    BY <2>1, <1>4, ProcsAssumption DEF Crash, Types, Connected
  <2>2. ASSUME NEW h \in Hooks, owner[h] # p
        PROVE  conn'[h] = conn[h] /\ owner'[h] = owner[h]
    BY <2>2, <1>4 DEF Crash, Types
  <2> QED BY <1>4, <2>1, <2>2 DEF Crash, Connected
<1>5. ASSUME NEW h \in Hooks, Handler(h) PROVE Connected'
  <2>1. CASE ReadFails(h) \/ Refuse(h) \/ Answer(h) \/ Record(h)
    BY <2>1 DEF ReadFails, Refuse, Answer, Record, Types, Connected
  <2>2. ASSUME NEW d \in {"allow", "deny"}, Evaluate(h, d) PROVE Connected'
    BY <2>2 DEF Evaluate, Types, Connected
  <2> QED BY <1>5, <2>1, <2>2 DEF Handler
<1>6. ASSUME NEW h \in Hooks, HookStep(h) PROVE Connected'
  <2>1. CASE Dial(h)
    BY <2>1 DEF Dial, Types, Connected
  <2>2. CASE Send(h) \/ Receive(h) \/ FailOpen(h)
    BY <2>2 DEF Send, Receive, FailOpen, Types, Connected
  <2> QED BY <1>6, <2>1, <2>2 DEF HookStep
<1> QED BY <1>1, <1>2, <1>3, <1>4, <1>5, <1>6 DEF DaemonNext

(* What a handler evaluated is handed to the writer of its own process     *)
(* before the connection is closed, and stays there or is written.         *)
LEMMA HandedStep == AuditInv /\ [DaemonNext]_allvars => Handed'
<1> SUFFICES ASSUME AuditInv, [DaemonNext]_allvars PROVE Handed'
  OBVIOUS
<1> USE DEF lifevars, connvars, hookvars, auditvars, dvars, GoRun, GoConn, Mine, Held
<1>0. Types /\ Connected /\ Handed
  BY DEF AuditInv
<1>b. ASSUME UNCHANGED <<connvars, auditvars>> PROVE Handed'
  BY <1>0, <1>b DEF Handed
<1>1. CASE UNCHANGED allvars
  BY <1>1, <1>b DEF allvars
<1>2. ASSUME NEW p \in Procs, Acquire(p) PROVE Handed'
  BY <1>2, <1>b DEF Acquire
<1>3. ASSUME NEW p \in Procs, DaemonStep(p) PROVE Handed'
  <2>1. CASE RemoveStale(p) \/ Listen(p)
    BY <2>1, <1>b DEF RemoveStale, Listen
  <2>2. CASE AcceptDone(p) \/ CancelAudit(p) \/ RemoveSocket(p) \/ Exit(p)
    BY <2>2, <1>b DEF AcceptDone, CancelAudit, RemoveSocket, Exit
  <2>3. CASE AuditDone(p)
    BY <2>3, <1>0 DEF AuditDone, Types, Handed
  <2>4. CASE Stop(p)
    BY <2>4, <1>0 DEF Stop, Types, Connected, Handed
  <2>5. ASSUME NEW h \in Hooks, Accept(p, h) \/ Admit(p, h) PROVE Handed'
    BY <2>5, <1>0 DEF Accept, Admit, Types, Handed
  <2> QED BY <1>3, <2>1, <2>2, <2>3, <2>4, <2>5 DEF DaemonStep, Shutdown
<1>4. ASSUME NEW p \in Procs, Crash(p) PROVE Handed'
  BY <1>4, <1>0, ProcsAssumption DEF Crash, Types, Handed
<1>5. ASSUME NEW h \in Hooks, Handler(h) PROVE Handed'
  <2>1. CASE ReadFails(h) \/ Refuse(h)
    BY <2>1, <1>0 DEF ReadFails, Refuse, Types, Connected, Handed
  <2>2. CASE Answer(h)
    BY <2>2, <1>0 DEF Answer, Types, Handed
  <2>3. ASSUME NEW d \in {"allow", "deny"}, Evaluate(h, d) PROVE Handed'
    <3>1. CASE d = "deny"
      BY <2>3, <3>1, <1>0 DEF Evaluate, Types, Handed
    <3>2. CASE d = "allow"
      BY <2>3, <3>2, <1>0 DEF Evaluate, Enqueue, Types, Connected, Handed
    <3> QED BY <3>1, <3>2
  <2>4. CASE Record(h)
    BY <2>4, <1>0 DEF Record, Enqueue, Types, Connected, Handed
  <2> QED BY <1>5, <2>1, <2>2, <2>3, <2>4 DEF Handler
<1>6. ASSUME NEW h \in Hooks, HookStep(h) PROVE Handed'
  <2>1. CASE Dial(h)
    BY <2>1, <1>0 DEF Dial, Types, Connected, Handed
  <2>2. CASE Send(h) \/ Receive(h) \/ FailOpen(h)
    BY <2>2, <1>b DEF Send, Receive, FailOpen
  <2> QED BY <1>6, <2>1, <2>2 DEF HookStep
<1> QED BY <1>1, <1>2, <1>3, <1>4, <1>5, <1>6 DEF DaemonNext

(* Each state of the shutdown sequence keeps what it waited for: nothing   *)
(* enters the backlog once the listener is closed, nothing is held once    *)
(* the accept loop has ended, nothing runs once the handlers are done.     *)
LEMMA WaitedStep == AuditInv /\ [DaemonNext]_allvars => Waited'
<1> SUFFICES ASSUME AuditInv, [DaemonNext]_allvars PROVE Waited'
  OBVIOUS
<1> USE DEF lifevars, connvars, hookvars, auditvars, dvars, GoRun, GoConn, Mine, Held, InFlightStates
<1>0. Types /\ Connected /\ Waited
  BY DEF AuditInv
<1>b. ASSUME UNCHANGED <<run, owner, conn, queue>> PROVE Waited'
  BY <1>0, <1>b DEF Waited
<1>1. CASE UNCHANGED allvars
  BY <1>1, <1>b DEF allvars
<1>2. ASSUME NEW p \in Procs, Acquire(p) PROVE Waited'
  BY <1>2, <1>b DEF Acquire
<1>3. ASSUME NEW p \in Procs, DaemonStep(p) PROVE Waited'
  <2>1. CASE RemoveStale(p) \/ Listen(p)
    BY <2>1, <1>0 DEF RemoveStale, Listen, Types, Waited
  <2>2. CASE AcceptDone(p)
    BY <2>2, <1>0 DEF AcceptDone, Types, Waited
  <2>3. CASE CancelAudit(p)
    BY <2>3, <1>0 DEF CancelAudit, inFlight, Types, Waited
  <2>4. CASE AuditDone(p)
    BY <2>4, <1>0 DEF AuditDone, Types, Waited
  <2>5. CASE RemoveSocket(p)
    BY <2>5, <1>0 DEF RemoveSocket, Types, Waited
  <2>6. CASE Exit(p)
    BY <2>6, <1>0 DEF Exit, Types, Waited
  <2>7. CASE Stop(p)
    BY <2>7, <1>0 DEF Stop, Types, Waited
  <2>8. ASSUME NEW h \in Hooks, Accept(p, h) PROVE Waited'
    BY <2>8, <1>0 DEF Accept, Types, Waited
  <2>9. ASSUME NEW h \in Hooks, Admit(p, h) PROVE Waited'
    BY <2>9, <1>0 DEF Admit, Types, Waited
  <2> QED
    BY <1>3, <2>1, <2>2, <2>3, <2>4, <2>5, <2>6, <2>7, <2>8, <2>9 DEF DaemonStep, Shutdown
<1>4. ASSUME NEW p \in Procs, Crash(p) PROVE Waited'
  BY <1>4, <1>0, ProcsAssumption DEF Crash, Types, Waited
<1>5. ASSUME NEW h \in Hooks, Handler(h) PROVE Waited'
  <2>1. CASE ReadFails(h) \/ Refuse(h) \/ Answer(h)
    BY <2>1, <1>0 DEF ReadFails, Refuse, Answer, Types, Waited
  <2>2. ASSUME NEW d \in {"allow", "deny"}, Evaluate(h, d) PROVE Waited'
    BY <2>2, <1>0 DEF Evaluate, Enqueue, Types, Connected, Waited
  <2>3. CASE Record(h)
    BY <2>3, <1>0 DEF Record, Enqueue, Types, Connected, Waited
  <2> QED BY <1>5, <2>1, <2>2, <2>3 DEF Handler
<1>6. ASSUME NEW h \in Hooks, HookStep(h) PROVE Waited'
  <2>1. CASE Dial(h)
    BY <2>1, <1>0 DEF Dial, Types, Waited
  <2>2. CASE Send(h) \/ Receive(h) \/ FailOpen(h)
    BY <2>2, <1>b DEF Send, Receive, FailOpen
  <2> QED BY <1>6, <2>1, <2>2 DEF HookStep
<1> QED BY <1>1, <1>2, <1>3, <1>4, <1>5, <1>6 DEF DaemonNext

(* When Run has returned, every request that the process evaluated has     *)
(* been handed to the audit writer and the writer has drained.             *)
THEOREM AuditedAtExitHolds == DaemonSpec => []AuditedAtExit
<1>1. DaemonInit => AuditInv
  BY TypesInit, ProcsAssumption
     DEF DaemonInit, AuditInv, Connected, Handed, Waited, InFlightStates
<1>2. AuditInv /\ [DaemonNext]_allvars => AuditInv'
  BY TypesStep, ConnectedStep, HandedStep, WaitedStep DEF AuditInv
<1>3. AuditInv => AuditedAtExit
  <2> SUFFICES ASSUME AuditInv, NEW p \in Procs, run[p] = "returned",
                      NEW h \in Hooks, owner[h] = p
               PROVE  /\ decision[h] # "none" => <<h, "record">> \in written
                      /\ decision[h] = "allow" => <<h, "label">> \in written
    BY DEF AuditedAtExit, Mine
  <2>1. queue[p] = {}
    BY DEF AuditInv, Waited
  <2>2. decision[h] # "none" => conn[h] = "closed"
    BY DEF AuditInv, Waited, Connected, InFlightStates
  <2> QED BY <2>1, <2>2 DEF AuditInv, Handed
<1> QED BY <1>1, <1>2, <1>3, PTL DEF DaemonSpec

-----------------------------------------------------------------------------
(* The composed system implements the PID lock: a step of a daemon, a      *)
(* handler or a hook is a step of the lock or leaves the lock alone.       *)
THEOREM DaemonImplementsPidLock == DaemonSpec => Spec
<1>1. DaemonInit => Init
  BY DEF DaemonInit
<1>2. [DaemonNext]_allvars => [Next]_vars
  <2> SUFFICES ASSUME [DaemonNext]_allvars PROVE [Next]_vars
    OBVIOUS
  <2>1. ASSUME NEW p \in Procs, Acquire(p) \/ Crash(p) PROVE Next
    BY <2>1 DEF Acquire, Crash, Next
  <2>2. ASSUME NEW p \in Procs, DaemonStep(p) PROVE [Next]_vars
    <3>1. CASE Exit(p)
      BY <3>1 DEF Exit, Next
    <3>2. CASE ~Exit(p)
      BY <2>2, <3>2
         DEF DaemonStep, Shutdown, RemoveStale, Listen, Stop, AcceptDone, CancelAudit,
             AuditDone, RemoveSocket, Accept, Admit
    <3> QED BY <3>1, <3>2
  <2>3. ASSUME NEW h \in Hooks, Handler(h) \/ HookStep(h) PROVE UNCHANGED vars
    BY <2>3 DEF Handler, ReadFails, Refuse, Answer, Evaluate, Record, HookStep, Dial, Send,
                Receive, FailOpen
  <2>4. CASE UNCHANGED allvars
    BY <2>4 DEF allvars
  <2> QED BY <2>1, <2>2, <2>3, <2>4 DEF DaemonNext
<1> QED BY <1>1, <1>2, PTL DEF DaemonSpec, Spec

(* So the PID of a running daemon stays in the file it locked, with        *)
(* everything the daemon does meanwhile.                                   *)
THEOREM OwnerPidIntactOfDaemon == DaemonSpec => []OwnerPidIntact
BY DaemonImplementsPidLock, OwnerPidIntactHolds, PTL

-----------------------------------------------------------------------------
(* Installation: the lines of a shell file.                                *)

(* A set of numbers with 0 and the successor of each has them all.         *)
LEMMA SetInduction ==
  ASSUME NEW S, 0 \in S, \A n \in Nat : n \in S => n + 1 \in S
  PROVE  Nat \subseteq S
<1> DEFINE Less == {ss \in Nat \X Nat : ss[1] < ss[2]}
           T == Nat \ S
<1> SUFFICES ASSUME T # {} PROVE FALSE
  OBVIOUS
<1>1. IsWellFoundedOn(Less, Nat)
  BY NatLessThanWellFounded, Zenon DEF OpToRel
<1>2. PICK m \in T : \A y \in T : ~ (<<y, m>> \in Less)
  <2>1. T \subseteq Nat
    OBVIOUS
  <2> HIDE DEF Less, T
  <2> QED BY <1>1, <2>1, WFMin, Zenon
<1>3. m \in Nat \ {0} /\ m - 1 \in Nat /\ m - 1 < m /\ (m - 1) + 1 = m
  OBVIOUS
<1>4. <<m - 1, m>> \in Less
  <2>1. <<m - 1, m>> \in Nat \X Nat /\ <<m - 1, m>>[1] < <<m - 1, m>>[2]
    BY <1>3
  <2> QED BY <2>1, Zenon
<1>5. m - 1 \in S
  <2> HIDE DEF Less
  <2> QED BY <1>2, <1>3, <1>4
<1> QED
  BY <1>3, <1>5

(* What removeNixisLines has after each line.                              *)
LineStep(lines, f, i) ==
  IF i = 0 THEN [skip |-> FALSE, kept |-> <<>>] ELSE removeLine(f[i - 1], lines[i])

LEMMA LinesGone ==
  ASSUME NEW lines \in Seq(Lines)
  PROVE  \E f : /\ \A i \in 0 .. Len(lines) : f[i] = LineStep(lines, f, i)
                /\ removeNixisLines(lines) = f[Len(lines)].kept
<1> DEFINE Fits(n, f) == f = [i \in 0 .. n |-> LineStep(lines, f, i)]
           S == {n \in Nat : \E f : Fits(n, f)}
<1>1. 0 \in S
  <2>1. Fits(0, [i \in 0 .. 0 |-> LineStep(lines, <<>>, 0)])
    BY DEF LineStep
  <2> QED BY <2>1
<1>2. ASSUME NEW n \in Nat, n \in S
      PROVE  n + 1 \in S
  <2>1. PICK f : Fits(n, f)
    BY <1>2
  <2> DEFINE final == LineStep(lines, f, n + 1)
             g == [i \in 0 .. n + 1 |-> IF i = n + 1 THEN final ELSE f[i]]
  <2>2. \A i \in 0 .. n : f[i] = LineStep(lines, f, i)
    BY <2>1
  <2>3. \A i \in 0 .. n + 1 : LineStep(lines, g, i) = LineStep(lines, f, i)
    BY DEF LineStep
  <2>4. \A i \in 0 .. n + 1 : g[i] = LineStep(lines, g, i)
    BY <2>2, <2>3
  <2>5. g = [i \in 0 .. n + 1 |-> g[i]]
    OBVIOUS
  <2>6. Fits(n + 1, g)
    <3> HIDE DEF g
    <3> QED BY <2>4, <2>5
  <2>7. \E h : Fits(n + 1, h)
    <3> HIDE DEF Fits, g
    <3> QED BY <2>6
  <2> QED BY <2>7
<1>3. Len(lines) \in Nat
  OBVIOUS
<1>4. Len(lines) \in S
  <2> HIDE DEF S
  <2> QED BY <1>1, <1>2, <1>3, SetInduction
<1>5. \E f : Fits(Len(lines), f)
  BY <1>4
<1> DEFINE all == CHOOSE f : Fits(Len(lines), f)
<1>6. Fits(Len(lines), all)
  <2> HIDE DEF Fits
  <2> QED BY <1>5, Zenon
<1>7. removeNixisLines(lines) = all[Len(lines)].kept
  BY DEF removeNixisLines, LineStep
<1> HIDE DEF all
<1>8. \A i \in 0 .. Len(lines) : all[i] = LineStep(lines, all, i)
  BY <1>6
<1> QED BY <1>7, <1>8

(* A file of the user, whole or with an empty last line more: what an      *)
(* uninstall leaves; and what a setup makes of it.                         *)
Plain(b, s) ==
  \/ s = b
  \/ b[Len(b)] # Empty /\ s = Append(b, Empty)
Patched(s) == s \o <<Marker, PathLine, Empty>>
Shape(b, s) == Plain(b, s) \/ \E t : Plain(b, t) /\ s = Patched(t)
User(b) == /\ b \in Seq(Lines) /\ Len(b) > 0
           /\ \A i \in 1 .. Len(b) : b[i] \notin {Marker, PathLine}

(* A plain file has no line of a setup.                                    *)
LEMMA PlainLines ==
  ASSUME NEW b, User(b), NEW s, Plain(b, s)
  PROVE  /\ s \in Seq(Lines) /\ Len(s) \in Nat /\ Len(s) >= Len(b) /\ Len(b) \in Nat
         /\ \A i \in 1 .. Len(b) : s[i] = b[i]
         /\ \A i \in 1 .. Len(s) : s[i] \notin {Marker, PathLine}
         /\ \A i \in Len(b) + 1 .. Len(s) : s[i] = Empty
<1>1. Empty \in Lines /\ Empty \notin {Marker, PathLine}
  BY LinesAssumption
<1>2. b \in Seq(Lines) /\ Len(b) \in Nat /\ Len(b) > 0 /\ \A i \in 1 .. Len(b) : b[i] \notin {Marker, PathLine}
  BY DEF User
<1>3. CASE s = b
  BY <1>2, <1>3
<1>4. CASE s = Append(b, Empty)
  <2>1. s \in Seq(Lines) /\ Len(s) = Len(b) + 1 /\ s[Len(b) + 1] = Empty
    BY <1>1, <1>2, <1>4
  <2>2. \A i \in 1 .. Len(b) : s[i] = b[i]
    BY <1>1, <1>2, <1>4
  <2> QED BY <1>1, <1>2, <2>1, <2>2
<1> QED BY <1>3, <1>4 DEF Plain

LEMMA PatchedLines ==
  ASSUME NEW b, User(b), NEW t, Plain(b, t)
  PROVE  LET n == Len(t)
             s == Patched(t)
         IN  /\ s \in Seq(Lines) /\ Len(s) = n + 3 /\ n \in Nat
             /\ \A i \in 1 .. n : s[i] = t[i]
             /\ s[n + 1] = Marker /\ s[n + 2] = PathLine /\ s[n + 3] = Empty
<1>1. t \in Seq(Lines) /\ Len(t) \in Nat
  BY PlainLines
<1> DEFINE e == <<Marker, PathLine, Empty>>
<1>2. e \in Seq(Lines) /\ Len(e) = 3 /\ e[1] = Marker /\ e[2] = PathLine /\ e[3] = Empty
  BY LinesAssumption
<1> HIDE DEF e
<1>3. Patched(t) = t \o e
  BY DEF Patched, e
<1>4. /\ Patched(t) \in Seq(Lines) /\ Len(Patched(t)) = Len(t) + Len(e)
      /\ \A i \in 1 .. Len(t) + Len(e) : Patched(t)[i] = IF i <= Len(t) THEN t[i] ELSE e[i - Len(t)]
  BY <1>1, <1>2, <1>3, ConcatProperties
<1>5. ASSUME NEW i \in 1 .. Len(t) PROVE Patched(t)[i] = t[i]
  <2>1. i \in 1 .. Len(t) + Len(e) /\ i <= Len(t)
    BY <1>1, <1>2
  <2> QED BY <1>4, <2>1
<1>6. ASSUME NEW i \in 1 .. 3 PROVE Patched(t)[Len(t) + i] = e[i]
  <2>1. Len(t) + i \in 1 .. Len(t) + Len(e) /\ ~ (Len(t) + i <= Len(t)) /\ (Len(t) + i) - Len(t) = i
    BY <1>1, <1>2
  <2> QED BY <1>4, <2>1
<1> QED BY <1>1, <1>2, <1>4, <1>5, <1>6

(* As far as there is no marker, every line is kept.                       *)
LEMMA LinesTaken ==
  ASSUME NEW s \in Seq(Lines), NEW n \in Nat, n <= Len(s), NEW f,
         \A i \in 0 .. Len(s) : f[i] = LineStep(s, f, i),
         \A i \in 1 .. n : s[i] # Marker
  PROVE  f[n] = [skip |-> FALSE, kept |-> SubSeq(s, 1, n)]
<1> DEFINE S == {i \in Nat : i <= n => f[i] = [skip |-> FALSE, kept |-> SubSeq(s, 1, i)]}
<1>1. 0 \in S
  <2>1. f[0] = [skip |-> FALSE, kept |-> <<>>]
    BY DEF LineStep
  <2>2. SubSeq(s, 1, 0) = <<>>
    OBVIOUS
  <2> QED BY <2>1, <2>2
<1>2. ASSUME NEW i \in Nat, i \in S PROVE i + 1 \in S
  <2> SUFFICES ASSUME i + 1 <= n
               PROVE  f[i + 1] = [skip |-> FALSE, kept |-> SubSeq(s, 1, i + 1)]
    OBVIOUS
  <2>1. f[i] = [skip |-> FALSE, kept |-> SubSeq(s, 1, i)]
    BY <1>2
  <2>2. f[i + 1] = removeLine(f[i], s[i + 1])
    BY DEF LineStep
  <2>3. f[i + 1] = [skip |-> FALSE, kept |-> Append(SubSeq(s, 1, i), s[i + 1])]
    BY <2>1, <2>2 DEF removeLine
  <2>4. SubSeq(s, 1, i + 1) = Append(SubSeq(s, 1, i), s[i + 1])
    OBVIOUS
  <2> QED BY <2>3, <2>4
<1>3. n \in S
  <2> HIDE DEF S
  <2> QED BY <1>1, <1>2, SetInduction
<1> QED BY <1>3

(* An uninstall leaves a plain file of any.                                *)
LEMMA Cleaned ==
  ASSUME NEW b, User(b), NEW s, Shape(b, s)
  PROVE  Plain(b, removeNixisLines(s))
<1>1. CASE Plain(b, s)
  <2>1. s \in Seq(Lines) /\ \A i \in 1 .. Len(s) : s[i] # Marker
    BY <1>1, PlainLines
  <2>2. PICK f : /\ \A i \in 0 .. Len(s) : f[i] = LineStep(s, f, i)
                 /\ removeNixisLines(s) = f[Len(s)].kept
    BY <2>1, LinesGone
  <2>3. f[Len(s)] = [skip |-> FALSE, kept |-> SubSeq(s, 1, Len(s))]
    BY <2>1, <2>2, LinesTaken
  <2>4. SubSeq(s, 1, Len(s)) = s
    BY <2>1
  <2>5. removeNixisLines(s) = s
    BY <2>2, <2>3, <2>4
  <2> QED BY <1>1, <2>5
<1>2. ASSUME NEW t, Plain(b, t), s = Patched(t)
      PROVE  Plain(b, removeNixisLines(s))
  <2> DEFINE n == Len(t)
  <2>1. /\ s \in Seq(Lines) /\ Len(s) = n + 3 /\ n \in Nat
        /\ \A i \in 1 .. n : s[i] = t[i]
        /\ s[n + 1] = Marker /\ s[n + 2] = PathLine /\ s[n + 3] = Empty
    BY <1>2, PatchedLines
  <2>2. /\ t \in Seq(Lines) /\ n >= Len(b) /\ Len(b) \in Nat
        /\ \A i \in 1 .. n : t[i] \notin {Marker, PathLine}
    BY <1>2, PlainLines
  <2>3. n > 0 /\ t # <<>>
    BY <2>1, <2>2 DEF User
  <2>4. PICK f : /\ \A i \in 0 .. Len(s) : f[i] = LineStep(s, f, i)
                 /\ removeNixisLines(s) = f[Len(s)].kept
    BY <2>1, LinesGone
  <2> HIDE DEF n
  <2>5. f[n] = [skip |-> FALSE, kept |-> t]
    <3>1. f[n] = [skip |-> FALSE, kept |-> SubSeq(s, 1, n)]
      <4>1. \A i \in 1 .. n : s[i] # Marker
        BY <2>1, <2>2
      <4> QED BY <2>1, <2>4, <4>1, LinesTaken
    <3>2. SubSeq(s, 1, n) = t
      BY <2>1, <2>2 DEF n
    <3> QED BY <3>1, <3>2
  <2> DEFINE u == IF Last(t) = Empty THEN Front(t) ELSE t
  <2>6. f[n + 1] = [skip |-> TRUE, kept |-> u]
    <3>1. f[n + 1] = removeLine(f[n], Marker)
      BY <2>1, <2>4 DEF LineStep
    <3> QED BY <2>3, <2>5, <3>1 DEF removeLine
  <2> HIDE DEF u
  <2>7. f[n + 2] = [skip |-> FALSE, kept |-> u]
    <3>1. f[n + 2] = removeLine(f[n + 1], PathLine)
      BY <2>1, <2>4 DEF LineStep
    <3> QED BY <2>6, <3>1 DEF removeLine
  <2>8. f[n + 3] = [skip |-> FALSE, kept |-> Append(u, Empty)]
    <3>1. f[n + 3] = removeLine(f[n + 2], Empty)
      BY <2>1, <2>4 DEF LineStep
    <3> QED BY <2>7, <3>1, LinesAssumption DEF removeLine
  <2>9. removeNixisLines(s) = Append(u, Empty)
    BY <2>1, <2>4, <2>8
  <2>10. Last(t) = t[n]
    BY DEF Last, n
  <2>11. CASE t[n] = Empty
    <3>1. u = SubSeq(t, 1, n - 1)
      BY <2>10, <2>11 DEF u, Front, n
    <3>2. Append(u, Empty) = t
      BY <2>1, <2>2, <2>3, <2>11, <3>1 DEF n
    <3> QED BY <1>2, <2>9, <3>2
  <2>12. CASE t[n] # Empty
    <3>1. u = t
      BY <2>10, <2>12 DEF u
    <3>2. t = b
      BY <1>2, <2>12, LinesAssumption DEF Plain, n, User
    <3> QED BY <2>9, <2>12, <3>1, <3>2 DEF Plain, n
  <2> QED BY <2>11, <2>12
<1> QED BY <1>1, <1>2 DEF Shape

(* A file of either shape has the user's lines and one PATH entry at most. *)
LEMMA ShapeKept ==
  ASSUME NEW b, User(b), NEW s, Shape(b, s)
  PROVE  linesKept(b, s) /\ AtMostOneEntry(s) /\ s \in Seq(Lines)
<1>1. CASE Plain(b, s)
  <2>1. /\ s \in Seq(Lines) /\ Len(s) \in Nat /\ Len(s) >= Len(b) /\ Len(b) \in Nat
        /\ \A i \in 1 .. Len(b) : s[i] = b[i]
        /\ \A i \in 1 .. Len(s) : s[i] \notin {Marker, PathLine}
        /\ \A i \in Len(b) + 1 .. Len(s) : s[i] = Empty
    BY <1>1, PlainLines
  <2> QED BY <2>1 DEF linesKept, AtMostOneEntry
<1>2. ASSUME NEW t, Plain(b, t), s = Patched(t)
      PROVE  linesKept(b, s) /\ AtMostOneEntry(s) /\ s \in Seq(Lines)
  <2> DEFINE n == Len(t)
  <2>1. /\ s \in Seq(Lines) /\ Len(s) = n + 3 /\ n \in Nat
        /\ \A i \in 1 .. n : s[i] = t[i]
        /\ s[n + 1] = Marker /\ s[n + 2] = PathLine /\ s[n + 3] = Empty
    BY <1>2, PatchedLines
  <2>2. /\ n >= Len(b) /\ Len(b) \in Nat
        /\ \A i \in 1 .. Len(b) : t[i] = b[i]
        /\ \A i \in 1 .. n : t[i] \notin {Marker, PathLine}
        /\ \A i \in Len(b) + 1 .. n : t[i] = Empty
    BY <1>2, PlainLines
  <2> HIDE DEF n
  <2>3. linesKept(b, s)
    <3>1. ASSUME NEW i \in Len(b) + 1 .. n + 3 PROVE s[i] \in {Marker, PathLine, Empty}
      <4>1. i \in Len(b) + 1 .. n \/ i = n + 1 \/ i = n + 2 \/ i = n + 3
        BY <2>1, <2>2
      <4>2. CASE i \in Len(b) + 1 .. n
        BY <2>1, <2>2, <4>2
      <4> QED BY <2>1, <4>1, <4>2
    <3>2. \A i \in 1 .. Len(b) : s[i] = b[i]
      BY <2>1, <2>2
    <3> QED BY <2>1, <2>2, <3>1, <3>2 DEF linesKept
  <2>4. ASSUME NEW i \in 1 .. n + 3, s[i] = PathLine PROVE i = n + 2
    <3>1. i \in 1 .. n \/ i = n + 1 \/ i = n + 2 \/ i = n + 3
      BY <2>1
    <3>2. Marker # PathLine /\ Empty # PathLine
      BY LinesAssumption DEF Marker, PathLine
    <3>3. i \notin 1 .. n
      BY <2>1, <2>2, <2>4
    <3> QED BY <2>1, <2>4, <3>1, <3>2, <3>3
  <2>5. DOMAIN s = 1 .. n + 3
    BY <2>1
  <2>6. AtMostOneEntry(s)
    BY <2>4, <2>5 DEF AtMostOneEntry
  <2> QED BY <2>1, <2>3, <2>6
<1> QED BY <1>1, <1>2 DEF Shape

(* A setup appends to a file that has no entry.                            *)
LEMMA ShapePatched ==
  ASSUME NEW b, User(b), NEW s, Shape(b, s), PathLine \notin Range(s)
  PROVE  Shape(b, s \o <<Marker, PathLine, Empty>>)
<1>1. Plain(b, s)
  <2> SUFFICES ASSUME NEW t, Plain(b, t), s = Patched(t) PROVE FALSE
    BY DEF Shape
  <2>1. s \in Seq(Lines) /\ Len(s) = Len(t) + 3 /\ Len(t) \in Nat /\ s[Len(t) + 2] = PathLine
    BY PatchedLines
  <2>2. Len(t) + 2 \in DOMAIN s
    BY <2>1
  <2> QED BY <2>1, <2>2 DEF Range
<1> QED BY <1>1 DEF Shape, Patched

-----------------------------------------------------------------------------
(* A machine whose record is whole, where the hook can run ...             *)
Whole(m) ==
  /\ m = [x \in Fields |-> m[x]] /\ m.bins \subseteq Binaries
  /\ m.settings = [state |-> m.settings.state, hooks |-> m.settings.hooks]
  /\ m.settings.state # "there" => DOMAIN m.settings.hooks = {}
Runs(m) == ours(m) => "nixis-hook" \in m.bins

(* ... and where what the user had on b is kept.                           *)
FilesKept(b, m) == DOMAIN m.rc = DOMAIN b.rc /\ \A f \in DOMAIN b.rc : Shape(b.rc[f], m.rc[f])
HooksKept(b, m) ==
  \A e \in DOMAIN b.settings.hooks \ {"PreToolUse"} :
    e \in DOMAIN m.settings.hooks /\ m.settings.hooks[e] = b.settings.hooks[e]
Sound(b, m) == Whole(m) /\ Runs(m) /\ FilesKept(b, m) /\ HooksKept(b, m)

LEMMA CleanSound ==
  ASSUME NEW b \in Machines
  PROVE  Sound(b, b) /\ \A f \in DOMAIN b.rc : User(b.rc[f])
<1>1. /\ b = [x \in Fields |-> b[x]] /\ b.bins = {}
      /\ b.settings = [state |-> b.settings.state, hooks |-> b.settings.hooks]
      /\ b.settings.state # "there" => DOMAIN b.settings.hooks = {}
      /\ \A e \in DOMAIN b.settings.hooks : b.settings.hooks[e] # "nixis"
      /\ \A f \in DOMAIN b.rc : b.rc[f] \in Seq(Lines) \ {<<>>} /\ Range(b.rc[f]) \cap {Marker, PathLine} = {}
  BY MachinesAssumption
<1>2. Whole(b)
  BY <1>1 DEF Whole
<1>3. Runs(b)
  BY <1>1 DEF Runs, ours
<1>4. FilesKept(b, b) /\ HooksKept(b, b)
  BY DEF FilesKept, HooksKept, Shape, Plain
<1>5. ASSUME NEW f \in DOMAIN b.rc PROVE User(b.rc[f])
  <2>1. /\ b.rc[f] \in Seq(Lines) /\ b.rc[f] # <<>> /\ Len(b.rc[f]) \in Nat
        /\ DOMAIN b.rc[f] = 1 .. Len(b.rc[f])
    BY <1>1
  <2>2. Len(b.rc[f]) > 0
    BY <2>1
  <2> QED BY <1>1, <2>1, <2>2 DEF User, Range
<1> QED BY <1>2, <1>3, <1>4, <1>5 DEF Sound

(* The service's files and processes are not the user's.                   *)
Service == {"unit", "active", "daemon", "socket"}
OnlyService(m, n) == n = [x \in Fields |-> n[x]] /\ \A x \in Fields \ Service : n[x] = m[x]

LEMMA ServiceSound ==
  ASSUME NEW b, NEW m, NEW n, Sound(b, m), OnlyService(m, n)
  PROVE  Sound(b, n)
<1>1. n.bins = m.bins /\ n.settings = m.settings /\ n.rc = m.rc /\ n = [x \in Fields |-> n[x]]
  BY DEF OnlyService, Fields, Service
<1> QED BY <1>1 DEF Sound, Whole, Runs, ours, FilesKept, HooksKept

Managers == {"works", "fails", "hangs"}
LEMMA ServiceSteps ==
  ASSUME NEW m, m = [x \in Fields |-> m[x]]
  PROVE  /\ OnlyService(m, m) /\ OnlyService(m, killDaemonProcess(m))
         /\ OnlyService(m, Started(m)) /\ OnlyService(m, Stopped(m))
         /\ OnlyService(m, [m EXCEPT !.unit = TRUE]) /\ OnlyService(m, [m EXCEPT !.unit = FALSE])
         /\ OnlyService(m, [Stopped(m) EXCEPT !.unit = FALSE])
<1> DEFINE Set(n, x, v) == [n EXCEPT ![x] = v]
<1>1. ASSUME NEW n, OnlyService(m, n), NEW x \in Service, NEW v
      PROVE  OnlyService(m, Set(n, x, v))
  BY <1>1 DEF OnlyService, Fields, Service
<1>2. OnlyService(m, m)
  BY DEF OnlyService
<1>3. "unit" \in Service /\ "active" \in Service /\ "daemon" \in Service /\ "socket" \in Service
  BY DEF Service
<1>4. /\ killDaemonProcess(m) = Set(m, "daemon", m.active)
      /\ Started(m) = Set(Set(Set(m, "active", TRUE), "daemon", TRUE), "socket", TRUE)
      /\ Stopped(m) = Set(Set(Set(m, "active", FALSE), "daemon", FALSE), "socket", FALSE)
      /\ [m EXCEPT !.unit = TRUE] = Set(m, "unit", TRUE)
      /\ [m EXCEPT !.unit = FALSE] = Set(m, "unit", FALSE)
      /\ [Stopped(m) EXCEPT !.unit = FALSE] = Set(Stopped(m), "unit", FALSE)
  BY Zenon DEF killDaemonProcess, Started, Stopped
<1> HIDE DEF Set
<1>5. OnlyService(m, Set(m, "daemon", m.active)) /\ \A v : OnlyService(m, Set(m, "unit", v))
  BY <1>1, <1>2, <1>3
<1>6. ASSUME NEW v PROVE OnlyService(m, Set(Set(Set(m, "active", v), "daemon", v), "socket", v))
  <2>1. OnlyService(m, Set(m, "active", v))
    BY <1>1, <1>2, <1>3
  <2>2. OnlyService(m, Set(Set(m, "active", v), "daemon", v))
    BY <1>1, <1>3, <2>1
  <2> QED BY <1>1, <1>3, <2>2
<1>7. OnlyService(m, Started(m)) /\ OnlyService(m, Stopped(m))
  BY <1>4, <1>6, Zenon
<1>8. \A v : OnlyService(m, Set(Stopped(m), "unit", v))
  BY <1>1, <1>3, <1>7
<1>9. OnlyService(m, [m EXCEPT !.unit = TRUE]) /\ OnlyService(m, [m EXCEPT !.unit = FALSE])
  <2>1. OnlyService(m, Set(m, "unit", TRUE)) /\ OnlyService(m, Set(m, "unit", FALSE))
    BY <1>5
  <2> QED BY <1>4, <2>1, Zenon
<1>10. OnlyService(m, [Stopped(m) EXCEPT !.unit = FALSE])
  BY <1>4, <1>8, Zenon
<1>11. OnlyService(m, killDaemonProcess(m))
  BY <1>4, <1>5, Zenon
<1> QED BY <1>2, <1>7, <1>9, <1>10, <1>11, Zenon

LEMMA ServiceTwice ==
  ASSUME NEW m, NEW n, NEW p, OnlyService(m, n), OnlyService(n, p)
  PROVE  OnlyService(m, p)
BY DEF OnlyService

LEMMA ManagedMachine ==
  ASSUME NEW m, NEW o, o.manager \in Managers, NEW w, NEW f
  PROVE  Managed(m, o, w, f).m \in {m, w.m, f.m}
BY DEF Managed, Managers

LEMMA ServiceOnly ==
  ASSUME NEW m, m = [x \in Fields |-> m[x]], NEW o, o.manager \in Managers
  PROVE  /\ OnlyService(m, m) /\ OnlyService(m, killDaemonProcess(m)) /\ OnlyService(m, stopOrKill(m, o))
         /\ OnlyService(m, installDaemonService(m, o).m)
         /\ OnlyService(m, uninstallDaemonService(m, o).m)
         /\ OnlyService(m, startDaemon(m, o).m)
         /\ OnlyService(m, stopDaemon(m, o).m)
<1> DEFINE U == [m EXCEPT !.unit = TRUE]
           V == [m EXCEPT !.unit = FALSE]
           W == [Stopped(m) EXCEPT !.unit = FALSE]
           K == killDaemonProcess(m)
<1>1. \A n : Done(n).m = n /\ Fail(n).m = n /\ Done(n).outcome = "ok" /\ Fail(n).outcome = "error"
  BY DEF Done, Fail
<1>2. /\ OnlyService(m, m) /\ OnlyService(m, K) /\ OnlyService(m, Started(m)) /\ OnlyService(m, Stopped(m))
      /\ OnlyService(m, U) /\ OnlyService(m, V) /\ OnlyService(m, W)
  BY ServiceSteps
<1>3. ASSUME NEW n, OnlyService(m, n)
      PROVE  /\ OnlyService(m, killDaemonProcess(n)) /\ OnlyService(m, Started(n))
             /\ OnlyService(m, purgeServiceFromLaunchd(n, o))
             /\ OnlyService(m, Started(purgeServiceFromLaunchd(n, o)))
  <2>1. n = [x \in Fields |-> n[x]]
    BY <1>3 DEF OnlyService
  <2>2. OnlyService(n, killDaemonProcess(n)) /\ OnlyService(n, Started(n)) /\ OnlyService(n, Stopped(n))
    BY <2>1, ServiceSteps
  <2> DEFINE p == purgeServiceFromLaunchd(n, o)
  <2>3. OnlyService(n, p)
    BY <2>2 DEF purgeServiceFromLaunchd
  <2> HIDE DEF p
  <2>4. p = [x \in Fields |-> p[x]]
    BY <2>3 DEF OnlyService
  <2>5. OnlyService(p, Started(p))
    BY <2>4, ServiceSteps
  <2> QED BY <1>3, <2>2, <2>3, <2>5, ServiceTwice DEF p
<1>4. \A n, w, f : Managed(n, o, w, f).m \in {n, w.m, f.m}
  BY ManagedMachine
<1>5. OnlyService(m, stopOrKill(m, o))
  <2> DEFINE r == IF m.os = "linux" THEN stopDaemonWithTimeoutLinux(m, o) ELSE stopDaemonWithTimeoutDarwin(m, o)
  <2>1. OnlyService(m, r.m)
    BY <1>1, <1>2 DEF stopDaemonWithTimeoutLinux, stopDaemonWithTimeoutDarwin
  <2>2. stopOrKill(m, o) = IF r.outcome = "ok" THEN r.m ELSE killDaemonProcess(r.m)
    BY DEF stopOrKill
  <2> HIDE DEF r
  <2> QED BY <1>3, <2>1, <2>2
<1> HIDE DEF U, V, W, K
<1>6. OnlyService(m, installDaemonService(m, o).m)
  <2>1. /\ OnlyService(m, Started(U)) /\ OnlyService(m, purgeServiceFromLaunchd(U, o))
        /\ OnlyService(m, Started(purgeServiceFromLaunchd(U, o)))
    BY <1>2, <1>3
  <2>2. installDaemonServiceLinux(m, o) =
          IF ~ confirm(o) THEN Done(m) ELSE Managed(U, o, Done(Started(U)), Fail(U))
    BY DEF installDaemonServiceLinux, U
  <2>3. installDaemonServiceDarwin(m, o) =
          IF ~ confirm(o) THEN Done(m)
          ELSE Managed(U, o, Done(Started(purgeServiceFromLaunchd(U, o))), Fail(purgeServiceFromLaunchd(U, o)))
    BY DEF installDaemonServiceDarwin, U
  <2>4. OnlyService(m, installDaemonServiceLinux(m, o).m)
    BY <1>1, <1>2, <1>4, <2>1, <2>2
  <2>5. OnlyService(m, installDaemonServiceDarwin(m, o).m)
    BY <1>1, <1>2, <1>4, <2>1, <2>3
  <2> QED BY <2>4, <2>5 DEF installDaemonService
<1>7. OnlyService(m, uninstallDaemonService(m, o).m)
  <2>1. uninstallDaemonService(m, o) = IF ~ m.unit THEN Done(m) ELSE Managed(m, o, Done(W), Done(V))
    BY DEF uninstallDaemonService, uninstallDaemonServiceLinux, uninstallDaemonServiceDarwin, V, W
  <2> QED BY <1>1, <1>2, <1>4, <2>1
<1>8. OnlyService(m, startDaemon(m, o).m)
  <2>1. OnlyService(m, purgeServiceFromLaunchd(m, o)) /\ OnlyService(m, Started(purgeServiceFromLaunchd(m, o)))
    BY <1>2, <1>3
  <2>2. OnlyService(m, startDaemonLinux(m, o).m)
    BY <1>1, <1>2, <1>4 DEF startDaemonLinux
  <2>3. OnlyService(m, startDaemonDarwin(m, o).m)
    BY <1>1, <1>2, <1>4, <2>1 DEF startDaemonDarwin
  <2> QED BY <2>2, <2>3 DEF startDaemon
<1>9. OnlyService(m, stopDaemon(m, o).m)
  <2>1. OnlyService(m, stopDaemonLinux(m, o).m)
    BY <1>1, <1>2, <1>4 DEF stopDaemonLinux
  <2>2. OnlyService(m, stopDaemonDarwin(m, o).m)
    BY <1>1, <1>2, <1>4 DEF stopDaemonDarwin, K
  <2> QED BY <2>1, <2>2 DEF stopDaemon
<1> QED BY <1>2, <1>5, <1>6, <1>7, <1>8, <1>9 DEF K

LEMMA CommandsService ==
  ASSUME NEW m, m = [x \in Fields |-> m[x]], NEW o, o.manager \in Managers
  PROVE  /\ OnlyService(m, restartDaemon(m, o).m)
         /\ OnlyService(m, runDaemonStart(m, o).m)
         /\ OnlyService(m, runDaemonStop(m, o).m)
         /\ OnlyService(m, runDaemonRestart(m, o).m)
<1>1. \A n : Done(n).m = n /\ Ended(n).m = n
  BY DEF Done, Ended
<1>2. ASSUME NEW n, OnlyService(m, n) PROVE OnlyService(m, startDaemon(n, o).m)
  <2>1. n = [x \in Fields |-> n[x]]
    BY <1>2 DEF OnlyService
  <2>2. OnlyService(n, startDaemon(n, o).m)
    BY <2>1, ServiceOnly
  <2> QED BY <1>2, <2>2, ServiceTwice
<1>3. OnlyService(m, m) /\ OnlyService(m, stopOrKill(m, o)) /\ OnlyService(m, stopDaemon(m, o).m)
  BY ServiceOnly
<1>4. OnlyService(m, restartDaemon(m, o).m)
  <2> DEFINE n == IF daemonServiceStatus(m, o) THEN stopOrKill(m, o) ELSE m
  <2>1. OnlyService(m, n)
    BY <1>3
  <2>2. restartDaemon(m, o) =
          IF startDaemon(n, o).outcome = "error" THEN Done(startDaemon(n, o).m) ELSE startDaemon(n, o)
    BY DEF restartDaemon
  <2> HIDE DEF n
  <2> QED BY <1>1, <1>2, <2>1, <2>2
<1>5. OnlyService(m, runDaemonStart(m, o).m)
  BY <1>1, <1>2, <1>3 DEF runDaemonStart
<1>6. OnlyService(m, runDaemonStop(m, o).m)
  <2> DEFINE w == IF daemonServiceStatus(m, o) THEN stopDaemon(m, o) ELSE Ended(m)
  <2>1. runDaemonStop(m, o) = Managed(m, o, w, Ended(m))
    BY DEF runDaemonStop
  <2>2. OnlyService(m, w.m)
    BY <1>1, <1>3
  <2> HIDE DEF w
  <2>3. runDaemonStop(m, o).m \in {m, w.m, Ended(m).m}
    BY <2>1, ManagedMachine
  <2> QED BY <1>1, <1>3, <2>2, <2>3
<1>7. OnlyService(m, runDaemonRestart(m, o).m)
  BY <1>2, <1>6 DEF runDaemonRestart
<1> QED BY <1>4, <1>5, <1>6, <1>7

(* What is left of the service by the steps of setup and uninstall.        *)
LEMMA Installed ==
  ASSUME NEW m, m = [x \in Fields |-> m[x]], NEW o, o.manager = "works"
  PROVE  /\ confirm(o) => installDaemonService(m, o).m.unit /\ installDaemonService(m, o).m.daemon
         /\ m.unit => restartDaemon(m, o).m.unit /\ restartDaemon(m, o).m.daemon
<1>1. \A n : Done(n).m = n /\ Done(n).outcome = "ok"
  BY DEF Done
<1>2. ASSUME NEW n, n = [x \in Fields |-> n[x]]
      PROVE  Started(n).daemon /\ (n.unit => Started(n).unit) /\ (n.unit => Stopped(n).unit)
  BY <1>2 DEF Started, Stopped, Fields
<1>3. \A n, w, f : Managed(n, o, w, f) = w
  BY DEF Managed
<1>4. ASSUME NEW n, n = [x \in Fields |-> n[x]]
      PROVE  LET p == purgeServiceFromLaunchd(n, o)
             IN  p = [x \in Fields |-> p[x]] /\ (n.unit => p.unit)
  <2>1. purgeServiceFromLaunchd(n, o) = Stopped(n)
    BY DEF purgeServiceFromLaunchd
  <2>2. OnlyService(n, Stopped(n))
    BY <1>4, ServiceSteps
  <2> QED BY <1>2, <1>4, <2>1, <2>2 DEF OnlyService
<1>5. ASSUME NEW n, n = [x \in Fields |-> n[x]], n.unit
      PROVE  startDaemon(n, o) \in {Done(Started(n)), Done(Started(purgeServiceFromLaunchd(n, o)))}
  BY <1>3, <1>5 DEF startDaemon, startDaemonLinux, startDaemonDarwin
<1>6. ASSUME NEW n, n = [x \in Fields |-> n[x]], n.unit
      PROVE  startDaemon(n, o).outcome = "ok" /\ startDaemon(n, o).m.unit /\ startDaemon(n, o).m.daemon
  BY <1>1, <1>2, <1>4, <1>5, <1>6
<1>7. ASSUME confirm(o)
      PROVE  installDaemonService(m, o).m.unit /\ installDaemonService(m, o).m.daemon
  <2> DEFINE U == [m EXCEPT !.unit = TRUE]
  <2>1. U = [x \in Fields |-> U[x]] /\ U.unit
    BY DEF Fields
  <2>2. installDaemonService(m, o) \in {Done(Started(U)), Done(Started(purgeServiceFromLaunchd(U, o)))}
    BY <1>3, <1>7 DEF installDaemonService, installDaemonServiceLinux, installDaemonServiceDarwin
  <2> HIDE DEF U
  <2> QED BY <1>1, <1>2, <1>4, <2>1, <2>2
<1>8. ASSUME m.unit
      PROVE  restartDaemon(m, o).m.unit /\ restartDaemon(m, o).m.daemon
  <2>1. stopOrKill(m, o) = Stopped(m)
    BY <1>1 DEF stopOrKill, stopDaemonWithTimeoutLinux, stopDaemonWithTimeoutDarwin
  <2>2. OnlyService(m, Stopped(m))
    BY ServiceSteps
  <2> DEFINE n == IF daemonServiceStatus(m, o) THEN stopOrKill(m, o) ELSE m
  <2>3. n = [x \in Fields |-> n[x]] /\ n.unit
    <3>1. CASE n = m
      BY <1>8, <3>1
    <3>2. CASE n = Stopped(m)
      BY <1>2, <1>8, <2>2, <3>2 DEF OnlyService
    <3> QED BY <2>1, <3>1, <3>2
  <2>4. restartDaemon(m, o) =
          IF startDaemon(n, o).outcome = "error" THEN Done(startDaemon(n, o).m) ELSE startDaemon(n, o)
    BY DEF restartDaemon
  <2> HIDE DEF n
  <2> QED BY <1>6, <2>3, <2>4
<1> QED BY <1>7, <1>8

LEMMA Removed ==
  ASSUME NEW m, m = [x \in Fields |-> m[x]], NEW o, o.manager \in Managers
  PROVE  /\ killDaemonProcess(m).unit = m.unit /\ stopOrKill(m, o).unit = m.unit
         /\ o.manager = "works" => ~ stopOrKill(m, o).daemon
         /\ LET r == uninstallDaemonService(m, o)
            IN  /\ r.outcome = "ok" => ~ r.m.unit
                /\ o.manager = "works" /\ (m.unit \/ ~ m.daemon) => ~ r.m.daemon
<1>1. \A n : Done(n).m = n /\ Fail(n).m = n /\ Done(n).outcome = "ok" /\ Fail(n).outcome = "error"
  BY DEF Done, Fail
<1>2. ASSUME NEW n, n = [x \in Fields |-> n[x]]
      PROVE  killDaemonProcess(n).unit = n.unit /\ Stopped(n).unit = n.unit
  BY <1>2 DEF Stopped, killDaemonProcess, Fields
<1>3. ~ Stopped(m).daemon
  BY DEF Stopped, Fields
<1>4. stopOrKill(m, o).unit = m.unit
  <2>1. OnlyService(m, killDaemonProcess(m)) /\ OnlyService(m, Stopped(m))
    BY ServiceSteps
  <2> DEFINE r == IF m.os = "linux" THEN stopDaemonWithTimeoutLinux(m, o) ELSE stopDaemonWithTimeoutDarwin(m, o)
  <2>2. r.m \in {m, Stopped(m), killDaemonProcess(m)}
    BY <1>1 DEF stopDaemonWithTimeoutLinux, stopDaemonWithTimeoutDarwin
  <2>3. stopOrKill(m, o) = IF r.outcome = "ok" THEN r.m ELSE killDaemonProcess(r.m)
    BY DEF stopOrKill
  <2> HIDE DEF r
  <2>4. r.m = [x \in Fields |-> r.m[x]] /\ r.m.unit = m.unit
    BY <1>2, <2>1, <2>2 DEF OnlyService
  <2> QED BY <1>2, <2>3, <2>4
<1>5. ASSUME o.manager = "works" PROVE ~ stopOrKill(m, o).daemon
  <2>1. stopOrKill(m, o) = Stopped(m)
    BY <1>1, <1>5 DEF stopOrKill, stopDaemonWithTimeoutLinux, stopDaemonWithTimeoutDarwin
  <2> QED BY <1>3, <2>1
<1> DEFINE V == [m EXCEPT !.unit = FALSE]
           W == [Stopped(m) EXCEPT !.unit = FALSE]
           r == uninstallDaemonService(m, o)
<1>6. ~ V.unit /\ ~ W.unit /\ ~ W.daemon
  BY DEF Stopped, Fields
<1>7. r = IF ~ m.unit THEN Done(m) ELSE Managed(m, o, Done(W), Done(V))
  BY DEF uninstallDaemonService, uninstallDaemonServiceLinux, uninstallDaemonServiceDarwin
<1> HIDE DEF V, W, r
<1>8. r.outcome = "ok" => ~ r.m.unit
  <2>1. CASE ~ m.unit
    BY <1>1, <1>7, <2>1
  <2>2. CASE m.unit /\ o.manager = "hangs"
    BY <1>7, <2>2 DEF Managed
  <2>3. CASE m.unit /\ o.manager = "works"
    BY <1>1, <1>6, <1>7, <2>3 DEF Managed
  <2>4. CASE m.unit /\ o.manager = "fails"
    BY <1>1, <1>6, <1>7, <2>4 DEF Managed
  <2> QED BY <2>1, <2>2, <2>3, <2>4 DEF Managers
<1>9. ASSUME o.manager = "works", m.unit \/ ~ m.daemon PROVE ~ r.m.daemon
  <2>1. CASE ~ m.unit
    BY <1>1, <1>7, <1>9, <2>1
  <2>2. CASE m.unit
    BY <1>1, <1>6, <1>7, <1>9, <2>2 DEF Managed
  <2> QED BY <2>1, <2>2
<1> QED BY <1>2, <1>4, <1>5, <1>8, <1>9 DEF r

-----------------------------------------------------------------------------
(* The steps on files.                                                     *)
LEMMA FilesSound ==
  ASSUME NEW b, NEW m, NEW n, Sound(b, m), n = [x \in Fields |-> n[x]],
         n.settings = m.settings, n.rc = m.rc, n.bins \subseteq Binaries,
         m.bins \subseteq n.bins \/ ~ ours(m)
  PROVE  Sound(b, n)
BY DEF Sound, Whole, Runs, ours, FilesKept, HooksKept

LEMMA DirSound ==
  ASSUME NEW b, NEW m, Sound(b, m), NEW o
  PROVE  /\ Sound(b, makeDir(m, o).m) /\ makeDir(m, o).m.bins = m.bins
         /\ Sound(b, makePolicyDirs(m, o).m) /\ makePolicyDirs(m, o).m.bins = m.bins
         /\ Sound(b, copyPolicies(m, o).m) /\ copyPolicies(m, o).m.bins = m.bins
         /\ Sound(b, removeStale(m, o).m) /\ removeStale(m, o).m.bins = m.bins
         /\ removeStale(m, o).m.settings = m.settings
         /\ removeStale(m, o).m.unit = m.unit /\ removeStale(m, o).m.daemon = m.daemon
<1>1. m = [x \in Fields |-> m[x]] /\ m.bins \subseteq Binaries
  BY DEF Sound, Whole
<1>2. \A n : Done(n).m = n /\ Fail(n).m = n
  BY DEF Done, Fail
<1> DEFINE D == [m EXCEPT !.dir = TRUE]
           P == [m EXCEPT !.policies = @ \cup {"builtin"}]
           T == [m EXCEPT !.stale = FALSE]
<1>3. /\ D = [x \in Fields |-> D[x]] /\ D.settings = m.settings /\ D.rc = m.rc /\ D.bins = m.bins
  BY <1>1 DEF Fields
<1>4. /\ P = [x \in Fields |-> P[x]] /\ P.settings = m.settings /\ P.rc = m.rc /\ P.bins = m.bins
  BY <1>1 DEF Fields
<1>5. /\ T = [x \in Fields |-> T[x]] /\ T.settings = m.settings /\ T.rc = m.rc /\ T.bins = m.bins
      /\ T.unit = m.unit /\ T.daemon = m.daemon
  BY <1>1 DEF Fields
<1>6. /\ makeDir(m, o).m \in {m, D} /\ makePolicyDirs(m, o).m \in {m, D} /\ copyPolicies(m, o).m \in {m, P}
      /\ removeStale(m, o).m \in {m, T}
  BY <1>2 DEF makeDir, makePolicyDirs, copyPolicies, removeStale
<1> HIDE DEF D, P, T
<1>7. Sound(b, D) /\ Sound(b, P) /\ Sound(b, T)
  BY <1>1, <1>3, <1>4, <1>5, FilesSound
<1> QED BY <1>3, <1>4, <1>5, <1>6, <1>7

LEMMA DeploySound ==
  ASSUME NEW b, NEW m, Sound(b, m), NEW o, NEW bin \in Binaries
  PROVE  /\ Sound(b, deploy(m, o, bin).m) /\ m.bins \subseteq deploy(m, o, bin).m.bins
         /\ ~ o.skip /\ ~ o.dry => bin \in deploy(m, o, bin).m.bins
<1>1. m = [x \in Fields |-> m[x]] /\ m.bins \subseteq Binaries
  BY DEF Sound, Whole
<1> DEFINE C == copyFile(m, bin)
<1>2. C = [x \in Fields |-> C[x]] /\ C.settings = m.settings /\ C.rc = m.rc /\ C.bins = m.bins \cup {bin}
  BY <1>1 DEF Fields, copyFile
<1>3. deploy(m, o, bin).m = IF o.skip \/ o.dry THEN m ELSE C
  BY DEF deploy, Done
<1> HIDE DEF C
<1>4. Sound(b, C)
  BY <1>1, <1>2, FilesSound
<1> QED BY <1>2, <1>3, <1>4

LEMMA RemoveAllSound ==
  ASSUME NEW b, NEW m, Sound(b, m), ~ ours(m)
  PROVE  /\ Sound(b, RemoveAll(m)) /\ ~ ours(RemoveAll(m)) /\ ~ RemoveAll(m).dir
         /\ LET r == RemoveAll(m)
            IN  r.unit = m.unit /\ r.daemon = m.daemon /\ r.socket = m.socket /\ r.rc = m.rc
<1>1. m = [x \in Fields |-> m[x]] /\ m.bins \subseteq Binaries
  BY DEF Sound, Whole
<1> DEFINE n == RemoveAll(m)
<1>2. /\ n = [x \in Fields |-> n[x]] /\ n.settings = m.settings /\ n.rc = m.rc /\ n.bins = {}
      /\ ~ n.dir /\ n.unit = m.unit /\ n.daemon = m.daemon /\ n.socket = m.socket
  BY <1>1 DEF Fields, RemoveAll
<1> HIDE DEF n
<1>3. Sound(b, n)
  BY <1>2, FilesSound
<1>4. ~ ours(n)
  BY <1>2 DEF ours
<1> QED BY <1>2, <1>3, <1>4 DEF n

(* Of the user's hooks, only the one for PreToolUse is replaced.           *)
LEMMA SettingsSound ==
  ASSUME NEW b, NEW m, Sound(b, m), NEW o, o.dry \/ "nixis-hook" \in m.bins
  PROVE  LET r == patchSettingsJSON(m, o)
         IN  /\ Sound(b, r.m) /\ r.m.bins = m.bins /\ r.m.unit = m.unit /\ r.m.daemon = m.daemon
             /\ r.outcome = "ok" /\ ~ o.dry /\ confirm(o) => ours(r.m)
<1>1. m = [x \in Fields |-> m[x]] /\ m.bins \subseteq Binaries
  BY DEF Sound, Whole
<1> DEFINE H == [e \in DOMAIN m.settings.hooks \cup {"PreToolUse"} |->
                   IF e = "PreToolUse" THEN "nixis" ELSE m.settings.hooks[e]]
           n == [m EXCEPT !.settings = [state |-> "there", hooks |-> H]]
           r == patchSettingsJSON(m, o)
<1>2. /\ DOMAIN H = DOMAIN m.settings.hooks \cup {"PreToolUse"} /\ H["PreToolUse"] = "nixis"
      /\ \A e \in DOMAIN m.settings.hooks \ {"PreToolUse"} : H[e] = m.settings.hooks[e]
  OBVIOUS
<1>3. r = CASE m.settings.state = "broken" -> Fail(m)
            [] m.settings.state # "broken" /\ (o.dry \/ ~ confirm(o)) -> Done(m) [] OTHER -> Done(n)
  BY DEF patchSettingsJSON
<1> HIDE DEF H
<1>4. /\ n = [x \in Fields |-> n[x]] /\ n.settings = [state |-> "there", hooks |-> H]
      /\ n.rc = m.rc /\ n.bins = m.bins /\ n.unit = m.unit /\ n.daemon = m.daemon
  BY <1>1 DEF Fields
<1> HIDE DEF n, r
<1>5. n.settings.state = "there" /\ n.settings.hooks = H
  BY <1>4
<1>6. ours(n)
  BY <1>2, <1>5 DEF ours
<1>7. ASSUME "nixis-hook" \in m.bins PROVE Sound(b, n)
  <2>1. Whole(n)
    BY <1>1, <1>4, <1>5 DEF Whole
  <2>2. Runs(n)
    BY <1>4, <1>7 DEF Runs
  <2>3. FilesKept(b, n)
    BY <1>4 DEF FilesKept, Sound
  <2>4. HooksKept(b, n)
    BY <1>2, <1>5 DEF HooksKept, Sound
  <2> QED BY <2>1, <2>2, <2>3, <2>4 DEF Sound
<1>8. CASE m.settings.state = "broken"
  <2>1. r = Fail(m)
    BY <1>3, <1>8
  <2>2. r.m = m /\ r.outcome = "error"
    BY <2>1 DEF Fail
  <2> QED BY <2>2 DEF r
<1>9. CASE m.settings.state # "broken" /\ (o.dry \/ ~ confirm(o))
  <2>1. r = Done(m)
    BY <1>3, <1>9
  <2>2. r.m = m
    BY <2>1 DEF Done
  <2> QED BY <1>9, <2>2 DEF r
<1>10. CASE m.settings.state # "broken" /\ ~ o.dry /\ confirm(o)
  <2>1. r = Done(n)
    BY <1>3, <1>10
  <2>2. r.m = n
    BY <2>1 DEF Done
  <2> QED BY <1>4, <1>6, <1>7, <1>10, <2>2 DEF r
<1> QED BY <1>8, <1>9, <1>10

LEMMA UnpatchedSound ==
  ASSUME NEW b, NEW m, Sound(b, m), NEW o
  PROVE  LET r == unpatchSettingsJSON(m, o)
         IN  /\ Sound(b, r.m) /\ r.m.unit = m.unit /\ r.m.daemon = m.daemon
             /\ ~ o.dry => ~ ours(r.m)
<1>1. /\ m = [x \in Fields |-> m[x]] /\ m.bins \subseteq Binaries
      /\ m.settings = [state |-> m.settings.state, hooks |-> m.settings.hooks]
      /\ m.settings.state # "there" => DOMAIN m.settings.hooks = {}
  BY DEF Sound, Whole
<1> DEFINE r == unpatchSettingsJSON(m, o)
<1>2. CASE m.settings.state # "there" \/ o.dry
  <2>1. r.m = m
    BY <1>2 DEF unpatchSettingsJSON, Done
  <2>2. ~ o.dry => ~ ours(m)
    BY <1>1, <1>2 DEF ours
  <2> QED BY <2>1, <2>2
<1>3. CASE m.settings.state = "there" /\ ~ o.dry
  <2> DEFINE G == [e \in DOMAIN m.settings.hooks \ {"PreToolUse"} |-> m.settings.hooks[e]]
             n == [m EXCEPT !.settings.hooks = G]
  <2>1. r.m = n
    BY <1>3 DEF unpatchSettingsJSON, Done
  <2>2. DOMAIN G = DOMAIN m.settings.hooks \ {"PreToolUse"} /\ \A e \in DOMAIN G : G[e] = m.settings.hooks[e]
    OBVIOUS
  <2> HIDE DEF G
  <2>3. /\ n = [x \in Fields |-> n[x]] /\ n.settings = [m.settings EXCEPT !.hooks = G]
        /\ n.rc = m.rc /\ n.bins = m.bins /\ n.unit = m.unit /\ n.daemon = m.daemon
    BY <1>1 DEF Fields
  <2> HIDE DEF n, r
  <2>4. n.settings = [state |-> "there", hooks |-> G]
    BY <1>1, <1>3, <2>3
  <2>5. n.settings.state = "there" /\ n.settings.hooks = G
    BY <2>4
  <2>6. ~ ours(n)
    BY <2>2, <2>5 DEF ours
  <2>7. Whole(n)
    BY <1>1, <2>3, <2>4, <2>5 DEF Whole
  <2>8. Runs(n)
    BY <2>6 DEF Runs
  <2>9. FilesKept(b, n)
    BY <2>3 DEF FilesKept, Sound
  <2>10. HooksKept(b, n)
    BY <2>2, <2>5 DEF HooksKept, Sound
  <2> QED BY <2>1, <2>3, <2>6, <2>7, <2>8, <2>9, <2>10 DEF Sound, r
<1> QED BY <1>2, <1>3

LEMMA ShellFound ==
  ASSUME NEW m, NEW o, detectShellConfig(m, o) # Empty
  PROVE  detectShellConfig(m, o) \in DOMAIN m.rc
<1> DEFINE there == {n \in DOMAIN fallbacks : fallbacks[n] \in DOMAIN m.rc}
<1>1. detectShellConfig(m, o) = IF candidate(o.shell) \in DOMAIN m.rc THEN candidate(o.shell)
                                ELSE IF there = {} THEN Empty ELSE fallbacks[Min(there)]
  BY DEF detectShellConfig
<1>2. DOMAIN fallbacks = {1, 2, 3, 4}
  BY DEF fallbacks
<1>3. ASSUME there # {} PROVE Min(there) \in there
  <2>1. there \subseteq {1, 2, 3, 4}
    BY <1>2
  <2> HIDE DEF there
  <2>2. \E n \in there : \A j \in there : n =< j
    <3>1. CASE 1 \in there
      BY <2>1, <3>1
    <3>2. CASE 1 \notin there /\ 2 \in there
      BY <2>1, <3>2
    <3>3. CASE 1 \notin there /\ 2 \notin there /\ 3 \in there
      BY <2>1, <3>3
    <3>4. CASE 1 \notin there /\ 2 \notin there /\ 3 \notin there
      <4>1. there = {4}
        BY <1>3, <2>1, <3>4
      <4> QED BY <4>1
    <3> QED BY <3>1, <3>2, <3>3, <3>4
  <2> QED BY <2>2 DEF Min
<1> QED BY <1>1, <1>3

LEMMA ShellSound ==
  ASSUME NEW b \in Machines, NEW m, Sound(b, m), NEW o
  PROVE  LET n == patchShellPATH(m, o).m
         IN  /\ Sound(b, n) /\ n.bins = m.bins /\ n.settings = m.settings
             /\ n.unit = m.unit /\ n.daemon = m.daemon
<1>1. /\ m = [x \in Fields |-> m[x]] /\ m.bins \subseteq Binaries
      /\ DOMAIN m.rc = DOMAIN b.rc /\ \A f \in DOMAIN b.rc : Shape(b.rc[f], m.rc[f])
  BY DEF Sound, Whole, FilesKept
<1> DEFINE cfg == detectShellConfig(m, o)
           E == <<Marker, PathLine, Empty>>
           n == [m EXCEPT !.rc[cfg] = @ \o E]
<1>2. patchShellPATH(m, o) =
        IF cfg = Empty \/ o.dry \/ Range(m.rc[cfg]) \cap {PathLine, Mention} # {} THEN Done(m) ELSE Done(n)
  BY DEF patchShellPATH
<1>3. \A x : Done(x).m = x
  BY DEF Done
<1>4. ASSUME cfg # Empty, Range(m.rc[cfg]) \cap {PathLine, Mention} = {}
      PROVE  /\ Sound(b, n) /\ n.bins = m.bins /\ n.settings = m.settings
             /\ n.unit = m.unit /\ n.daemon = m.daemon
  <2>1. cfg \in DOMAIN m.rc
    BY <1>4, ShellFound
  <2> HIDE DEF cfg
  <2>2. Shape(b.rc[cfg], m.rc[cfg] \o E)
    <3>1. User(b.rc[cfg])
      BY <1>1, <2>1, CleanSound
    <3>2. PathLine \notin Range(m.rc[cfg])
      BY <1>4
    <3> QED BY <1>1, <2>1, <3>1, <3>2, ShapePatched
  <2> HIDE DEF E
  <2>3. /\ n = [x \in Fields |-> n[x]] /\ n.bins = m.bins /\ n.settings = m.settings
        /\ n.unit = m.unit /\ n.daemon = m.daemon
        /\ n.rc = [m.rc EXCEPT ![cfg] = @ \o E]
    BY <1>1 DEF Fields
  <2> HIDE DEF n
  <2>4. DOMAIN n.rc = DOMAIN m.rc /\ n.rc[cfg] = m.rc[cfg] \o E
        /\ \A f \in DOMAIN m.rc : f # cfg => n.rc[f] = m.rc[f]
    BY <2>1, <2>3
  <2>5. FilesKept(b, n)
    BY <1>1, <2>1, <2>2, <2>4 DEF FilesKept
  <2>6. Whole(n) /\ Runs(n) /\ HooksKept(b, n)
    BY <2>3 DEF Sound, Whole, Runs, ours, HooksKept
  <2> QED BY <2>3, <2>5, <2>6 DEF Sound
<1> HIDE DEF n, cfg
<1> QED BY <1>2, <1>3, <1>4

LEMMA CleanedSound ==
  ASSUME NEW b \in Machines, NEW m, Sound(b, m)
  PROVE  LET n == cleanShellConfigs(m)
         IN  /\ Sound(b, n) /\ n.settings = m.settings /\ n.unit = m.unit /\ n.daemon = m.daemon
             /\ \A f \in DOMAIN n.rc \cap cleaned : Plain(b.rc[f], n.rc[f])
<1>1. /\ m = [x \in Fields |-> m[x]] /\ m.bins \subseteq Binaries
      /\ DOMAIN m.rc = DOMAIN b.rc /\ \A f \in DOMAIN b.rc : Shape(b.rc[f], m.rc[f])
  BY DEF Sound, Whole, FilesKept
<1> DEFINE n == cleanShellConfigs(m)
           rest == [f \in DOMAIN m.rc |-> IF f \in cleaned THEN removeNixisLines(m.rc[f]) ELSE m.rc[f]]
<1>2. n = [m EXCEPT !.rc = rest]
  BY DEF cleanShellConfigs
<1>3. /\ DOMAIN rest = DOMAIN m.rc
      /\ \A f \in DOMAIN m.rc : rest[f] = IF f \in cleaned THEN removeNixisLines(m.rc[f]) ELSE m.rc[f]
  OBVIOUS
<1> HIDE DEF rest, n
<1>4. /\ n = [x \in Fields |-> n[x]] /\ n.bins = m.bins /\ n.settings = m.settings
      /\ n.unit = m.unit /\ n.daemon = m.daemon /\ n.rc = rest
  BY <1>1, <1>2 DEF Fields
<1>5. ASSUME NEW f \in DOMAIN m.rc PROVE Shape(b.rc[f], rest[f]) /\ (f \in cleaned => Plain(b.rc[f], rest[f]))
  <2>1. User(b.rc[f]) /\ Shape(b.rc[f], m.rc[f])
    BY <1>1, CleanSound
  <2>2. Plain(b.rc[f], removeNixisLines(m.rc[f]))
    BY <2>1, Cleaned
  <2> QED BY <1>3, <2>1, <2>2 DEF Shape
<1>6. FilesKept(b, n)
  BY <1>1, <1>3, <1>4, <1>5 DEF FilesKept
<1>7. Whole(n) /\ Runs(n) /\ HooksKept(b, n)
  BY <1>4 DEF Sound, Whole, Runs, ours, HooksKept
<1> QED BY <1>3, <1>4, <1>5, <1>6, <1>7 DEF Sound, n

-----------------------------------------------------------------------------
(* What each command has brought about after k steps on machine s.         *)
SetupDone(o, k, m) ==
  /\ o.skip => m.bins = Binaries
  /\ ~ o.dry =>
       /\ k >= 3 => "nixis" \in m.bins
       /\ k >= 4 => "nixis-hook" \in m.bins
       /\ k >= 5 => "nixis-daemon" \in m.bins
       /\ k >= 8 /\ confirm(o) /\ o.manager = "works" => m.unit /\ m.daemon
       /\ k >= 10 /\ confirm(o) => ours(m)
SetupUninstallDone(o, k, m) == k >= 2 /\ ~ o.dry => ~ ours(m)
UninstallDone(o, k, b, s, m) ==
  /\ k < 3 => m.unit = s.unit
  /\ k >= 2 /\ o.manager = "works" /\ ~ o.force => ~ m.daemon
  /\ k >= 3 => ~ m.unit /\ (o.manager = "works" /\ (~ o.force \/ s.unit) => ~ m.daemon)
  /\ k >= 4 => ~ ours(m)
  /\ k >= 5 => \A f \in DOMAIN m.rc \cap cleaned : Plain(b.rc[f], m.rc[f])
  /\ k >= 6 => ~ m.socket
  /\ k >= 7 => ~ m.dir

LEMMA SetupStep ==
  ASSUME NEW b \in Machines, NEW m, Sound(b, m), NEW o, o.manager \in Managers,
         NEW k \in 0 .. 11, SetupDone(o, k, m)
  PROVE  LET r == installStep(k + 1, m, o)
         IN  /\ Sound(b, r.m)
             /\ r.outcome = "ok" => SetupDone(o, k + 1, r.m)
             /\ o.dry => r.m \in {m, [m EXCEPT !.dir = TRUE]}
<1> DEFINE r == installStep(k + 1, m, o)
<1> SUFFICES /\ Sound(b, r.m)
             /\ r.outcome = "ok" => SetupDone(o, k + 1, r.m)
             /\ o.dry => r.m \in {m, [m EXCEPT !.dir = TRUE]}
  OBVIOUS
<1>1. m = [x \in Fields |-> m[x]] /\ m.bins \subseteq Binaries
  BY DEF Sound, Whole
<1>2. \A n : Done(n).m = n /\ Fail(n).m = n /\ Fail(n).outcome = "error"
  BY DEF Done, Fail
<1>3. Binaries = {"nixis", "nixis-hook", "nixis-daemon"}
  BY DEF Binaries
<1>4. ASSUME NEW n, OnlyService(m, n) PROVE Sound(b, n) /\ n.bins = m.bins /\ n.settings = m.settings
  <2>1. Sound(b, n)
    BY <1>4, ServiceSound
  <2> QED BY <1>4, <2>1 DEF OnlyService, Fields, Service
<1>5. CASE k = 0
  <2>1. r \in {Done(m), Fail(m)}
    BY <1>5 DEF installStep
  <2> HIDE DEF r
  <2> QED BY <1>2, <1>5, <2>1 DEF SetupDone
<1>6. CASE k = 1
  <2>1. r = makeDir(m, o)
    BY <1>6 DEF installStep
  <2>2. o.dry => r.m \in {m, [m EXCEPT !.dir = TRUE]}
    BY <1>2, <2>1 DEF makeDir
  <2> HIDE DEF r
  <2>3. Sound(b, r.m) /\ r.m.bins = m.bins
    BY <2>1, DirSound
  <2>4. SetupDone(o, k + 1, r.m)
    BY <1>6, <2>3 DEF SetupDone
  <2> QED BY <2>2, <2>3, <2>4
<1>7. CASE k \in {2, 3, 4}
  <2> DEFINE bin == CASE k = 2 -> "nixis" [] k = 3 -> "nixis-hook" [] k = 4 -> "nixis-daemon"
  <2>1. r = deploy(m, o, bin) /\ bin \in Binaries
    BY <1>3, <1>7 DEF installStep
  <2>2. o.dry => r.m = m
    BY <1>2, <2>1 DEF deploy
  <2> HIDE DEF r
  <2>3. /\ k = 2 => bin = "nixis"
        /\ k = 3 => bin = "nixis-hook"
        /\ k = 4 => bin = "nixis-daemon"
    OBVIOUS
  <2> HIDE DEF bin
  <2>4. Sound(b, r.m) /\ m.bins \subseteq r.m.bins /\ (~ o.skip /\ ~ o.dry => bin \in r.m.bins)
    BY <2>1, DeploySound
  <2>5. r.m.bins \subseteq Binaries
    BY <2>4 DEF Sound, Whole
  <2>6. SetupDone(o, k + 1, r.m)
    BY <1>3, <1>7, <2>1, <2>3, <2>4, <2>5 DEF SetupDone
  <2> QED BY <2>2, <2>4, <2>6
<1>8. CASE k = 5
  <2>1. r = makePolicyDirs(m, o)
    BY <1>8 DEF installStep
  <2>2. o.dry => r.m \in {m, [m EXCEPT !.dir = TRUE]}
    BY <1>2, <2>1 DEF makePolicyDirs
  <2> HIDE DEF r
  <2>3. Sound(b, r.m) /\ r.m.bins = m.bins
    BY <2>1, DirSound
  <2>4. SetupDone(o, k + 1, r.m)
    BY <1>8, <2>3 DEF SetupDone
  <2> QED BY <2>2, <2>3, <2>4
<1>9. CASE k = 6
  <2>1. r = copyPolicies(m, o)
    BY <1>9 DEF installStep
  <2>2. o.dry => r.m = m
    BY <1>2, <2>1 DEF copyPolicies
  <2> HIDE DEF r
  <2>3. Sound(b, r.m) /\ r.m.bins = m.bins
    BY <2>1, DirSound
  <2>4. SetupDone(o, k + 1, r.m)
    BY <1>9, <2>3 DEF SetupDone
  <2> QED BY <2>2, <2>3, <2>4
<1>10. CASE k = 7
  <2>1. r = IF o.dry THEN Done(m) ELSE installDaemonService(m, o)
    BY <1>10 DEF installStep
  <2> HIDE DEF r
  <2>2. OnlyService(m, r.m) /\ (o.dry => r.m = m)
    BY <1>1, <1>2, <2>1, ServiceOnly
  <2>3. ~ o.dry /\ confirm(o) /\ o.manager = "works" => r.m.unit /\ r.m.daemon
    BY <1>1, <2>1, Installed
  <2>4. Sound(b, r.m) /\ r.m.bins = m.bins
    BY <1>4, <2>2
  <2>5. SetupDone(o, k + 1, r.m)
    BY <1>10, <2>3, <2>4 DEF SetupDone
  <2> QED BY <2>2, <2>4, <2>5
<1>11. CASE k = 8
  <2>1. r = IF o.dry THEN Done(m) ELSE restartDaemon(m, o)
    BY <1>11 DEF installStep
  <2> HIDE DEF r
  <2>2. OnlyService(m, r.m) /\ (o.dry => r.m = m)
    BY <1>1, <1>2, <2>1, ServiceOnly, CommandsService
  <2>3. ~ o.dry /\ confirm(o) /\ o.manager = "works" => r.m.unit /\ r.m.daemon
    BY <1>1, <1>11, <2>1, Installed DEF SetupDone
  <2>4. Sound(b, r.m) /\ r.m.bins = m.bins
    BY <1>4, <2>2
  <2>5. SetupDone(o, k + 1, r.m)
    BY <1>11, <2>3, <2>4 DEF SetupDone
  <2> QED BY <2>2, <2>4, <2>5
<1>12. CASE k = 9
  <2>1. r = patchSettingsJSON(m, o)
    BY <1>12 DEF installStep
  <2>2. o.dry => r.m = m
    BY <1>2, <2>1 DEF patchSettingsJSON
  <2> HIDE DEF r
  <2>3. o.dry \/ "nixis-hook" \in m.bins
    BY <1>12 DEF SetupDone
  <2>4. /\ Sound(b, r.m) /\ r.m.bins = m.bins /\ r.m.unit = m.unit /\ r.m.daemon = m.daemon
        /\ r.outcome = "ok" /\ ~ o.dry /\ confirm(o) => ours(r.m)
    <3>1. LET q == patchSettingsJSON(m, o)
          IN  /\ Sound(b, q.m) /\ q.m.bins = m.bins /\ q.m.unit = m.unit /\ q.m.daemon = m.daemon
              /\ q.outcome = "ok" /\ ~ o.dry /\ confirm(o) => ours(q.m)
      BY <2>3, SettingsSound
    <3> QED BY <2>1, <3>1
  <2>5. r.outcome = "ok" => SetupDone(o, k + 1, r.m)
    BY <1>12, <2>4 DEF SetupDone
  <2> QED BY <2>2, <2>4, <2>5
<1>13. CASE k = 10
  <2>1. r = removeStale(m, o)
    BY <1>13 DEF installStep
  <2>2. o.dry => r.m = m
    BY <1>2, <2>1 DEF removeStale
  <2> HIDE DEF r
  <2>3. /\ Sound(b, r.m) /\ r.m.bins = m.bins /\ r.m.settings = m.settings
        /\ r.m.unit = m.unit /\ r.m.daemon = m.daemon
    BY <2>1, DirSound
  <2>4. SetupDone(o, k + 1, r.m)
    BY <1>13, <2>3 DEF SetupDone, ours
  <2> QED BY <2>2, <2>3, <2>4
<1>14. CASE k = 11
  <2>1. r = patchShellPATH(m, o)
    BY <1>14 DEF installStep
  <2>2. o.dry => r.m = m
    BY <1>2, <2>1 DEF patchShellPATH
  <2> HIDE DEF r
  <2>3. /\ Sound(b, r.m) /\ r.m.bins = m.bins /\ r.m.settings = m.settings
        /\ r.m.unit = m.unit /\ r.m.daemon = m.daemon
    BY <2>1, ShellSound
  <2>4. SetupDone(o, k + 1, r.m)
    BY <1>14, <2>3 DEF SetupDone, ours
  <2> QED BY <2>2, <2>3, <2>4
<1>15. k \in {0, 1, 2, 3, 4, 5, 6, 7, 8, 9, 10, 11}
  OBVIOUS
<1> HIDE DEF r
<1> QED BY <1>5, <1>6, <1>7, <1>8, <1>9, <1>10, <1>11, <1>12, <1>13, <1>14, <1>15

LEMMA SetupUninstallStep ==
  ASSUME NEW b \in Machines, NEW m, Sound(b, m), NEW o, o.manager \in Managers,
         NEW k \in 0 .. 2, SetupUninstallDone(o, k, m)
  PROVE  LET r == setupUninstallStep(k + 1, m, o)
         IN  /\ Sound(b, r.m)
             /\ r.outcome = "ok" => SetupUninstallDone(o, k + 1, r.m)
             /\ o.dry => r.m = m
<1> DEFINE r == setupUninstallStep(k + 1, m, o)
<1>1. m = [x \in Fields |-> m[x]]
  BY DEF Sound, Whole
<1>2. \A n : Done(n).m = n /\ Ended(n).m = n /\ Ended(n).outcome = "end"
  BY DEF Done, Ended
<1>3. CASE k = 0
  <2>1. r = IF o.dry THEN Done(m) ELSE uninstallDaemonService(m, o)
    BY <1>3 DEF setupUninstallStep
  <2> HIDE DEF r
  <2>2. OnlyService(m, r.m) /\ (o.dry => r.m = m)
    BY <1>1, <1>2, <2>1, ServiceOnly
  <2>3. Sound(b, r.m)
    BY <2>2, ServiceSound
  <2> QED BY <1>3, <2>2, <2>3 DEF SetupUninstallDone, r
<1>4. CASE k = 1
  <2>1. r = unpatchSettingsJSON(m, o)
    BY <1>4 DEF setupUninstallStep
  <2>2. o.dry => r.m = m
    BY <1>2, <2>1 DEF unpatchSettingsJSON
  <2> HIDE DEF r
  <2>3. Sound(b, r.m) /\ (~ o.dry => ~ ours(r.m))
    BY <2>1, UnpatchedSound
  <2> QED BY <1>4, <2>2, <2>3 DEF SetupUninstallDone, r
<1>5. CASE k = 2
  <2>1. CASE o.dry
    <3>1. r = Done(m)
      BY <1>5, <2>1 DEF setupUninstallStep
    <3> HIDE DEF r
    <3> QED BY <1>2, <2>1, <3>1 DEF SetupUninstallDone, r
  <2>2. CASE ~ o.dry /\ ~ confirm(o)
    <3>1. r = Ended(m)
      BY <1>5, <2>2 DEF setupUninstallStep
    <3> HIDE DEF r
    <3> QED BY <1>2, <2>2, <3>1 DEF SetupUninstallDone, r
  <2>3. CASE ~ o.dry /\ confirm(o)
    <3>1. r = Done(RemoveAll(m))
      BY <1>5, <2>3 DEF setupUninstallStep
    <3> HIDE DEF r
    <3>2. ~ ours(m)
      BY <1>5, <2>3 DEF SetupUninstallDone
    <3>3. Sound(b, r.m) /\ ~ ours(r.m)
      BY <1>2, <3>1, <3>2, RemoveAllSound
    <3> QED BY <2>3, <3>3 DEF SetupUninstallDone, r
  <2> QED BY <2>1, <2>2, <2>3
<1> QED BY <1>3, <1>4, <1>5

LEMMA UninstallStep ==
  ASSUME NEW b \in Machines, NEW s, NEW m, Sound(b, m), NEW o, o.manager \in Managers, ~ o.dry,
         NEW k \in 0 .. 6, UninstallDone(o, k, b, s, m)
  PROVE  LET r == uninstallStep(k + 1, m, o)
         IN  /\ Sound(b, r.m)
             /\ r.outcome = "ok" => UninstallDone(o, k + 1, b, s, r.m)
<1> DEFINE r == uninstallStep(k + 1, m, o)
<1> SUFFICES Sound(b, r.m) /\ (r.outcome = "ok" => UninstallDone(o, k + 1, b, s, r.m))
  OBVIOUS
<1>1. m = [x \in Fields |-> m[x]] /\ m.bins \subseteq Binaries
  BY DEF Sound, Whole
<1>2. \A n : Done(n).m = n /\ Ended(n).m = n /\ Ended(n).outcome = "end"
  BY DEF Done, Ended
<1>3. CASE k = 0
  <2>1. r \in {Done(m), Ended(m)}
    BY <1>3 DEF uninstallStep
  <2> HIDE DEF r
  <2> QED BY <1>2, <1>3, <2>1 DEF UninstallDone
<1>4. CASE k = 1
  <2>1. r = IF o.force THEN Done(killDaemonProcess(m)) ELSE Done(stopOrKill(m, o))
    BY <1>4 DEF uninstallStep
  <2> HIDE DEF r
  <2>2. r.m = IF o.force THEN killDaemonProcess(m) ELSE stopOrKill(m, o)
    BY <1>2, <2>1
  <2>3. OnlyService(m, r.m)
    BY <1>1, <2>2, ServiceOnly
  <2>4. r.m.unit = m.unit /\ (o.manager = "works" /\ ~ o.force => ~ r.m.daemon)
    BY <1>1, <2>2, Removed
  <2>5. Sound(b, r.m)
    BY <2>3, ServiceSound
  <2> QED BY <1>4, <2>4, <2>5 DEF UninstallDone
<1>5. CASE k = 2
  <2>1. r = uninstallDaemonService(m, o)
    BY <1>5 DEF uninstallStep
  <2> HIDE DEF r
  <2>2. OnlyService(m, r.m)
    BY <1>1, <2>1, ServiceOnly
  <2>3. /\ r.outcome = "ok" => ~ r.m.unit
        /\ o.manager = "works" /\ (m.unit \/ ~ m.daemon) => ~ r.m.daemon
    BY <1>1, <2>1, Removed
  <2>4. Sound(b, r.m)
    BY <2>2, ServiceSound
  <2> QED BY <1>5, <2>3, <2>4 DEF UninstallDone
<1>6. CASE k = 3
  <2>1. r = unpatchSettingsJSON(m, o)
    BY <1>6 DEF uninstallStep
  <2> HIDE DEF r
  <2>2. Sound(b, r.m) /\ r.m.unit = m.unit /\ r.m.daemon = m.daemon /\ ~ ours(r.m)
    BY <2>1, UnpatchedSound
  <2> QED BY <1>6, <2>2 DEF UninstallDone
<1>7. CASE k = 4
  <2>1. r = Done(cleanShellConfigs(m))
    BY <1>7 DEF uninstallStep
  <2> HIDE DEF r
  <2>2. /\ Sound(b, r.m) /\ r.m.settings = m.settings /\ r.m.unit = m.unit /\ r.m.daemon = m.daemon
        /\ \A f \in DOMAIN r.m.rc \cap cleaned : Plain(b.rc[f], r.m.rc[f])
    BY <1>2, <2>1, CleanedSound
  <2> QED BY <1>7, <2>2 DEF UninstallDone, ours
<1>8. CASE k = 5
  <2> DEFINE n == [m EXCEPT !.socket = FALSE]
  <2>1. r = Done(n)
    BY <1>8 DEF uninstallStep
  <2> HIDE DEF r
  <2>2. /\ n = [x \in Fields |-> n[x]] /\ n.settings = m.settings /\ n.rc = m.rc /\ n.bins = m.bins
        /\ n.unit = m.unit /\ n.daemon = m.daemon /\ ~ n.socket
    BY <1>1 DEF Fields
  <2> HIDE DEF n
  <2>3. Sound(b, n)
    BY <1>1, <2>2, FilesSound
  <2>4. r.m = n
    BY <1>2, <2>1
  <2> QED BY <1>8, <2>2, <2>3, <2>4 DEF UninstallDone, ours
<1>9. CASE k = 6
  <2>1. r = Done(RemoveAll(m))
    BY <1>9 DEF uninstallStep
  <2> HIDE DEF r
  <2>2. r.m = RemoveAll(m) /\ ~ ours(m)
    BY <1>2, <1>9, <2>1 DEF UninstallDone
  <2>3. /\ Sound(b, r.m) /\ ~ ours(r.m) /\ ~ r.m.dir
        /\ r.m.unit = m.unit /\ r.m.daemon = m.daemon /\ r.m.socket = m.socket /\ r.m.rc = m.rc
    BY <2>2, RemoveAllSound
  <2> QED BY <1>9, <2>3 DEF UninstallDone
<1>10. k \in {0, 1, 2, 3, 4, 5, 6}
  OBVIOUS
<1> HIDE DEF r
<1> QED BY <1>3, <1>4, <1>5, <1>6, <1>7, <1>8, <1>9, <1>10

-----------------------------------------------------------------------------
(* The inductive invariant: whatever was interrupted, the machine is sound *)
(* and the command that is under way has done what its steps so far do.    *)
Given == \/ cmd.op = "none" /\ cmd.outcome = "end"
         \/ cmd.op \in DOMAIN steps /\ cmd.o \in Circumstances[cmd.op]
Dry == cmd.op # "none" /\ cmd.o.dry => machine = [start EXCEPT !.dir = machine.dir]
Progress ==
  cmd.outcome = "ok" =>
    /\ cmd.op = "setup" => SetupDone(cmd.o, cmd.k, machine)
    /\ cmd.op = "setup_uninstall" => SetupUninstallDone(cmd.o, cmd.k, machine)
    /\ cmd.op = "uninstall" => UninstallDone(cmd.o, cmd.k, base, start, machine)
InstallInv ==
  /\ base \in Machines /\ Sound(base, machine)
  /\ cmd = [op |-> cmd.op, o |-> cmd.o, k |-> cmd.k, outcome |-> cmd.outcome] /\ cmd.k \in Nat
  /\ Given /\ Dry /\ Progress

LEMMA InstallInitInv == InstallInit => InstallInv
<1> SUFFICES ASSUME InstallInit PROVE InstallInv
  OBVIOUS
<1>1. base \in Machines /\ machine = base
  BY DEF InstallInit
<1>2. cmd = [op |-> "none", o |-> NoOptions, k |-> 0, outcome |-> "end"]
  BY DEF InstallInit
<1>3. Sound(base, machine)
  BY <1>1, CleanSound
<1>4. Given /\ Dry /\ Progress
  BY <1>2 DEF Given, Dry, Progress
<1> QED BY <1>1, <1>2, <1>3, <1>4 DEF InstallInv

LEMMA BeginInv ==
  ASSUME InstallInv, NEW op \in DOMAIN steps, NEW o \in Circumstances[op], Begin(op, o)
  PROVE  InstallInv'
<1>1. /\ base \in Machines /\ Sound(base, machine)
      /\ base' = base /\ machine' = machine /\ start' = machine
      /\ o.skip => machine.bins = Binaries
  BY DEF InstallInv, Begin
<1>2. cmd' = [op |-> op, o |-> o, k |-> 0, outcome |-> "ok"]
  BY DEF Begin
<1>3. cmd'.op = op /\ cmd'.o = o /\ cmd'.k = 0 /\ cmd'.outcome = "ok"
  BY <1>2
<1>4. machine = [x \in Fields |-> machine[x]]
  BY <1>1 DEF Sound, Whole
<1>5. Given'
  BY <1>3 DEF Given
<1>6. Dry'
  <2>1. machine = [machine EXCEPT !.dir = machine.dir]
    BY <1>4 DEF Fields
  <2> QED BY <1>1, <2>1 DEF Dry
<1>7. SetupDone(o, 0, machine) /\ SetupUninstallDone(o, 0, machine) /\ UninstallDone(o, 0, base, machine, machine)
  BY <1>1 DEF SetupDone, SetupUninstallDone, UninstallDone
<1>8. Progress'
  BY <1>1, <1>3, <1>7 DEF Progress
<1>9. Sound(base, machine)'
  BY <1>1
<1> QED BY <1>1, <1>2, <1>3, <1>5, <1>6, <1>8, <1>9 DEF InstallInv

LEMMA ContinueInv ==
  ASSUME InstallInv, Continue
  PROVE  InstallInv'
<1> DEFINE r == step(cmd.op, cmd.k + 1, machine, cmd.o)
           o == cmd.o
           m == machine
           n == machine'
<1>1. /\ base \in Machines /\ Sound(base, m) /\ cmd.k \in Nat
      /\ cmd = [op |-> cmd.op, o |-> cmd.o, k |-> cmd.k, outcome |-> cmd.outcome]
  BY DEF InstallInv
<1>2. /\ cmd.outcome = "ok" /\ cmd.k < steps[cmd.op] /\ machine' = r.m
      /\ cmd' = [cmd EXCEPT !.k = @ + 1, !.outcome = r.outcome]
      /\ base' = base /\ start' = start
  BY DEF Continue
<1> HIDE DEF r
<1>3. /\ cmd' = [op |-> cmd.op, o |-> cmd.o, k |-> cmd.k + 1, outcome |-> r.outcome]
      /\ cmd'.op = cmd.op /\ cmd'.o = cmd.o /\ cmd'.k = cmd.k + 1 /\ cmd'.outcome = r.outcome
  BY <1>1, <1>2
<1>4. cmd.op \in DOMAIN steps /\ o \in Circumstances[cmd.op]
  BY <1>2 DEF InstallInv, Given
<1>5. o.manager \in Managers /\ (o.dry => cmd.op \in {"setup", "setup_uninstall"})
  BY <1>4, CircumstancesAssumption DEF Managers
<1>6. DOMAIN steps = {"setup", "setup_uninstall", "uninstall", "start", "stop", "restart"}
  BY DEF steps
<1>7. m = [x \in Fields |-> m[x]]
  BY <1>1 DEF Sound, Whole
<1>8. Given'
  BY <1>3, <1>4 DEF Given
<1>9. ASSUME Sound(base, n),
             o.dry => n \in {m, [m EXCEPT !.dir = TRUE]},
             r.outcome = "ok" =>
               /\ cmd.op = "setup" => SetupDone(o, cmd.k + 1, n)
               /\ cmd.op = "setup_uninstall" => SetupUninstallDone(o, cmd.k + 1, n)
               /\ cmd.op = "uninstall" => UninstallDone(o, cmd.k + 1, base, start, n)
      PROVE  InstallInv'
  <2>1. Dry'
    <3> SUFFICES ASSUME o.dry PROVE n = [start EXCEPT !.dir = n.dir]
      BY <1>2, <1>3 DEF Dry
    <3>1. m = [start EXCEPT !.dir = m.dir]
      BY <1>4, <1>6 DEF InstallInv, Dry
    <3>2. CASE n = m
      BY <3>1, <3>2
    <3>3. CASE n = [m EXCEPT !.dir = TRUE]
      <4>1. DOMAIN m = DOMAIN start /\ "dir" \in DOMAIN m
        BY <1>7, <3>1 DEF Fields
      <4> QED BY <3>1, <3>3, <4>1
    <3> QED BY <1>9, <3>2, <3>3
  <2>2. Progress'
    BY <1>2, <1>3, <1>9 DEF Progress
  <2>3. Sound(base, machine)'
    BY <1>2, <1>9
  <2>4. /\ cmd' = [op |-> cmd'.op, o |-> cmd'.o, k |-> cmd'.k, outcome |-> cmd'.outcome]
        /\ cmd'.k \in Nat /\ base' \in Machines
    <3>1. \A a, c, d, e : LET t == [op |-> a, o |-> c, k |-> d, outcome |-> e]
                          IN  t = [op |-> t.op, o |-> t.o, k |-> t.k, outcome |-> t.outcome]
      OBVIOUS
    <3>2. cmd' = [op |-> cmd'.op, o |-> cmd'.o, k |-> cmd'.k, outcome |-> cmd'.outcome]
      BY <1>3, <3>1, Zenon
    <3>3. cmd'.k = cmd.k + 1 /\ cmd.k \in Nat
      BY <1>1, <1>3, Zenon
    <3>4. base' \in Machines
      BY <1>1, <1>2, Zenon
    <3> QED BY <3>2, <3>3, <3>4
  <2> QED BY <1>8, <2>1, <2>2, <2>3, <2>4 DEF InstallInv
<1>10. CASE cmd.op = "setup"
  <2>1. cmd.k \in 0 .. 11 /\ r = installStep(cmd.k + 1, m, o)
    BY <1>1, <1>2, <1>10 DEF steps, step, r
  <2>2. SetupDone(o, cmd.k, m)
    BY <1>2, <1>10 DEF InstallInv, Progress
  <2>3. /\ Sound(base, r.m) /\ (r.outcome = "ok" => SetupDone(o, cmd.k + 1, r.m))
        /\ o.dry => r.m \in {m, [m EXCEPT !.dir = TRUE]}
    BY <1>1, <1>5, <2>1, <2>2, SetupStep
  <2> QED BY <1>2, <1>9, <1>10, <2>3
<1>11. CASE cmd.op = "setup_uninstall"
  <2>1. cmd.k \in 0 .. 2 /\ r = setupUninstallStep(cmd.k + 1, m, o)
    BY <1>1, <1>2, <1>11 DEF steps, step, r
  <2>2. SetupUninstallDone(o, cmd.k, m)
    BY <1>2, <1>11 DEF InstallInv, Progress
  <2>3. Sound(base, r.m) /\ (r.outcome = "ok" => SetupUninstallDone(o, cmd.k + 1, r.m)) /\ (o.dry => r.m = m)
    BY <1>1, <1>5, <2>1, <2>2, SetupUninstallStep
  <2> QED BY <1>2, <1>9, <1>11, <2>3
<1>12. CASE cmd.op = "uninstall"
  <2>1. cmd.k \in 0 .. 6 /\ r = uninstallStep(cmd.k + 1, m, o)
    BY <1>1, <1>2, <1>12 DEF steps, step, r
  <2>2. UninstallDone(o, cmd.k, base, start, m) /\ ~ o.dry
    BY <1>2, <1>5, <1>12 DEF InstallInv, Progress
  <2>3. Sound(base, r.m) /\ (r.outcome = "ok" => UninstallDone(o, cmd.k + 1, base, start, r.m))
    BY <1>1, <1>5, <2>1, <2>2, UninstallStep
  <2> QED BY <1>2, <1>9, <1>12, <2>2, <2>3
<1>13. CASE cmd.op \in {"start", "stop", "restart"}
  <2>1. r \in {runDaemonStart(m, o), runDaemonStop(m, o), runDaemonRestart(m, o)} /\ ~ o.dry
    BY <1>5, <1>13 DEF step, r
  <2>2. OnlyService(m, r.m)
    BY <1>5, <1>7, <2>1, CommandsService
  <2>3. Sound(base, r.m)
    BY <1>1, <2>2, ServiceSound
  <2> QED BY <1>2, <1>9, <1>13, <2>1, <2>3
<1> QED BY <1>4, <1>6, <1>10, <1>11, <1>12, <1>13

LEMMA InstallNextInv == InstallInv /\ [InstallNext]_installVars => InstallInv'
<1> SUFFICES ASSUME InstallInv, [InstallNext]_installVars PROVE InstallInv'
  OBVIOUS
<1>1. CASE UNCHANGED installVars
  BY <1>1 DEF installVars, InstallInv, Given, Dry, Progress
<1>2. CASE InstallNext
  BY <1>2, BeginInv, ContinueInv DEF InstallNext
<1> QED BY <1>1, <1>2

LEMMA InstallInvSettles == InstallInv => InstallSettles
<1> SUFFICES ASSUME InstallInv PROVE InstallSettles
  OBVIOUS
<1>1. /\ base \in Machines /\ Sound(base, machine) /\ Given /\ Dry /\ Progress
      /\ machine.bins \subseteq Binaries /\ DOMAIN machine.rc = DOMAIN base.rc
  BY DEF InstallInv, Sound, Whole, FilesKept
<1>2. ASSUME NEW f \in DOMAIN base.rc
      PROVE  /\ User(base.rc[f]) /\ linesKept(base.rc[f], machine.rc[f])
             /\ AtMostOneEntry(machine.rc[f]) /\ machine.rc[f] \in Seq(Lines)
  <2>1. User(base.rc[f]) /\ Shape(base.rc[f], machine.rc[f])
    BY <1>1, CleanSound DEF Sound, FilesKept
  <2> QED BY <2>1, ShapeKept
<1>3. ours(machine) => "nixis-hook" \in machine.bins
  BY <1>1 DEF Sound, Runs
<1>4. kept(base, machine)
  BY <1>1, <1>2 DEF kept, Sound, HooksKept
<1>5. \A f \in DOMAIN machine.rc : AtMostOneEntry(machine.rc[f])
  BY <1>1, <1>2
<1>6. cmd.op # "none" /\ cmd.o.dry => machine = [start EXCEPT !.dir = machine.dir]
  BY <1>1 DEF Dry
<1>7. complete("setup") /\ ~ cmd.o.dry /\ confirm(cmd.o) =>
        ours(machine) /\ machine.bins = Binaries /\ (cmd.o.manager = "works" => machine.daemon)
  <2> SUFFICES ASSUME complete("setup"), ~ cmd.o.dry, confirm(cmd.o)
               PROVE  ours(machine) /\ machine.bins = Binaries /\ (cmd.o.manager = "works" => machine.daemon)
    OBVIOUS
  <2>1. cmd.op = "setup" /\ cmd.k = 12 /\ cmd.outcome = "ok"
    BY DEF complete, steps
  <2>2. SetupDone(cmd.o, 12, machine)
    BY <1>1, <2>1 DEF Progress
  <2> QED BY <1>1, <2>2 DEF SetupDone, Binaries
<1>8. complete("uninstall") =>
        /\ ~ ours(machine) /\ ~ machine.dir /\ ~ machine.unit /\ ~ machine.socket
        /\ cmd.o.manager = "works" /\ (~ cmd.o.force \/ start.unit) => ~ machine.daemon
        /\ \A f \in DOMAIN machine.rc \cap cleaned :
             /\ Range(machine.rc[f]) \cap {Marker, PathLine} = {}
             /\ Last(base.rc[f]) = Empty => machine.rc[f] = base.rc[f]
  <2> SUFFICES ASSUME complete("uninstall")
               PROVE  /\ ~ ours(machine) /\ ~ machine.dir /\ ~ machine.unit /\ ~ machine.socket
                      /\ cmd.o.manager = "works" /\ (~ cmd.o.force \/ start.unit) => ~ machine.daemon
                      /\ \A f \in DOMAIN machine.rc \cap cleaned :
                           /\ Range(machine.rc[f]) \cap {Marker, PathLine} = {}
                           /\ Last(base.rc[f]) = Empty => machine.rc[f] = base.rc[f]
    OBVIOUS
  <2>1. cmd.op = "uninstall" /\ cmd.k = 7 /\ cmd.outcome = "ok"
    BY DEF complete, steps
  <2>2. UninstallDone(cmd.o, 7, base, start, machine)
    BY <1>1, <2>1 DEF Progress
  <2>3. ASSUME NEW f \in DOMAIN machine.rc \cap cleaned
        PROVE  /\ Range(machine.rc[f]) \cap {Marker, PathLine} = {}
               /\ Last(base.rc[f]) = Empty => machine.rc[f] = base.rc[f]
    <3>1. Plain(base.rc[f], machine.rc[f])
      BY <2>2 DEF UninstallDone
    <3>2. User(base.rc[f]) /\ machine.rc[f] \in Seq(Lines)
      BY <1>1, <1>2
    <3>3. \A i \in 1 .. Len(machine.rc[f]) : machine.rc[f][i] \notin {Marker, PathLine}
      BY <3>1, <3>2, PlainLines
    <3>4. DOMAIN machine.rc[f] = 1 .. Len(machine.rc[f])
      BY <3>2
    <3>5. Range(machine.rc[f]) \cap {Marker, PathLine} = {}
      BY <3>3, <3>4 DEF Range
    <3>6. Last(base.rc[f]) = Empty => machine.rc[f] = base.rc[f]
      BY <3>1 DEF Plain, Last
    <3> QED BY <3>5, <3>6
  <2>4. /\ ~ ours(machine) /\ ~ machine.dir /\ ~ machine.unit /\ ~ machine.socket
        /\ cmd.o.manager = "works" /\ (~ cmd.o.force \/ start.unit) => ~ machine.daemon
    BY <2>2 DEF UninstallDone
  <2> QED BY <2>3, <2>4
<1> QED BY <1>3, <1>4, <1>5, <1>6, <1>7, <1>8 DEF InstallSettles

(* Whatever machine, circumstances and interruptions: setup and uninstall  *)
(* keep what is the user's, name only a hook that can run, and a command   *)
(* that completes has done its work.                                       *)
THEOREM InstallSettlesHolds == InstallSpec => []InstallSettles
<1>1. InstallSpec => []InstallInv
  BY InstallInitInv, InstallNextInv, PTL DEF InstallSpec
<1> QED BY <1>1, InstallInvSettles, PTL
=============================================================================
