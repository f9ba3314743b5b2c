------------------------------- MODULE PidLock -------------------------------
(***************************************************************************)
(* The PID lock file that keeps a second nixis-daemon from starting:       *)
(* internal/daemon/pidlock.go, taken and released by main() of             *)
(* cmd/nixis-daemon.                                                       *)
(*                                                                         *)
(* flock(2) locks an inode, not a path, and Unlock removes the path after  *)
(* it has released the lock.  The file system is therefore modelled as a   *)
(* directory entry (path) that names an inode or nothing, the content and  *)
(* the lock holder of every inode, and the inode every process has open.   *)
(***************************************************************************)
EXTENDS Naturals, FiniteSets

CONSTANTS Procs,      \* daemon processes that may be started, and restarted
          MaxInodes,  \* bound: pid files that exist at once
          NoProc      \* "no process": a free lock, an empty pid file

ASSUME ProcsAssumption == NoProc \notin Procs /\ Procs # {}
ASSUME MaxInodesAssumption == MaxInodes \in Nat \ {0}

VARIABLES
  path,     \* inode the directory entry daemon.pid names, 0 if there is none
  flock,    \* flock[i]: process holding the exclusive lock of inode i
  content,  \* content[i]: PID written in inode i
  fd,       \* fd[p]: inode process p has open, 0 if none
  pc        \* control state of every process

vars == <<path, flock, content, fd, pc>>

Inodes == 1 .. MaxInodes
NoInode == 0

States == {"down", "opened", "locked", "running", "unlocked", "closed"}

(* AcquirePIDLock returned and Unlock has not been called: the daemon runs. *)
Holds(p) == pc[p] = "running"

(* Types, and a process has the file open exactly from OpenFile to Close:  *)
(* no path of AcquirePIDLock or Unlock leaks the descriptor.               *)
TypeOK ==
  /\ path \in Inodes \cup {NoInode}
  /\ flock \in [Inodes -> Procs \cup {NoProc}]
  /\ content \in [Inodes -> Procs \cup {NoProc}]
  /\ fd \in [Procs -> Inodes \cup {NoInode}]
  /\ pc \in [Procs -> States]
  /\ \A p \in Procs : fd[p] = NoInode <=> pc[p] \in {"down", "closed"}

Init ==
  /\ path = NoInode
  /\ flock = [i \in Inodes |-> NoProc]
  /\ content = [i \in Inodes |-> NoProc]
  /\ fd = [p \in Procs |-> NoInode]
  /\ pc = [p \in Procs |-> "down"]

-----------------------------------------------------------------------------
(* Mutant: the file is truncated and the PID written when it is opened,    *)
(* before the lock has been won.                                           *)
OpenExistingTruncates(p) ==
  /\ pc[p] = "down"
  /\ path # NoInode
  /\ fd' = [fd EXCEPT ![p] = path]
  /\ content' = [content EXCEPT ![path] = p]
  /\ pc' = [pc EXCEPT ![p] = "opened"]
  /\ UNCHANGED <<path, flock>>

(* os.OpenFile(path, O_CREATE|O_RDWR): opens the file that is there, or    *)
(* creates one.                                                            *)
OpenExisting(p) ==
  /\ pc[p] = "down"
  /\ path # NoInode
  /\ fd' = [fd EXCEPT ![p] = path]
  /\ pc' = [pc EXCEPT ![p] = "opened"]
  /\ UNCHANGED <<path, flock, content>>

(* A new file has an inode that nobody has open.                           *)
OpenCreate(p) ==
  /\ pc[p] = "down"
  /\ path = NoInode
  /\ \E i \in Inodes :
       /\ \A q \in Procs : fd[q] # i
       /\ path' = i
       /\ content' = [content EXCEPT ![i] = NoProc]
       /\ fd' = [fd EXCEPT ![p] = i]
  /\ pc' = [pc EXCEPT ![p] = "opened"]
  /\ UNCHANGED flock

(* syscall.Flock(LOCK_EX|LOCK_NB) succeeds.                                *)
FlockWon(p) ==
  /\ pc[p] = "opened"
  /\ flock[fd[p]] = NoProc
  /\ flock' = [flock EXCEPT ![fd[p]] = p]
  /\ pc' = [pc EXCEPT ![p] = "locked"]
  /\ UNCHANGED <<path, content, fd>>

(* EWOULDBLOCK: the error names the PID in the file; the process exits.    *)
FlockLost(p) ==
  /\ pc[p] = "opened"
  /\ flock[fd[p]] # NoProc
  /\ fd' = [fd EXCEPT ![p] = NoInode]
  /\ pc' = [pc EXCEPT ![p] = "down"]
  /\ UNCHANGED <<path, flock, content>>

(* Truncate, Seek, write of the PID and Sync, all successful.              *)
WritePid(p) ==
  /\ pc[p] = "locked"
  /\ content' = [content EXCEPT ![fd[p]] = p]
  /\ pc' = [pc EXCEPT ![p] = "running"]
  /\ UNCHANGED <<path, flock, fd>>

(* The kernel closes the file of a dying process, which frees its lock.    *)
(* Besides a crash this is every error return of AcquirePIDLock after the  *)
(* Flock (f.Close, then os.Exit) and every os.Exit of main, which skips    *)
(* the deferred Unlock: the path stays.                                    *)
CloseFile(p) ==
  /\ flock' = [i \in Inodes |-> IF flock[i] = p THEN NoProc ELSE flock[i]]
  /\ fd' = [fd EXCEPT ![p] = NoInode]

Die(p) ==
  /\ pc[p] # "down"
  /\ CloseFile(p)
  /\ \/ content' = content
     \/ /\ pc[p] = "locked"
        /\ \E c \in {p, NoProc} : content' = [content EXCEPT ![fd[p]] = c]
  /\ pc' = [pc EXCEPT ![p] = "down"]
  /\ UNCHANGED path

(* Unlock: Flock(LOCK_UN), then file.Close, then os.Remove(path).          *)
UnlockFlock(p) ==
  /\ pc[p] = "running"
  /\ flock' = [flock EXCEPT ![fd[p]] = NoProc]
  /\ pc' = [pc EXCEPT ![p] = "unlocked"]
  /\ UNCHANGED <<path, content, fd>>

UnlockClose(p) ==
  /\ pc[p] = "unlocked"
  /\ CloseFile(p)
  /\ pc' = [pc EXCEPT ![p] = "closed"]
  /\ UNCHANGED <<path, content>>

UnlockRemove(p) ==
  /\ pc[p] = "closed"
  /\ path' = NoInode
  /\ pc' = [pc EXCEPT ![p] = "down"]
  /\ UNCHANGED <<flock, content, fd>>

Next ==
  \E p \in Procs :
    \/ OpenExisting(p) \/ OpenCreate(p)
    \/ FlockWon(p) \/ FlockLost(p) \/ WritePid(p)
    \/ UnlockFlock(p) \/ UnlockClose(p) \/ UnlockRemove(p)
    \/ Die(p)

Spec == Init /\ [][Next]_vars

-----------------------------------------------------------------------------
(* A running daemon's own PID stays in the file it locked for as long as   *)
(* it runs, whatever other daemons are started, refused, killed or stopped *)
(* meanwhile: AcquirePIDLock truncates only after the Flock, so a refused  *)
(* starter never damages the owner's record.                               *)
OwnerPidIntact ==
  \A p \in Procs : Holds(p) => content[fd[p]] = p /\ flock[fd[p]] = p

(* Inductive strengthening of OwnerPidIntact: a process that has won the   *)
(* Flock and not yet released it is the holder of the inode it has open.   *)
LockerOwnsInode ==
  \A p \in Procs : pc[p] \in {"locked", "running"} => flock[fd[p]] = p

PidLockInv == TypeOK /\ LockerOwnsInode /\ OwnerPidIntact

(* "Only one daemon instance can hold the lock at a time"                  *)
(* (pidlock.go:15).  The code does not keep this: Unlock removes the path  *)
(* after it has released the lock, so a daemon that locked the old inode   *)
(* in between runs beside one that creates a new file.                     *)
OnlyOneInstance ==
  \A p, q \in Procs : Holds(p) /\ Holds(q) => p = q
=============================================================================
