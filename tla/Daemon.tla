-------------------------------- MODULE Daemon --------------------------------
(***************************************************************************)
(* The life of nixis-daemon between AcquirePIDLock and Unlock              *)
(* (internal/daemon/daemon.go, handler.go, main of cmd/nixis-daemon) and   *)
(* the hook processes that call it (cmd/nixis-hook/main.go).  It composes  *)
(* the PID lock with the socket path, the accept loop and its semaphore,   *)
(* the connection handlers, the shutdown sequence and the audit writer.    *)
(*                                                                         *)
(* The writer is the channel and the drain that AuditWriter.tla details;   *)
(* the decision of the engine is a choice (Pipeline.tla details it).       *)
(* A process may die at any step.  A socket path outlives its process: a   *)
(* dial succeeds only while the process that bound it is accepting.        *)
(***************************************************************************)
EXTENDS PidLock

CONSTANTS Hooks,         \* hook invocations, one connection each
          MaxConcurrent  \* slots of the semaphore, 128 in the code

ASSUME DaemonAssumption == IsFiniteSet(Hooks) /\ MaxConcurrent \in Nat \ {0}

VARIABLES
  run,       \* run[p]: where Run of process p is
  sock,      \* process that bound the socket file, NoProc if there is no file
  owner,     \* owner[h]: live process that has the connection of hook h
  conn,      \* conn[h]: the daemon's side of it
  decision,  \* decision[h]: what Evaluate returned
  reply,     \* reply[h]: what was written to the connection
  hook,      \* hook[h]: where the hook process is, or how it ended
  sent,      \* hooks whose request is in their connection
  queue,     \* queue[p]: audit items handed to the writer of process p
  written,   \* audit items of writers that have drained and returned
  twice      \* history: two daemons have held a PID lock at once

lifevars == <<run, sock>>
connvars == <<owner, conn, decision, reply>>
hookvars == <<hook, sent>>
auditvars == <<queue, written>>
dvars == <<lifevars, connvars, hookvars, auditvars>>
allvars == <<vars, dvars, twice>>

RunStates == {"idle", "unbound", "serving", "closed", "waiting", "cancelled",
              "flushed", "returned"}
InFlightStates == {"reading", "evaluated", "answered"}
ConnStates == {"none", "backlog", "held", "closed"} \cup InFlightStates
HookStates == {"new", "connected", "sent", "allowed", "denied", "failed_open"}
Items == Hooks \X {"label", "record"}

DaemonInit ==
  /\ Init
  /\ run = [p \in Procs |-> "idle"]
  /\ sock = NoProc
  /\ owner = [h \in Hooks |-> NoProc]
  /\ conn = [h \in Hooks |-> "none"]
  /\ decision = [h \in Hooks |-> "none"]
  /\ reply = [h \in Hooks |-> "none"]
  /\ hook = [h \in Hooks |-> "new"]
  /\ sent = {}
  /\ queue = [p \in Procs |-> {}]
  /\ written = {}
  /\ twice = FALSE

Mine(p) == {h \in Hooks : owner[h] = p}
Held(p) == {h \in Mine(p) : conn[h] = "held"}
inFlight(p) == {h \in Mine(p) : conn[h] \in InFlightStates}

GoRun(p, step) == run' = [run EXCEPT ![p] = step]
GoConn(h, step) == conn' = [conn EXCEPT ![h] = step]

-----------------------------------------------------------------------------
(* Start, between AcquirePIDLock and the accept loop.                      *)

(* Mutant: the stale socket is removed before the PID lock is won.         *)
RemoveStaleUnlocked(p) ==
  /\ pc[p] \in {"opened", "running"} /\ run[p] = "idle"
  /\ sock' = NoProc
  /\ GoRun(p, IF pc[p] = "running" THEN "unbound" ELSE "idle")
  /\ UNCHANGED <<vars, connvars, hookvars, auditvars>>

(* listen: os.Remove of whatever is at the path, then net.Listen, which    *)
(* fails if the path exists again; the error ends the process (Crash).     *)
RemoveStale(p) ==
  /\ pc[p] = "running" /\ run[p] = "idle"
  /\ sock' = NoProc
  /\ GoRun(p, "unbound")
  /\ UNCHANGED <<vars, connvars, hookvars, auditvars>>

Listen(p) ==
  /\ run[p] = "unbound"
  /\ sock = NoProc
  /\ sock' = p
  /\ GoRun(p, "serving")
  /\ UNCHANGED <<vars, connvars, hookvars, auditvars>>

-----------------------------------------------------------------------------
(* The accept loop: one goroutine, which holds the connection it accepted  *)
(* until the semaphore has a slot.                                         *)
Accept(p, h) ==
  /\ run[p] = "serving"
  /\ owner[h] = p /\ conn[h] = "backlog"
  /\ Held(p) = {}
  /\ GoConn(h, "held")
  /\ UNCHANGED <<vars, lifevars, owner, decision, reply, hookvars, auditvars>>

(* sem <-, inFlight.Add(1), go handleConnection.                           *)
Admit(p, h) ==
  /\ h \in Held(p)
  /\ Cardinality(inFlight(p)) < MaxConcurrent
  /\ GoConn(h, "reading")
  /\ UNCHANGED <<vars, lifevars, owner, decision, reply, hookvars, auditvars>>

(* handleConnection.  What the hook sent can be read even if the hook has  *)
(* given up since; one that sent nothing is gone, or runs into the         *)
(* deadline, and gets no answer.                                           *)

(* Mutant: this return does not release the slot.                          *)
ReadFailsLeaks(h) ==
  /\ conn[h] = "reading" /\ h \notin sent
  /\ UNCHANGED <<vars, dvars>>

ReadFails(h) ==
  /\ conn[h] = "reading" /\ h \notin sent
  /\ GoConn(h, "closed")
  /\ UNCHANGED <<vars, lifevars, owner, decision, reply, hookvars, auditvars>>

(* A request above the maximal size: a deny that is neither evaluated nor  *)
(* recorded.                                                               *)
Refuse(h) ==
  /\ conn[h] = "reading" /\ h \in sent
  /\ reply' = [reply EXCEPT ![h] = "deny"]
  /\ GoConn(h, "closed")
  /\ UNCHANGED <<vars, lifevars, owner, decision, hookvars, auditvars>>

(* WriteRecord and WriteSessionLabel never block.  That a full channel     *)
(* drops the item and counts it is the writer's matter (AuditWriter).      *)
Enqueue(p, item) == queue' = [queue EXCEPT ![p] = @ \cup {item}]

(* The engine decides; unless it denied, the label of the session is       *)
(* handed to the writer.                                                   *)
Evaluate(h, d) ==
  /\ conn[h] = "reading" /\ h \in sent
  /\ decision' = [decision EXCEPT ![h] = d]
  /\ IF d = "deny" THEN UNCHANGED queue ELSE Enqueue(owner[h], <<h, "label">>)
  /\ GoConn(h, "evaluated")
  /\ UNCHANGED <<vars, lifevars, owner, reply, hookvars, written>>

(* WriteMessage; that it may fail is not looked at.                        *)
Answer(h) ==
  /\ conn[h] = "evaluated"
  /\ reply' = [reply EXCEPT ![h] = decision[h]]
  /\ GoConn(h, "answered")
  /\ UNCHANGED <<vars, lifevars, owner, decision, hookvars, auditvars>>

(* WriteRecord, Emit, and the deferred close of the connection, release of *)
(* the slot and inFlight.Done().                                           *)
Record(h) ==
  /\ conn[h] = "answered"
  /\ Enqueue(owner[h], <<h, "record">>)
  /\ GoConn(h, "closed")
  /\ UNCHANGED <<vars, lifevars, owner, decision, reply, hookvars, written>>

-----------------------------------------------------------------------------
(* Shutdown.  A signal ends the select of Run and the listener is closed,  *)
(* which unlinks the path, whoever bound it last, and resets what was not  *)
(* accepted.                                                               *)
Stop(p) ==
  /\ run[p] = "serving"
  /\ sock' = NoProc
  /\ conn' = [h \in Hooks |-> IF h \in Mine(p) /\ conn[h] = "backlog" THEN "closed" ELSE conn[h]]
  /\ GoRun(p, "closed")
  /\ UNCHANGED <<vars, owner, decision, reply, hookvars, auditvars>>

(* <-acceptDone: a connection that waits for a slot is still dispatched.   *)
AcceptDone(p) ==
  /\ run[p] = "closed"
  /\ Held(p) = {}
  /\ GoRun(p, "waiting")
  /\ UNCHANGED <<vars, sock, connvars, hookvars, auditvars>>

(* Mutant: the audit writer is cancelled while handlers are running.       *)
CancelAuditEarly(p) ==
  /\ run[p] = "waiting"
  /\ GoRun(p, "cancelled")
  /\ UNCHANGED <<vars, sock, connvars, hookvars, auditvars>>

(* inFlight.Wait(), then auditCancel().                                    *)
CancelAudit(p) ==
  /\ run[p] = "waiting"
  /\ inFlight(p) = {}
  /\ GoRun(p, "cancelled")
  /\ UNCHANGED <<vars, sock, connvars, hookvars, auditvars>>

(* <-auditDone: the writer has drained its channel and returned; Close.    *)
AuditDone(p) ==
  /\ run[p] = "cancelled"
  /\ written' = written \cup queue[p]
  /\ queue' = [queue EXCEPT ![p] = {}]
  /\ GoRun(p, "flushed")
  /\ UNCHANGED <<vars, sock, connvars, hookvars>>

RemoveSocket(p) ==
  /\ run[p] = "flushed"
  /\ sock' = NoProc
  /\ GoRun(p, "returned")
  /\ UNCHANGED <<vars, connvars, hookvars, auditvars>>

(* main returns: the deferred Unlock.                                      *)
Exit(p) ==
  \/ run[p] = "returned" /\ UnlockFlock(p) /\ UNCHANGED dvars
  \/ UnlockClose(p) /\ UNCHANGED dvars
  \/ /\ UnlockRemove(p)
     /\ GoRun(p, "idle")
     /\ UNCHANGED <<sock, connvars, hookvars, auditvars>>

Acquire(p) ==
  /\ OpenExisting(p) \/ OpenCreate(p) \/ FlockWon(p) \/ FlockLost(p) \/ WritePid(p)
  /\ UNCHANGED dvars

(* The process ends: its connections close, what it had queued is lost,    *)
(* the socket file stays.                                                  *)
Crash(p) ==
  /\ Die(p)
  /\ GoRun(p, "idle")
  /\ conn' = [h \in Hooks |-> IF h \in Mine(p) THEN "closed" ELSE conn[h]]
  /\ owner' = [h \in Hooks |-> IF h \in Mine(p) THEN NoProc ELSE owner[h]]
  /\ queue' = [queue EXCEPT ![p] = {}]
  /\ UNCHANGED <<sock, decision, reply, hookvars, written>>

-----------------------------------------------------------------------------
(* The hook: dial, send, receive, each under the 200 ms budget.            *)
Dial(h) ==
  /\ hook[h] = "new"
  /\ sock # NoProc /\ run[sock] = "serving"
  /\ hook' = [hook EXCEPT ![h] = "connected"]
  /\ owner' = [owner EXCEPT ![h] = sock]
  /\ GoConn(h, "backlog")
  /\ UNCHANGED <<vars, lifevars, decision, reply, sent, auditvars>>

Send(h) ==
  /\ hook[h] = "connected" /\ conn[h] # "closed"
  /\ hook' = [hook EXCEPT ![h] = "sent"]
  /\ sent' = sent \cup {h}
  /\ UNCHANGED <<vars, lifevars, connvars, auditvars>>

Receive(h) ==
  /\ hook[h] = "sent" /\ reply[h] # "none"
  /\ hook' = [hook EXCEPT ![h] = IF reply[h] = "allow" THEN "allowed" ELSE "denied"]
  /\ UNCHANGED <<vars, lifevars, connvars, sent, auditvars>>

(* The dial fails, the connection is closed without an answer, or the      *)
(* budget is used up: the tool call goes on and is logged as fail-open.    *)
FailOpen(h) ==
  /\ hook[h] \in {"new", "connected", "sent"}
  /\ hook' = [hook EXCEPT ![h] = "failed_open"]
  /\ UNCHANGED <<vars, lifevars, connvars, sent, auditvars>>

-----------------------------------------------------------------------------
Shutdown(p) == AcceptDone(p) \/ CancelAudit(p) \/ AuditDone(p) \/ RemoveSocket(p) \/ Exit(p)

Handler(h) ==
  \/ ReadFails(h) \/ Refuse(h)
  \/ \E d \in {"allow", "deny"} : Evaluate(h, d)
  \/ Answer(h) \/ Record(h)

DaemonStep(p) ==
  \/ RemoveStale(p) \/ Listen(p) \/ Stop(p) \/ Shutdown(p)
  \/ \E h \in Hooks : Accept(p, h) \/ Admit(p, h)

HookStep(h) == Dial(h) \/ Send(h) \/ Receive(h) \/ FailOpen(h)

DaemonNext ==
  /\ \/ \E p \in Procs : Acquire(p) \/ DaemonStep(p) \/ Crash(p)
     \/ \E h \in Hooks : Handler(h) \/ HookStep(h)
  /\ twice' = (twice \/ \E p, q \in Procs : p # q /\ Holds(p)' /\ Holds(q)')

(* Goroutines that can run do: the shutdown sequence, the accept loop's    *)
(* wait for a slot and every handler, whose reads have a deadline.         *)
Fairness ==
  /\ \A p \in Procs : WF_allvars(Shutdown(p) /\ UNCHANGED twice)
  /\ \A p \in Procs, h \in Hooks : WF_allvars(Admit(p, h) /\ UNCHANGED twice)
  /\ \A h \in Hooks : WF_allvars(Handler(h) /\ UNCHANGED twice)

DaemonSpec == DaemonInit /\ [][DaemonNext]_allvars /\ Fairness

-----------------------------------------------------------------------------
(* What a stopped daemon leaves behind: when Run returns, every request    *)
(* that this process evaluated has its audit record (and, if it was not    *)
(* denied, its label row) with the writer, and the writer has drained; so  *)
(* do the handlers admitted while the listener was being closed.           *)
AuditedAtExit ==
  \A p \in Procs : run[p] = "returned" =>
    \A h \in Mine(p) :
      /\ decision[h] # "none" => <<h, "record">> \in written
      /\ decision[h] = "allow" => <<h, "label">> \in written

(* A daemon that accepts connections is the one the socket path leads to,  *)
(* whatever daemons were started, refused, stopped or killed before and    *)
(* meanwhile; as long as the PID lock has kept them apart (it does not     *)
(* always: OnlyOneInstance).  The path is only touched under the lock.     *)
SocketReachable ==
  ~twice => \A p \in Procs : run[p] = "serving" => sock = p

(* A stopped daemon ends: the accept loop, the handlers, the writer and    *)
(* the shutdown sequence never wait for each other in a circle.            *)
ShutdownCompletes == \A p \in Procs : run[p] = "closed" ~> pc[p] = "down"
=============================================================================
