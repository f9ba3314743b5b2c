---------------------------- MODULE PolicyReload ----------------------------
(***************************************************************************)
(* Policies on disk and the snapshot that requests are evaluated with.     *)
(* main parses the policy directory, loads it and starts the fsnotify      *)
(* watcher (cmd/nixis-daemon/main.go); a file event arms a debounce timer  *)
(* whose function reloads (internal/reload/watcher.go), and POST /reload   *)
(* reloads as well.  A reload parses the directory file by file without    *)
(* any lock (internal/bundle/parse.go), then builds and swaps the snapshot *)
(* under reloadMu (PolicyEngine.Reload, internal/policy/engine.go).        *)
(*                                                                         *)
(* A policy file is what the parser and the compiler make of it:           *)
(*   "absent"     there is no such file;                                   *)
(*   "yaml"       it does not parse, or is being written;                  *)
(*   "ok"         a template that compiles;                                *)
(*   "syntax"     its expression has a syntax error, or is over a limit;   *)
(*   "skipAllow"  its expression names undeclared variables;               *)
(*   "skipDeny"   the same, in a policy with defaultAction DENY.           *)
(***************************************************************************)
EXTENDS Integers, FiniteSets

CONSTANTS NFiles,      \* policy files, in the order of WalkDir
          Kinds,       \* what an edit may leave behind
          Main, Timers,  \* goroutines that reload: main, and those of timers or POSTs
          NoOne,
          MaxEdits, MaxPosts   \* bounds of the model

Hows == {"write", "remove", "rename"}
AllKinds == {"absent", "yaml", "ok", "syntax", "skipAllow", "skipDeny"}

ASSUME ReloadAssumption ==
  /\ NFiles \in Nat \ {0} /\ MaxEdits \in Nat /\ MaxPosts \in Nat
  /\ Kinds \subseteq AllKinds
  /\ Main \notin Timers /\ NoOne \notin Timers \cup {Main}

VARIABLES
  disk,      \* the policy directory
  watching,  \* the watches are installed
  events,    \* relevant events the watcher has not received yet
  timer,     \* the debounce timer is armed
  pc, at, parsed,   \* per goroutine: step, next file, what it has read
  next,      \* per goroutine: nextVersion
  mu,        \* holder of reloadMu
  snap,      \* the snapshot; version 0 is the nil pointer
  \* history
  edits, posts,
  begun,     \* per goroutine: edits when its parse began
  reloaded,  \* largest begun of a finished reload
  watched,   \* last edit that raised an event the watcher looks at
  overlapped,   \* the last reload to begin found another in progress
  failed        \* the last reload to finish failed

Goroutines == Timers \cup {Main}
Files == 1 .. NFiles
Content == [kind : AllKinds, rev : 0 .. MaxEdits]
fsVars == <<disk, events, edits, watched>>
runVars == <<pc, at, parsed, next, mu, snap, begun, reloaded, failed>>
vars == <<fsVars, runVars, watching, timer, posts, overlapped>>

Nothing == [f \in Files |-> [kind |-> "absent", rev |-> 0]]

Init ==
  /\ disk \in [Files -> [kind : {"absent", "ok"}, rev : {0}]]
  /\ watching = FALSE /\ events = 0 /\ timer = FALSE
  /\ pc = [g \in Goroutines |-> IF g = Main THEN "parse" ELSE "idle"]
  /\ at = [g \in Goroutines |-> 1]
  /\ parsed = [g \in Goroutines |-> Nothing]
  /\ next = [g \in Goroutines |-> 0]
  /\ mu = NoOne
  /\ snap = [version |-> 0, src |-> Nothing]
  /\ edits = 0 /\ posts = 0
  /\ begun = [g \in Goroutines |-> 0]
  /\ reloaded = 0 /\ watched = 0
  /\ overlapped = FALSE /\ failed = FALSE

-----------------------------------------------------------------------------
(* Somebody changes a file.  A rename away raises an event that carries    *)
(* only the Rename bit; a file renamed into place raises Create.           *)
Edit(f, k, how) ==
  /\ edits < MaxEdits
  /\ how = "write" <=> k # "absent"
  /\ disk[f].kind = "absent" => how = "write"
  /\ edits' = edits + 1
  /\ disk' = [disk EXCEPT ![f] = [kind |-> k, rev |-> edits + 1]]
  /\ events' = IF watching /\ how # "rename" THEN events + 1 ELSE events
  /\ watched' = IF watching /\ how # "rename" THEN edits + 1 ELSE watched
  /\ UNCHANGED <<runVars, watching, timer, posts, overlapped>>

(* main has loaded the policies and starts the watcher.                    *)
StartWatch ==
  /\ ~ watching /\ pc[Main] = "idle"
  /\ watching' = TRUE
  /\ UNCHANGED <<fsVars, runVars, timer, posts, overlapped>>

(* Mutant: an event is dropped while a reload runs.                        *)
HandleEventWhenIdle ==
  /\ events > 0
  /\ events' = events - 1
  /\ timer' = (timer \/ \A g \in Goroutines : pc[g] = "idle")
  /\ UNCHANGED <<disk, edits, watched, runVars, watching, posts, overlapped>>

(* An event stops the timer, if there is one, and arms a new one.  A       *)
(* function that has already started is not stopped.                       *)
HandleEvent ==
  /\ events > 0
  /\ events' = events - 1
  /\ timer' = TRUE
  /\ UNCHANGED <<disk, edits, watched, runVars, watching, posts, overlapped>>

-----------------------------------------------------------------------------
(* A goroutine enters policyReloader.Reload.                               *)
BeginReload(g) ==
  /\ pc[g] = "idle"
  /\ pc' = [pc EXCEPT ![g] = "parse"]
  /\ begun' = [begun EXCEPT ![g] = edits]
  /\ overlapped' = \E h \in Goroutines : pc[h] # "idle"
  /\ UNCHANGED <<fsVars, at, parsed, next, mu, snap, reloaded, failed, watching>>

TimerFires(g) == timer /\ timer' = FALSE /\ BeginReload(g) /\ UNCHANGED posts

handleReload(g) ==
  /\ pc[Main] = "idle" /\ posts < MaxPosts
  /\ posts' = posts + 1
  /\ BeginReload(g)
  /\ UNCHANGED timer

(* ParsePolicyDir reads the next file; one that does not parse is skipped. *)
ParseFile(g) ==
  /\ pc[g] = "parse" /\ at[g] <= NFiles
  /\ parsed' = [parsed EXCEPT ![g][at[g]] = disk[at[g]]]
  /\ at' = [at EXCEPT ![g] = @ + 1]
  /\ UNCHANGED <<fsVars, pc, next, mu, snap, begun, reloaded, failed, watching, timer, posts, overlapped>>

(* Reload returns, and with it its locals are gone.                        *)
Finish(g, ok) ==
  /\ pc' = [pc EXCEPT ![g] = "idle"]
  /\ reloaded' = IF begun[g] > reloaded THEN begun[g] ELSE reloaded
  /\ failed' = ~ ok
  /\ at' = [at EXCEPT ![g] = 1]
  /\ parsed' = [parsed EXCEPT ![g] = Nothing]
  /\ next' = [next EXCEPT ![g] = 0]
  /\ begun' = [begun EXCEPT ![g] = 0]

(* The walk of the directory fails: the reload returns the error.          *)
WalkFails(g) ==
  /\ pc[g] = "parse"
  /\ Finish(g, FALSE)
  /\ UNCHANGED <<fsVars, mu, snap, watching, timer, posts, overlapped>>

Lock(g) ==
  /\ pc[g] = "parse" /\ at[g] > NFiles /\ mu = NoOne
  /\ mu' = g
  /\ pc' = [pc EXCEPT ![g] = "build"]
  /\ next' = [next EXCEPT ![g] = snap.version + 1]
  /\ UNCHANGED <<fsVars, at, parsed, snap, begun, reloaded, failed, watching, timer, posts, overlapped>>

(* Mutant: skipped policies are only logged.                               *)
BuildableSkips(p) == \A f \in Files : p[f].kind # "syntax"

(* CompileAll fails on a syntax error; buildSnapshot refuses a skipped     *)
(* policy whose default action is DENY.                                    *)
Buildable(p) == \A f \in Files : p[f].kind \notin {"syntax", "skipDeny"}

(* The rest of Reload: the snapshot is built and applied, or kept.         *)
Build(g) ==
  LET ok == Buildable(parsed[g])
  IN  /\ pc[g] = "build"
      /\ snap' = IF ok THEN [version |-> next[g], src |-> parsed[g]] ELSE snap
      /\ mu' = NoOne
      /\ Finish(g, ok)
      /\ UNCHANGED <<fsVars, watching, timer, posts, overlapped>>

Reload(g) == ParseFile(g) \/ WalkFails(g) \/ Lock(g) \/ Build(g)

Next ==
  \/ \E f \in Files, k \in Kinds, how \in Hows : Edit(f, k, how)
  \/ StartWatch \/ HandleEvent
  \/ \E g \in Timers : TimerFires(g) \/ handleReload(g)
  \/ \E g \in Goroutines : Reload(g)

(* The watcher receives events, timers fire and goroutines are scheduled;  *)
(* waiters on a Go mutex are served.                                       *)
Spec ==
  /\ Init /\ [][Next]_vars
  /\ WF_vars(HandleEvent)
  /\ WF_vars(\E g \in Timers : TimerFires(g))
  /\ \A g \in Goroutines : WF_vars(Reload(g)) /\ SF_vars(Lock(g))

-----------------------------------------------------------------------------
(* The policies that are evaluated: those with a program.                  *)
Active(p) == {<<f, p[f].rev>> : f \in {h \in Files : p[h].kind = "ok"}}

Quiet == events = 0 /\ ~ timer /\ \A g \in Goroutines : pc[g] = "idle"

(* No snapshot is active in which a policy with defaultAction DENY was     *)
(* left out because its expression does not compile.                       *)
DenyNeverSkipped == \A f \in Files : snap.src[f].kind \notin {"syntax", "skipDeny"}

(* When nothing is under way, the last reload succeeded and overlapped no  *)
(* other, the active policies are those on disk, if the last edit raised   *)
(* an event that the watcher looks at.                                     *)
ConvergesAlone ==
  Quiet /\ ~ overlapped /\ ~ failed /\ edits > 0 /\ watched = edits =>
    Active(snap.src) = Active(disk)

(* "It watches for changes via fsnotify and hot-reloads without restart":  *)
(* a change made under the watches, other than moving a file away, is      *)
(* followed by a reload that began after it.                               *)
EveryChangeReloaded == <>[](reloaded >= watched)
=============================================================================
