------------------------------ MODULE MCDaemon ------------------------------
(* The daemon of two processes and two hooks, and the commands that put    *)
(* one on a machine and take it off again.  The two share no variable, so  *)
(* each is explored while the other has not started.                       *)
EXTENDS Daemon, Installation

(* The user may have hooks and shell files, and a file may lack its last   *)
(* newline or name the directory.                                          *)
MCLines == {Marker, PathLine, Mention, Empty, "user", "alias"}
Text == <<"user", Empty>>
Unended == <<"user", Empty, "alias">>
Mentions == <<Empty, Mention, Empty>>
UserHooks == ("Stop" :> "user") @@ ("PreToolUse" :> "user")

Clean(sys, state, hooks, files) ==
  [os |-> sys, dir |-> FALSE, bins |-> {}, policies |-> {}, stale |-> FALSE, unit |-> FALSE,
   active |-> FALSE, daemon |-> FALSE, socket |-> FALSE,
   settings |-> [state |-> state, hooks |-> hooks], rc |-> files]
MCMachines ==
  {Clean("linux", "there", UserHooks, (".zshrc" :> Text) @@ ("config.fish" :> Unended)),
   Clean("darwin", "there", <<>>, ".zshrc" :> Mentions),
   Clean("darwin", "absent", <<>>, ".bash_profile" :> Text),
   Clean("linux", "broken", <<>>, <<>>)}

(* Usual circumstances, and those where one of them is not.                *)
Usual(shell) ==
  [yes |-> TRUE, accepts |-> TRUE, dry |-> FALSE, skip |-> FALSE, force |-> FALSE, source |-> TRUE,
   built |-> TRUE, manager |-> "works", shell |-> shell]
Unmanaged(os) == {[o EXCEPT !.manager = g] : o \in os, g \in {"fails", "hangs"}}
Declined(os) == {[o EXCEPT !.yes = FALSE, !.accepts = FALSE] : o \in os}
Hindered(os) == {[o EXCEPT !.dry = TRUE] : o \in os} \cup {[o EXCEPT !.source = FALSE] : o \in os}
                  \cup {[o EXCEPT !.built = FALSE] : o \in os}

MCCircumstances ==
  LET zsh == {Usual("zsh")}
      shells == {Usual("zsh"), Usual("fish")}
      any == zsh \cup Unmanaged(zsh)
  IN  [setup |-> shells \cup Unmanaged(zsh) \cup Declined(zsh) \cup Hindered(zsh)
                   \cup {[o EXCEPT !.skip = TRUE] : o \in zsh},
       setup_uninstall |-> any \cup Declined(zsh) \cup {[o EXCEPT !.dry = TRUE] : o \in zsh},
       uninstall |-> any \cup Declined(zsh) \cup {[o EXCEPT !.force = TRUE, !.manager = g] :
                                                      o \in zsh, g \in {"works", "fails"}},
       start |-> any, stop |-> any, restart |-> any]

SomeMachine == CHOOSE m \in Machines : m.rc = <<>>

MCInit == DaemonInit /\ InstallInit

MCNext == \/ /\ cmd.op = "none" /\ base = SomeMachine
             /\ DaemonNext /\ UNCHANGED installVars
          \/ DaemonInit /\ InstallNext /\ UNCHANGED allvars

(* The fairness is that of Daemon: before a daemon starts, it asks nothing. *)
MCSpec == MCInit /\ [][MCNext]_<<allvars, installVars>> /\ Fairness
=============================================================================
