----------------------------- MODULE Installation -----------------------------
(***************************************************************************)
(* nixis setup, nixis uninstall and nixis daemon start/stop/restart        *)
(* (cmd/nixis/setup.go, setup_linux.go, setup_darwin.go, uninstall.go,     *)
(* daemon_cmd.go): what they do to a machine m, which is a record of       *)
(*   os        "linux" or "darwin"                                         *)
(*   dir, bins, policies, stale   ~/.nixis and what is in it               *)
(*   unit      the plist or unit file is there                             *)
(*   active    the service manager runs the service, and restarts it       *)
(*   daemon    a daemon process is there;  socket: so is /tmp/nixis.sock   *)
(*   settings  settings.json: [state, hooks], hooks: event -> whose hook   *)
(*   rc        the shell configuration files there are: name -> lines      *)
(* A file's lines are what strings.Split(data, "\n") gives: a line that    *)
(* setup writes, an empty one, or the user's; Mention has the directory's  *)
(* name in it.  o holds the flags, the user's answer and what is found     *)
(* around.                                                                 *)
(*                                                                         *)
(* A command is a sequence of steps.  A step has an outcome: "ok",         *)
(* "error", which ends the command, "end", an early return without an      *)
(* error, or "stuck", a call to the service manager that never returns.    *)
(* After any step the command may be killed.                               *)
(***************************************************************************)
EXTENDS Integers, Sequences, FiniteSets, SequencesExt

CONSTANTS Machines,       \* machines that have never had a setup
          Circumstances,  \* command -> what it may be given and may find
          Lines,          \* the lines there may be in a shell file
          Empty,          \* the empty one
          NoOptions

Binaries == {"nixis", "nixis-hook", "nixis-daemon"}
Marker == "nixis_comment"
PathLine == "export_path"
Mention == "mention"

Fields == {"os", "dir", "bins", "policies", "stale", "unit", "active", "daemon", "socket", "settings", "rc"}

ASSUME LinesAssumption == {Marker, PathLine, Empty} \subseteq Lines /\ Empty \notin {Marker, PathLine}

(* Nothing of Nixis is there yet; a file without a newline has one line.   *)
ASSUME MachinesAssumption == \A m \in Machines :
  /\ m = [x \in Fields |-> m[x]] /\ m.bins = {}
  /\ m.settings = [state |-> m.settings.state, hooks |-> m.settings.hooks]
  /\ m.settings.state # "there" => DOMAIN m.settings.hooks = {}
  /\ \A e \in DOMAIN m.settings.hooks : m.settings.hooks[e] # "nixis"
  /\ \A f \in DOMAIN m.rc : m.rc[f] \in Seq(Lines) \ {<<>>} /\ Range(m.rc[f]) \cap {Marker, PathLine} = {}

Done(m) == [m |-> m, outcome |-> "ok"]
Fail(m) == [m |-> m, outcome |-> "error"]
Ended(m) == [m |-> m, outcome |-> "end"]

(* --yes, or the answer to the prompt.                                     *)
confirm(o) == o.yes \/ o.accepts

(* A call to systemctl or launchctl without a timeout: what follows if it  *)
(* works, and if it fails.                                                 *)
Managed(m, o, works, fails) ==
  CASE o.manager = "works" -> works [] o.manager = "fails" -> fails
    [] o.manager = "hangs" -> [m |-> m, outcome |-> "stuck"]
-----------------------------------------------------------------------------
(* The service.                                                            *)
Started(m) == [m EXCEPT !.active = TRUE, !.daemon = TRUE, !.socket = TRUE]
Stopped(m) == [m EXCEPT !.active = FALSE, !.daemon = FALSE, !.socket = FALSE]

(* SIGTERM or SIGKILL to what pgrep finds; Restart=always and KeepAlive    *)
(* bring back a service that is active.                                    *)
killDaemonProcess(m) == [m EXCEPT !.daemon = m.active]

daemonServiceStatusLinux(m, o) == o.manager = "works" /\ m.active
daemonServiceStatusDarwin(m, o) == o.manager = "works" /\ m.active
daemonServiceStatus(m, o) ==
  IF m.os = "linux" THEN daemonServiceStatusLinux(m, o) ELSE daemonServiceStatusDarwin(m, o)

purgeServiceFromLaunchd(m, o) ==
  IF o.manager = "works" THEN Stopped(m) ELSE killDaemonProcess(m)

installDaemonServiceLinux(m, o) ==
  IF ~ confirm(o) THEN Done(m)
  ELSE LET there == [m EXCEPT !.unit = TRUE] IN Managed(there, o, Done(Started(there)), Fail(there))

installDaemonServiceDarwin(m, o) ==
  IF ~ confirm(o) THEN Done(m)
  ELSE LET there == [m EXCEPT !.unit = TRUE]
           purged == purgeServiceFromLaunchd(there, o)
       IN  Managed(there, o, Done(Started(purged)), Fail(purged))

installDaemonService(m, o) ==
  IF m.os = "linux" THEN installDaemonServiceLinux(m, o) ELSE installDaemonServiceDarwin(m, o)

(* Errors of the manager are not looked at.                                *)
uninstallDaemonServiceLinux(m, o) ==
  IF ~ m.unit THEN Done(m)
  ELSE Managed(m, o, Done([Stopped(m) EXCEPT !.unit = FALSE]), Done([m EXCEPT !.unit = FALSE]))

uninstallDaemonServiceDarwin(m, o) ==
  IF ~ m.unit THEN Done(m)
  ELSE Managed(m, o, Done([Stopped(m) EXCEPT !.unit = FALSE]), Done([m EXCEPT !.unit = FALSE]))

uninstallDaemonService(m, o) ==
  IF m.os = "linux" THEN uninstallDaemonServiceLinux(m, o) ELSE uninstallDaemonServiceDarwin(m, o)

startDaemonLinux(m, o) ==
  IF ~ m.unit THEN Fail(m) ELSE Managed(m, o, Done(Started(m)), Fail(m))

startDaemonDarwin(m, o) ==
  IF ~ m.unit THEN Fail(m)
  ELSE LET purged == purgeServiceFromLaunchd(m, o) IN Managed(m, o, Done(Started(purged)), Fail(purged))

startDaemon(m, o) == IF m.os = "linux" THEN startDaemonLinux(m, o) ELSE startDaemonDarwin(m, o)

stopDaemonLinux(m, o) == Managed(m, o, Done(Stopped(m)), Fail(m))
stopDaemonDarwin(m, o) == Managed(m, o, Done(Stopped(m)), Fail(killDaemonProcess(m)))
stopDaemon(m, o) == IF m.os = "linux" THEN stopDaemonLinux(m, o) ELSE stopDaemonDarwin(m, o)

(* The same with a timeout; setup and uninstall kill when it fails.        *)
stopDaemonWithTimeoutLinux(m, o) == IF o.manager = "works" THEN Done(Stopped(m)) ELSE Fail(m)
stopDaemonWithTimeoutDarwin(m, o) ==
  IF o.manager = "works" THEN Done(Stopped(m)) ELSE Fail(killDaemonProcess(m))
stopOrKill(m, o) ==
  LET r == IF m.os = "linux" THEN stopDaemonWithTimeoutLinux(m, o) ELSE stopDaemonWithTimeoutDarwin(m, o)
  IN  IF r.outcome = "ok" THEN r.m ELSE killDaemonProcess(r.m)
-----------------------------------------------------------------------------
(* settings.json: the whole list of PreToolUse is replaced, and removed.   *)
patchSettingsJSON(m, o) ==
  CASE m.settings.state = "broken" -> Fail(m)
    [] m.settings.state # "broken" /\ (o.dry \/ ~ confirm(o)) -> Done(m)
    [] OTHER ->
         Done([m EXCEPT !.settings = [state |-> "there", hooks |->
           [e \in DOMAIN m.settings.hooks \cup {"PreToolUse"} |->
              IF e = "PreToolUse" THEN "nixis" ELSE m.settings.hooks[e]]]])

unpatchSettingsJSON(m, o) ==
  IF m.settings.state # "there" \/ o.dry THEN Done(m)
  ELSE Done([m EXCEPT !.settings.hooks = [e \in DOMAIN @ \ {"PreToolUse"} |-> @[e]]])

(* The shell's own file if it is there, else the first that is.            *)
fallbacks == <<".zshrc", ".bashrc", ".bash_profile", ".profile">>
candidate(shell) ==
  CASE shell = "zsh" -> ".zshrc" [] shell = "bash" -> ".bashrc" [] shell = "fish" -> "config.fish"
    [] OTHER -> Empty

detectShellConfig(m, o) ==
  IF candidate(o.shell) \in DOMAIN m.rc THEN candidate(o.shell)
  ELSE LET there == {n \in DOMAIN fallbacks : fallbacks[n] \in DOMAIN m.rc}
       IN  IF there = {} THEN Empty ELSE fallbacks[Min(there)]

(* Mutant: the file is not searched for the directory first.               *)
patchShellPATHAgain(m, o) ==
  LET cfg == detectShellConfig(m, o)
  IN  IF cfg = Empty \/ o.dry THEN Done(m)
      ELSE Done([m EXCEPT !.rc[cfg] = @ \o <<Marker, PathLine, Empty>>])

(* "\n# Nixis\nexport PATH=...\n" is appended, unless the file has the     *)
(* directory in it.  An error is only a warning.                           *)
patchShellPATH(m, o) ==
  LET cfg == detectShellConfig(m, o)
  IN  IF cfg = Empty \/ o.dry \/ Range(m.rc[cfg]) \cap {PathLine, Mention} # {} THEN Done(m)
      ELSE Done([m EXCEPT !.rc[cfg] = @ \o <<Marker, PathLine, Empty>>])

(* Every marker goes, with the line after it and a blank line before it.   *)
removeLine(acc, line) ==
  CASE acc.skip -> [skip |-> FALSE, kept |-> acc.kept]
    [] ~ acc.skip /\ line = Marker ->
         [skip |-> TRUE,
          kept |-> IF acc.kept # <<>> /\ Last(acc.kept) = Empty THEN Front(acc.kept) ELSE acc.kept]
    [] ~ acc.skip /\ line # Marker -> [skip |-> FALSE, kept |-> Append(acc.kept, line)]

removeNixisLines(lines) ==
  LET upTo[i \in 0 .. Len(lines)] ==
        IF i = 0 THEN [skip |-> FALSE, kept |-> <<>>] ELSE removeLine(upTo[i - 1], lines[i])
  IN  upTo[Len(lines)].kept

cleaned == {".zshrc", ".bashrc", ".profile", "config.fish"}
cleanShellConfigs(m) ==
  [m EXCEPT !.rc = [f \in DOMAIN @ |-> IF f \in cleaned THEN removeNixisLines(@[f]) ELSE @[f]]]

RemoveAll(m) == [m EXCEPT !.dir = FALSE, !.bins = {}, !.policies = {}, !.stale = FALSE]
-----------------------------------------------------------------------------
(* A fresh build, the installed copy, or one in PATH.                      *)
findBinary(m, o, b) == o.built \/ b \in m.bins

(* A copy appears under its name only when it is complete.                 *)
copyFile(m, b) == [m EXCEPT !.bins = @ \cup {b}]

(* The directory is made by a dry run too.                                 *)
deploy(m, o, b) == IF o.skip \/ o.dry THEN Done(m) ELSE Done(copyFile(m, b))
makeDir(m, o) == IF o.skip THEN Done(m) ELSE Done([m EXCEPT !.dir = TRUE])
makePolicyDirs(m, o) == IF o.dry THEN Done(m) ELSE Done([m EXCEPT !.dir = TRUE])

copyPolicies(m, o) ==
  IF ~ o.source THEN Fail(m)
  ELSE IF o.dry THEN Done(m) ELSE Done([m EXCEPT !.policies = @ \cup {"builtin"}])

(* Step 5b; that the restart fails is only a warning.                      *)
restartDaemon(m, o) ==
  LET started == startDaemon(IF daemonServiceStatus(m, o) THEN stopOrKill(m, o) ELSE m, o)
  IN  IF started.outcome = "error" THEN Done(started.m) ELSE started

removeStale(m, o) == IF o.dry THEN Done(m) ELSE Done([m EXCEPT !.stale = FALSE])

installStep(k, m, o) ==
  CASE k = 1 -> IF o.skip \/ \A b \in Binaries : findBinary(m, o, b) THEN Done(m) ELSE Fail(m)
    [] k = 2 -> makeDir(m, o)
    [] k = 3 -> deploy(m, o, "nixis")
    [] k = 4 -> deploy(m, o, "nixis-hook")
    [] k = 5 -> deploy(m, o, "nixis-daemon")
    [] k = 6 -> makePolicyDirs(m, o)
    [] k = 7 -> copyPolicies(m, o)
    [] k = 8 -> IF o.dry THEN Done(m) ELSE installDaemonService(m, o)
    [] k = 9 -> IF o.dry THEN Done(m) ELSE restartDaemon(m, o)
    [] k = 10 -> patchSettingsJSON(m, o)
    [] k = 11 -> removeStale(m, o)
    [] k = 12 -> patchShellPATH(m, o)

(* setup --uninstall.                                                      *)
setupUninstallStep(k, m, o) ==
  CASE k = 1 -> IF o.dry THEN Done(m) ELSE uninstallDaemonService(m, o)
    [] k = 2 -> unpatchSettingsJSON(m, o)
    [] k = 3 -> CASE o.dry -> Done(m) [] ~ o.dry /\ ~ confirm(o) -> Ended(m)
                  [] OTHER -> Done(RemoveAll(m))

(* uninstall.                                                              *)
uninstallStep(k, m, o) ==
  CASE k = 1 -> IF confirm(o) THEN Done(m) ELSE Ended(m)
    [] k = 2 -> IF o.force THEN Done(killDaemonProcess(m)) ELSE Done(stopOrKill(m, o))
    [] k = 3 -> uninstallDaemonService(m, o)
    [] k = 4 -> unpatchSettingsJSON(m, o)
    [] k = 5 -> Done(cleanShellConfigs(m))
    [] k = 6 -> Done([m EXCEPT !.socket = FALSE])
    [] k = 7 -> Done(RemoveAll(m))

(* daemon start, stop, restart: each begins by asking for the status.      *)
runDaemonStart(m, o) ==
  IF daemonServiceStatus(m, o) THEN Ended(m) ELSE startDaemon(m, o)

runDaemonStop(m, o) ==
  Managed(m, o, IF daemonServiceStatus(m, o) THEN stopDaemon(m, o) ELSE Ended(m), Ended(m))

runDaemonRestart(m, o) ==
  LET stopped == runDaemonStop(m, o)
  IN  IF stopped.outcome \in {"ok", "end"} THEN startDaemon(stopped.m, o) ELSE stopped

steps == [setup |-> 12, setup_uninstall |-> 3, uninstall |-> 7, start |-> 1, stop |-> 1, restart |-> 1]

step(operation, k, m, o) ==
  CASE operation = "setup" -> installStep(k, m, o)
    [] operation = "setup_uninstall" -> setupUninstallStep(k, m, o)
    [] operation = "uninstall" -> uninstallStep(k, m, o)
    [] operation = "start" -> runDaemonStart(m, o)
    [] operation = "stop" -> runDaemonStop(m, o)
    [] operation = "restart" -> runDaemonRestart(m, o)

-----------------------------------------------------------------------------
(* A user who sets up, uninstalls and restarts in any order.  setup alone, *)
(* with --uninstall or without, has a dry run.                             *)
ASSUME CircumstancesAssumption == \A op \in DOMAIN steps : \A o \in Circumstances[op] :
  /\ o.manager \in {"works", "fails", "hangs"}
  /\ o.dry => op \in {"setup", "setup_uninstall"}

VARIABLES base,      \* the machine before the first command
          start,     \* the machine at the start of the last command
          machine,   \* the machine now
          cmd        \* the last command: [op, o, k steps done, outcome]

installVars == <<base, start, machine, cmd>>

InstallInit == /\ base \in Machines /\ start = base /\ machine = base
               /\ cmd = [op |-> "none", o |-> NoOptions, k |-> 0, outcome |-> "end"]

(* A command starts: the one before is complete, has failed or was killed. *)
(* --skip-binaries is for binaries that are in place.                      *)
Begin(op, o) ==
  /\ o.skip => machine.bins = Binaries
  /\ start' = machine
  /\ cmd' = [op |-> op, o |-> o, k |-> 0, outcome |-> "ok"]
  /\ UNCHANGED <<base, machine>>

Continue ==
  /\ cmd.outcome = "ok" /\ cmd.k < steps[cmd.op]
  /\ LET r == step(cmd.op, cmd.k + 1, machine, cmd.o)
     IN  machine' = r.m /\ cmd' = [cmd EXCEPT !.k = @ + 1, !.outcome = r.outcome]
  /\ UNCHANGED <<base, start>>

InstallNext == (\E op \in DOMAIN steps : \E o \in Circumstances[op] : Begin(op, o)) \/ Continue

InstallSpec == InstallInit /\ [][InstallNext]_installVars
-----------------------------------------------------------------------------
complete(op) == cmd.op = op /\ cmd.k = steps[op] /\ cmd.outcome = "ok"

(* PreToolUse runs the hook of Nixis.                                      *)
ours(m) == "PreToolUse" \in DOMAIN m.settings.hooks /\ m.settings.hooks["PreToolUse"] = "nixis"

(* The lines of a file that the user has written are there, and before any *)
(* other; and the hooks for other events.                                  *)
linesKept(old, new) ==
  /\ Len(old) <= Len(new) /\ \A i \in 1 .. Len(old) : new[i] = old[i]
  /\ \A i \in Len(old) + 1 .. Len(new) : new[i] \in {Marker, PathLine, Empty}
kept(m, n) ==
  /\ \A f \in DOMAIN m.rc : f \in DOMAIN n.rc /\ linesKept(m.rc[f], n.rc[f])
  /\ \A e \in DOMAIN m.settings.hooks \ {"PreToolUse"} :
       e \in DOMAIN n.settings.hooks /\ n.settings.hooks[e] = m.settings.hooks[e]

AtMostOneEntry(lines) ==
  \A i, j \in DOMAIN lines : lines[i] = PathLine /\ lines[j] = PathLine => i = j

(* Wherever commands are interrupted and in whatever order they follow one *)
(* another: the hook in settings.json is one that can be executed (setup   *)
(* copies it before, uninstall takes the entry out before the file), the   *)
(* user's shell lines and other hook events stay, and a file has at most   *)
(* one PATH entry.  A dry run makes a directory at most.  A setup that     *)
(* completes leaves the hook and a running daemon if the manager works; an *)
(* uninstall that completes leaves nothing of a setup in the files it      *)
(* cleans, and a shell file that ended with a newline is what it was       *)
(* (setup.go 176, 580, uninstall.go 176).                                  *)
InstallSettles ==
  /\ ours(machine) => "nixis-hook" \in machine.bins
  /\ kept(base, machine)
  /\ \A f \in DOMAIN machine.rc : AtMostOneEntry(machine.rc[f])
  /\ cmd.op # "none" /\ cmd.o.dry => machine = [start EXCEPT !.dir = machine.dir]
  /\ complete("setup") /\ ~ cmd.o.dry /\ confirm(cmd.o) =>
       ours(machine) /\ machine.bins = Binaries /\ (cmd.o.manager = "works" => machine.daemon)
  /\ complete("uninstall") =>
       /\ ~ ours(machine) /\ ~ machine.dir /\ ~ machine.unit /\ ~ machine.socket
       /\ cmd.o.manager = "works" /\ (~ cmd.o.force \/ start.unit) => ~ machine.daemon
       /\ \A f \in DOMAIN machine.rc \cap cleaned :
            /\ Range(machine.rc[f]) \cap {Marker, PathLine} = {}
            /\ Last(base.rc[f]) = Empty => machine.rc[f] = base.rc[f]
=============================================================================
