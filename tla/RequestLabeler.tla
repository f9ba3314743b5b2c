--------------------------- MODULE RequestLabeler ---------------------------
(***************************************************************************)
(* From the arguments of a tool call to what the evaluation pipeline works *)
(* on: the label of the resources, the resources themselves and whether    *)
(* the command can reach the network (internal/label, internal/resource,   *)
(* and the extraction of internal/policy/engine.go).                       *)
(*                                                                         *)
(* A word of a string is the set of features the code tests for:           *)
(*   is       reader, copy, broad, net, miner: the groups of binaries its  *)
(*            base name is in; "<" and "|": the word is that sign          *)
(*   has      dash, path, sep, sensitive: it begins with -, with one of    *)
(*            / ~ . , contains a separator (and does not begin with http), *)
(*            contains one of the sensitive names; url: begins with        *)
(*            http(s)://; inner: contains one; meta: contains the metadata *)
(*            address; credential: a credential pattern matches at it      *)
(*   paths, domains   the rules that match it as a path, as a domain       *)
(*   external         isExternal of the resource it is taken for           *)
(* A sign | is a word of its own.  A path or a URL argument is one word.   *)
(* Lists of paths, labels and resources are sets: the first one only goes  *)
(* to the history and to messages.                                         *)
(***************************************************************************)
EXTENDS Classifier, SecurityLabel

(* The effects that internal/sink gates for a tainted session.             *)
restrictedEffects == {"network_egress", "content_publish", "process_coordination",
                      "content_internal", "message_content"}
-----------------------------------------------------------------------------
rule(kind, conf, integ, cats) == [kind |-> kind, label |-> [c |-> conf, i |-> integ, k |-> cats]]

(* In the order of the code; the rules of a kind are next to each other.   *)
extDefaultPathRules ==
  <<rule("system", 2000, 500, {"credentials"}),
    rule("memory", 2000, 500, {"credentials", "security_key"}),
    rule("maps", 2000, 500, {"credentials"}),
    rule("device", 2000, 500, {"security_key"}),
    rule("key", 1500, 500, {"credentials", "security_key"}),
    rule("credential", 1000, 500, {"credentials"}),
    rule("auditlog", 800, 400, {"personal", "security_key"}),
    rule("log", 500, 300, {"personal"}),
    rule("source", 100, 300, {"internal"}),
    rule("temp", 0, 0, {})>>

extDefaultDomainRules ==
  <<rule("metadata", 2000, 500, {"security_key"}),
    rule("internal", 500, 300, {"internal"})>>

(* Mutant: the last match wins.                                            *)
lastMatch(list, kinds) ==
  LET m == {n \in DOMAIN list : list[n].kind \in kinds}
  IN  IF m = {} THEN ZeroLabel ELSE list[Max(m)].label

(* classifyPath and classifyDomain: the first rule that matches.           *)
firstMatch(list, kinds) ==
  LET m == {n \in DOMAIN list : list[n].kind \in kinds}
  IN  IF m = {} THEN ZeroLabel ELSE list[Min(m)].label

(* Join of them all.                                                       *)
joinAll(labels) ==
  IF labels = {} THEN ZeroLabel
  ELSE [c |-> Max({l.c : l \in labels}), i |-> Min({l.i : l \in labels}),
        k |-> UNION {l.k : l \in labels}]
-----------------------------------------------------------------------------
isPipe(w) == "|" \in w.is

looksLikePath(w) == w.has \cap {"path", "sep", "sensitive"} # {}

looksLikePathToken(w) == "path" \in w.has

(* The words at the given places that are no flags and look like paths.    *)
pathArgs(cmd, at) == {cmd[j] : j \in {j \in at : "dash" \notin cmd[j].has /\ looksLikePath(cmd[j])}}

(* The places after i up to the next pipe.                                 *)
segment(cmd, i) == {j \in i + 1 .. Len(cmd) : \A n \in i + 1 .. j : ~ isPipe(cmd[n])}

(* The first words of the parts after the first.                           *)
laterHeads(cmd) == {i \in 2 .. Len(cmd) : isPipe(cmd[i - 1]) /\ ~ isPipe(cmd[i])}

extractPathsFromCommand(cmd) ==
  IF cmd = <<>> THEN {}
  ELSE (IF cmd[1].is \cap {"reader", "copy"} # {} THEN pathArgs(cmd, 2 .. Len(cmd)) ELSE {})
       \cup {cmd[i + 1] : i \in {i \in 1 .. Len(cmd) - 1 : "<" \in cmd[i].is}}
       \cup UNION {pathArgs(cmd, segment(cmd, h)) : h \in {h \in laterHeads(cmd) : "reader" \in cmd[h].is}}

extractBashPaths(cmd) ==
  IF cmd = <<>> \/ "broad" \notin cmd[1].is THEN {}
  ELSE {cmd[j] : j \in {j \in 2 .. Len(cmd) : "dash" \notin cmd[j].has /\ looksLikePathToken(cmd[j])}}

extractURLsFromCommand(cmd) == {w \in ToSet(cmd) : w.has \cap {"url", "meta"} # {}}

extractAllURLsFromCommand(cmd) == {w \in ToSet(cmd) : "inner" \in w.has}

stringArg(args, f) ==
  IF f \in DOMAIN args /\ args[f].type = "string" THEN args[f].words ELSE <<>>

(* The one word of a path or a URL, if there is a string.                  *)
oneWord(args, f) == ToSet(stringArg(args, f))

ExtractPaths(tool, args) ==
  CASE tool \in {"Read", "Write"} -> oneWord(args, "file_path") \cup oneWord(args, "path")
    [] tool = "Bash" -> extractPathsFromCommand(stringArg(args, "command"))
    [] tool = "Glob" -> oneWord(args, "glob_pattern")
    [] tool = "Grep" -> oneWord(args, "path")
    [] OTHER -> {}

ExtractDomains(tool, args) ==
  CASE tool = "WebFetch" -> oneWord(args, "url")
    [] tool = "WebSearch" -> oneWord(args, "search_term")
    [] tool = "Bash" -> extractURLsFromCommand(stringArg(args, "command"))
    [] OTHER -> {}

(* The groups of binaries the labeler and the engine take for network      *)
(* binaries.                                                               *)
networkBinaries == {"net", "miner"}
networkTools == {"net"}

(* Mutant: only the command itself is looked at.                           *)
firstIsNetworkCmd(cmd) == cmd # <<>> /\ cmd[1].is \cap networkBinaries # {}

containsNetworkCmd(cmd) == \E w \in ToSet(cmd) : w.is \cap networkBinaries # {}

containsNetworkBinary(cmd) == \E w \in ToSet(cmd) : w.is \cap networkTools # {}

(* The command of a Bash call, empty for another tool.                     *)
commandText(call) == IF call.tool.name = "Bash" THEN stringArg(call.args, "command") ELSE <<>>

Label(call) ==
  LET paths == ExtractPaths(call.tool.name, call.args) \cup extractBashPaths(commandText(call))
      domains == ExtractDomains(call.tool.name, call.args)
  IN  [label |-> joinAll({firstMatch(extDefaultPathRules, p.paths) : p \in paths}
                           \cup {firstMatch(extDefaultDomainRules, d.domains) : d \in domains}),
       resources |-> paths \cup domains,
       net |-> containsNetworkCmd(commandText(call))]
-----------------------------------------------------------------------------
(* internal/policy/engine.go.                                              *)

(* What the sink check looks at when the labeler has extracted nothing.    *)
extractResourcePaths(tool, args) ==
  CASE tool = "WebFetch" -> oneWord(args, "url")
    [] tool = "WebSearch" -> oneWord(args, "query")
    [] tool = "Bash" -> extractAllURLsFromCommand(stringArg(args, "command"))
    [] tool \in {"Write", "Edit", "Read"} -> oneWord(args, "file_path")
    [] tool = "SendMessage" -> oneWord(args, "to")
    [] OTHER -> {}

verdictOf(table, hash, call) ==
  ClassifyBash(table, hash, call.tool,
               \E w \in ToSet(commandText(call)) : "credential" \in w.has)

(* The checks before the label is used; a call without arguments is not    *)
(* held against its schema.                                                *)
admitted(table, hash, call) ==
  /\ verdictOf(table, hash, call).risk # "critical"
  /\ call.noArgs \/ CheckArgSchema(call.tool.name, call.args)

(* The request that the pipeline evaluates.                                *)
requestOf(table, hash, call) ==
  LET labeled == Label(call)
  IN  [res |-> labeled.label,
       effects |-> verdictOf(table, hash, call).effects,
       resources |-> IF labeled.resources # {} THEN labeled.resources
                     ELSE extractResourcePaths(call.tool.name, call.args),
       net |-> labeled.net \/ containsNetworkBinary(commandText(call))]
=============================================================================
