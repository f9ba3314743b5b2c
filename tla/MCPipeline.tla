----------------------------- MODULE MCPipeline -----------------------------
(* What comes before the pipeline: catalogues, hashes and tool calls; and  *)
(* the pipeline itself on four requests that are made of such calls.       *)
EXTENDS PipelineInputs, MCDelegation

(* The deployed catalogue.                                                 *)
MCCatalog ==
  LET def(t, op, effects, risk) == [tool |-> t, operation |-> op, effects |-> effects, risk |-> risk]
  IN  <<def("Bash", "exec", {"exec_process"}, "medium"),
        def("Read", "read", {"read_files"}, "low"),
        def("Write", "write", {"write_files"}, "medium"),
        def("Edit", "write", {"write_files"}, "medium"),
        def("Glob", "read", {"read_files"}, "low"),
        def("Grep", "read", {"read_files"}, "low"),
        def("WebFetch", "read", {"network_egress"}, "low"),
        def("WebSearch", "read", {"network_egress"}, "low"),
        def("Agent", "create", {"process_coordination"}, "low"),
        def("SendMessage", "publish", {"content_internal", "message_content"}, "low")>>

(* Catalogues of up to three definitions of three tools, told apart by     *)
(* their risk, and hashes that collide, wrap around or do neither.         *)
OtherTools == {"Read", "Write", "Edit", "Glob", "Grep", "WebFetch", "WebSearch", "SendMessage", "Bash"}
TabledTools == {"Bash", "Agent", "mcp__docs__get"}
MCToolNames == OtherTools \cup TabledTools
MCHashes == {[t \in MCToolNames |-> IF t \in TabledTools THEN f[t] ELSE 0] :
               f \in [TabledTools -> {0, 1, 14, 15, 31}]}
MCHash == [t \in MCToolNames |-> 0]
Risks == <<"low", "medium", "high">>
MCCatalogs == {MCCatalog} \cup
  UNION {{[i \in 1 .. n |-> [tool |-> f[i], operation |-> "read", effects |-> {}, risk |-> Risks[i]]] :
            f \in [1 .. n -> TabledTools]} : n \in 0 .. 3}
MCTools == {[name |-> t, mcp |-> t = "mcp__docs__get", verb |-> "none"] : t \in MCToolNames}
-----------------------------------------------------------------------------
Word(is, has, paths, domains, external) ==
  [is |-> is, has |-> has, paths |-> paths, domains |-> domains, external |-> external]
Command(is) == Word(is, {}, {}, {}, TRUE)
Path(has, kinds) == Word({}, has, kinds, {}, "path" \notin has)
URL(has, domains, external) == Word({}, has, {}, domains, external)

cat == Command({"reader"})
stat == Command({"reader", "broad"})
cp == Command({"copy", "broad"})
scp == Command({"copy", "net"})
curl == Command({"net"})
xmrig == Command({"miner"})
echo == Command({})
flag == Word({}, {"dash"}, {}, {}, TRUE)
pipe == Command({"|"})
redirect == Command({"<"})
etcShadow == Path({"path", "sep", "sensitive"}, {"system"})
tmpKey == Path({"path", "sep", "sensitive"}, {"key", "temp"})
relativeEnv == Path({"sep", "sensitive"}, {"credential"})
bareKey == Path({"sensitive"}, {"key"})
auditLog == Path({"path", "sep"}, {"auditlog", "log"})
tmpFile == Path({"path", "sep"}, {"temp"})
goFile == Path({}, {"source"})
export == Word({}, {"credential"}, {}, {}, TRUE)
remote == URL({"url", "inner"}, {}, TRUE)
localhost == URL({"url", "inner"}, {}, FALSE)
quoted == URL({"sep", "inner"}, {}, TRUE)
metadata == URL({"url", "inner", "meta"}, {"metadata"}, FALSE)

Core == {cat, curl, pipe, redirect, tmpKey, tmpFile, remote}
MCWords == Core \cup {stat, cp, scp, xmrig, echo, flag, etcShadow, relativeEnv, bareKey,
                      auditLog, goFile, export, localhost, quoted, metadata}

(* Every command of up to three words, and longer ones of the core.        *)
Commands == UNION {[1 .. n -> MCWords] : n \in 0 .. 3} \cup UNION {[1 .. n -> Core] : n \in 4 .. 5}

Str(words) == [type |-> "string", words |-> words]

MCBashCalls == {ToolCall("Bash", [command |-> Str(c)], FALSE) : c \in Commands}

ArgValues == {Str(<<w>>) : w \in MCWords} \cup {Str(<<>>), [type |-> "null"], [type |-> "int"]}
ArgFields == {"file_path", "path", "glob_pattern", "url", "query", "to", "content", "command"}
FieldSets == {{f} : f \in ArgFields} \cup {{"file_path", "content"}, {"file_path", "path"}}
MCOtherCalls ==
  {ToolCall(t, a, FALSE) : t \in OtherTools, a \in UNION {[fs -> ArgValues] : fs \in FieldSets}}
    \cup {ToolCall(t, none, b) : t \in OtherTools, b \in BOOLEAN}
-----------------------------------------------------------------------------
(* The requests of the pipeline: a read of a key, a fetch, an agent call,  *)
(* and a call without resources whose sender claims a label.               *)
Request(tool, own, call) ==
  LET r == requestOf(BuildVerdictMap(MCCatalog, MCHash), MCHash, call)
  IN  [tool |-> tool, own |-> own, res |-> r.res, effects |-> r.effects,
       resources |-> r.resources, net |-> r.net]

KeyLabel == [c |-> 1500, i |-> 500, k |-> {"credentials", "security_key"}]

MCRequests ==
  {Request("other", ZeroLabel, ToolCall("Read", [file_path |-> Str(<<tmpKey>>)], FALSE)),
   Request("other", ZeroLabel, ToolCall("WebFetch", [url |-> Str(<<remote>>)], FALSE)),
   Request("Agent", ZeroLabel, ToolCall("Agent", none, FALSE)),
   Request("other", KeyLabel, ToolCall("Glob", none, FALSE))}

MCRules == {[effect |-> "network_egress", pattern |-> {remote}, exp |-> 0]}
MCEffects == restrictedEffects \cup {"read_files", "write_files", "exec_process", "state_change",
                                    "credential_use"}
MCExternal == {w \in MCWords : w.external}
=============================================================================
