--------------------------- MODULE PipelineInputs ---------------------------
(***************************************************************************)
(* What the pipeline decides from: the table of the classifier, the labels *)
(* of tool calls, the delegation chains, and the adapters between an IDE   *)
(* and the daemon.  What is said of them is evaluated once, in the first   *)
(* state of the pipeline.                                                  *)
(***************************************************************************)
EXTENDS Pipeline, RequestLabeler, HookAdapter, Delegation

CONSTANTS BashCalls, OtherCalls,  \* the calls of tools
          Catalog, NameHash       \* the deployed catalogue, and its hash

Tool(name) == [name |-> name, mcp |-> FALSE, verb |-> "none"]
ToolCall(name, args, noArgs) == [tool |-> Tool(name), args |-> args, noArgs |-> noArgs]

(* A string of a call is made of words; a | is no path, and what is        *)
(* external is a feature of the word.                                      *)
ASSUME CallsAssumption ==
  /\ \A w \in Resources : isPipe(w) => ~ looksLikePath(w)
  /\ External = {w \in Resources : w.external}
  /\ \A call \in BashCalls \cup OtherCalls :
       /\ Tool(call.tool.name) \in CalledTools
       /\ \A f \in DOMAIN call.args : call.args[f].type = "string" => call.args[f].words \in Seq(Resources)

(* The categories of the labeler's rules, and the sink's effects.          *)
ASSUME LabelerAssumption ==
  /\ {"credentials", "security_key"} \subseteq Secrets
  /\ TaintBit \notin {"credentials", "security_key", "personal", "internal"}
  /\ RestrictedEffects = restrictedEffects

(* The effects that the deployed catalogue gives the tools that send.      *)
ASSUME CatalogAssumption ==
  /\ Catalog \in Catalogs /\ NameHash \in HashFunctions
  /\ \E i \in DOMAIN Catalog : Catalog[i].tool = "WebFetch"
  /\ \E i \in DOMAIN Catalog : Catalog[i].tool = "SendMessage"
  /\ \A i \in DOMAIN Catalog :
       /\ Catalog[i].tool = "WebFetch" => "network_egress" \in Catalog[i].effects
       /\ Catalog[i].tool = "SendMessage" => "message_content" \in Catalog[i].effects

ASSUME TextAssumption == NoText \notin ToolNames \cup {"PreToolUse", "s", "c"}
-----------------------------------------------------------------------------
(* Every search of the table ends, finds the first definition of the tool  *)
(* and nothing else, and falls back safely (FindsExactly): the table of    *)
(* any catalogue keeps a free bucket (classify.go 106, 186, 238).          *)
LookupExact == Init =>
  /\ \A n \in 0 .. MaxDefinitions : buckets(n) > n
  /\ \A catalog \in Catalogs, hash \in HashFunctions :
       LET table == BuildVerdictMap(catalog, hash)
       IN  \A tool \in CalledTools : FindsExactly(table, catalog, hash, tool)

(* A delegation chain permits what all its tokens grant and lives as long  *)
(* as the first of them to expire, whoever asks (ChainBounded; chain.go    *)
(* 167, 184, 192, engine.go 194, 238).                                     *)
DelegationBounded == Init => \A refs \in Chains, now \in Moments : ChainBounded(refs, now)
-----------------------------------------------------------------------------
(* The rules that make a path a secret.                                    *)
isSecret(w) == w.paths \cap {"system", "memory", "maps", "device", "key", "credential", "auditlog"} # {}

(* The words a command reads: what follows a <, and the arguments of a     *)
(* file reader, in whatever part of a pipeline.                            *)
headOf(cmd, j) == Max({i \in 1 .. j : i = 1 \/ isPipe(cmd[i - 1])})
readBy(cmd) ==
  {cmd[j] : j \in {j \in 2 .. Len(cmd) :
     \/ "<" \in cmd[j - 1].is
     \/ /\ headOf(cmd, j) # j /\ "reader" \in cmd[headOf(cmd, j)].is
        /\ "dash" \notin cmd[j].has /\ looksLikePath(cmd[j])}}

reads(call) ==
  CASE call.tool.name = "Bash" -> readBy(commandText(call))
    [] call.tool.name \in {"Read", "Write"} -> oneWord(call.args, "file_path")
    [] call.tool.name = "Glob" -> oneWord(call.args, "glob_pattern")
    [] call.tool.name = "Grep" -> oneWord(call.args, "path")
    [] OTHER -> {}

(* A call that names a secret file to be read, in any part of a pipeline,  *)
(* beside any other file and under any other rule that also matches, gets  *)
(* a label that taints the session; and no call gets the taint itself as a *)
(* label, which Pipeline assumes (labeler.go 84, 117, 250, extract.go 103, *)
(* 128).                                                                   *)
SecretsLabelled == Init => \A call \in BashCalls \cup OtherCalls :
  LET given == Label(call).label
  IN  /\ (\E w \in reads(call) : isSecret(w)) => given.k \cap Secrets # {}
      /\ ~ Tainted(given)
-----------------------------------------------------------------------------
(* Whether a call visibly sends to somebody else: a network binary         *)
(* anywhere in a command with an external URL, or with neither path nor    *)
(* URL; an external URL fetched; a message to a named agent.               *)
sends(call) ==
  LET words == ToSet(commandText(call))
      external(ws) == \E w \in ws : w.external
  IN  CASE call.tool.name = "Bash" ->
             /\ \E w \in words : w.is \cap {"net", "miner"} # {}
             /\ \/ \E w \in words : "url" \in w.has /\ w.external
                \/ \A w \in words : ~ looksLikePath(w) /\ "<" \notin w.is
                                    /\ w.has \cap {"url", "meta", "inner"} = {}
        [] call.tool.name = "WebFetch" -> external(oneWord(call.args, "url"))
        [] call.tool.name = "SendMessage" -> external(oneWord(call.args, "to"))
        [] OTHER -> FALSE

(* The forms in which a call comes from an IDE: Claude Code, Cursor, one   *)
(* that names the tool otherwise, and one that leaves a field null.        *)
input(fields) == [valid |-> TRUE, fields |-> fields]
forms(tool, args) ==
  {input([hook_event_name |-> "PreToolUse", session_id |-> "s", tool_name |-> tool, tool_input |-> <<args>>]),
   input([hook_event_name |-> "PreToolUse", session_id |-> "s", conversation_id |-> "c",
          tool_name |-> tool, tool_input |-> <<args>>]),
   input([conversation_id |-> "s", tool_name |-> tool, input |-> <<args>>]),
   input([session_id |-> "s", tool |-> tool, args |-> <<args>>]),
   input([session_id |-> "s", tool |-> tool, tool_name |-> NoText, input |-> <<>>, tool_input |-> <<args>>])}

DeployedTable == BuildVerdictMap(Catalog, NameHash)
TaintedSession == [isTainted |-> TRUE, approval |-> ApprovalNone, rules |-> {}]

(* The daemon's answer to a tainted session "s" without approval.          *)
answerTo(table, req) ==
  LET call == ToolCall(req.tool, Head(req.args), FALSE)
  IN  CASE req.session # "s" -> "allow"
        [] req.session = "s" /\ ~ admitted(table, NameHash, call) -> "deny"
        [] req.session = "s" /\ admitted(table, NameHash, call) ->
             Decision(TaintedSession, requestOf(table, NameHash, call), 0)

(* From a tainted session without approval such a call never passes the    *)
(* schema gate and the sink check, and in whatever form it came the IDE is *)
(* told to stop it (engine.go 383-393, enforcer.go 116, the adapters).     *)
TaintedEgressStopped == Init =>
  LET table == DeployedTable
  IN  \A call \in BashCalls \cup OtherCalls : sends(call) =>
        \A raw \in forms(call.tool.name, call.args) :
          main(raw, answerTo(table, ParseInput(raw))).says = "deny"
=============================================================================
