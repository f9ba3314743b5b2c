----------------------------- MODULE Classifier -----------------------------
(***************************************************************************)
(* The classifier and the argument schemas of internal/classify.           *)
(*                                                                         *)
(* A tool is its name, whether the name begins with mcp__, and the group   *)
(* of verbs it begins with (no name is in two groups).  A definition of    *)
(* the catalogue is [tool, operation, effects, risk].  The hash is any     *)
(* function of the names.  Lists of effects are sets: their order is never *)
(* looked at.                                                              *)
(***************************************************************************)
EXTENDS Integers, Sequences, FiniteSets, FiniteSetsExt, SequencesExt

CONSTANTS ToolNames, NoName,          \* names of tools, and the empty string
          Catalogs, HashFunctions,    \* what tables are built from
          CalledTools,                \* tools that are looked up
          MaxDefinitions              \* the longest catalogue

(* Ten times as many is below the largest of Powers.                       *)
LargestCatalog == 2 ^ 26

ASSUME ClassifierAssumption ==
  /\ NoName \notin ToolNames /\ MaxDefinitions \in 0 .. LargestCatalog
  /\ \A catalog \in Catalogs : /\ catalog \in Seq(ToSet(catalog)) /\ Len(catalog) <= MaxDefinitions
                              /\ \A def \in ToSet(catalog) : def.tool \in ToolNames
  /\ HashFunctions \subseteq [ToolNames -> Nat]
  /\ \A tool \in CalledTools : tool.name \in ToolNames

(* Filling all bits below the highest one and adding one.                  *)
Powers == {2 ^ k : k \in 0 .. 30}
nextPow2(n) == Min({p \in Powers : n <= p})

(* Mutant: no least number of buckets.                                     *)
bucketsNoMinimum(count) == nextPow2((count * 10) \div 7)

buckets(count) ==
  LET n == nextPow2((count * 10) \div 7) IN IF n < 16 THEN 16 ELSE n

classificationFromOperation(op) ==
  CASE op = "read" -> "readonly"
    [] op \in {"write", "update", "create", "delete", "publish"} -> "write"
    [] op = "exec" -> "exec"
    [] OTHER -> "unknown"

VerdictEntry(class, effects, risk, match) ==
  [class |-> class, effects |-> effects, risk |-> risk, match |-> match]

adapterDefToVerdict(def) ==
  VerdictEntry(classificationFromOperation(def.operation), def.effects, def.risk, TRUE)

NoEntry == [key |-> NoName, value |-> VerdictEntry("unknown", {}, "none", FALSE)]

(* Linear probing: the bucket k places after the one of the hash.          *)
size(table) == Cardinality(DOMAIN table)
probe(table, hash, key, k) == ((hash[key] % size(table)) + k) % size(table)
steps(table) == 0 .. size(table) - 1

insert(table, hash, key, value) ==
  LET free == {k \in steps(table) : table[probe(table, hash, key, k)] = NoEntry}
  IN  [table EXCEPT ![probe(table, hash, key, Min(free))] = [key |-> key, value |-> value]]

BuildVerdictMap(catalog, hash) ==
  LET tables[i \in 0 .. Len(catalog)] ==
        IF i = 0 THEN [b \in 0 .. buckets(Len(catalog)) - 1 |-> NoEntry]
        ELSE insert(tables[i - 1], hash, catalog[i].tool, adapterDefToVerdict(catalog[i]))
  IN  tables[Len(catalog)]

(* The places where the search for a key stops; if there is none it goes   *)
(* round for ever.                                                         *)
stops(table, hash, key) ==
  {k \in steps(table) : table[probe(table, hash, key, k)].key \in {NoName, key}}

lookup(table, hash, key) ==
  table[probe(table, hash, key, Min(stops(table, hash, key)))]

coordinationTools ==
  {"TaskCreate", "TaskUpdate", "TaskGet", "TaskList", "SendMessage",
   "TeamCreate", "TeamDelete", "Agent", "Skill", "ExitPlanMode"}

heuristic(verb) ==
  CASE verb = "write" -> VerdictEntry("write", {"write_files"}, "medium", FALSE)
    [] verb = "network" -> VerdictEntry("network", {"network_egress"}, "medium", FALSE)
    [] verb = "exec" -> VerdictEntry("exec", {"exec_process"}, "high", FALSE)
    [] verb = "read" -> VerdictEntry("readonly", {"read_files"}, "low", FALSE)
    [] OTHER -> VerdictEntry("unknown", {}, "high", FALSE)

classifyByPrefix == VerdictEntry("network", {"network_egress"}, "medium", FALSE)

Classify(table, hash, tool) ==
  LET found == lookup(table, hash, tool.name)
  IN  CASE found.key # NoName -> found.value
        [] found.key = NoName /\ tool.name \in coordinationTools ->
             VerdictEntry("unknown", {}, "critical", FALSE)
        [] found.key = NoName /\ tool.name \notin coordinationTools ->
             IF tool.mcp THEN classifyByPrefix ELSE heuristic(tool.verb)

(* For a command text: a credential pattern in it adds an effect.          *)
ClassifyBash(table, hash, tool, hasCredentialPattern) ==
  LET entry == Classify(table, hash, tool)
  IN  IF hasCredentialPattern
      THEN [entry EXCEPT !.effects = @ \cup {"credential_use"}] ELSE entry

(* Every search of the table ends, finds the first definition of the tool  *)
(* and nothing else, whatever collides and however often a tool is         *)
(* defined; of the tools that the catalogue lacks exactly the coordination *)
(* tools are of critical risk, which the engine denies.                    *)
FindsExactly(table, catalog, hash, tool) ==
  LET defs == {i \in DOMAIN catalog : catalog[i].tool = tool.name}
      entry == Classify(table, hash, tool)
  IN  /\ stops(table, hash, tool.name) # {}
      /\ \A i \in defs : (\A j \in defs : i <= j) => entry = adapterDefToVerdict(catalog[i])
      /\ defs = {} => ~ entry.match /\ (entry.risk = "critical" <=> tool.name \in coordinationTools)
-----------------------------------------------------------------------------
(* The schemas: field -> JSON type.  An argument value is its type, "null" *)
(* or one that no schema asks for ("int" stands for any number), and, for  *)
(* a string, its words.                                                    *)
none == [f \in {} |-> ""]
strings(fields) == [f \in fields |-> "string"]
Schema(required, optional) == [required |-> required, optional |-> optional]

toolSchemas ==
  [Bash |-> Schema([command |-> "string"],
                   [description |-> "string", timeout |-> "int",
                    dangerouslyDisableSandbox |-> "bool", run_in_background |-> "bool"]),
   Read |-> Schema([file_path |-> "string"],
                   [offset |-> "int", limit |-> "int", pages |-> "string"]),
   Write |-> Schema(strings({"file_path", "content"}), none),
   Edit |-> Schema(none, [file_path |-> "string", old_string |-> "string",
                          new_string |-> "string", replace_all |-> "bool"]),
   WebFetch |-> Schema(none, strings({"url", "prompt"})),
   WebSearch |-> Schema(none, [query |-> "string", allowed_domains |-> "array",
                               blocked_domains |-> "array"]),
   Agent |-> Schema(none, strings({"description", "prompt", "model", "team_name",
                                   "name", "subagent_type"})),
   SendMessage |-> Schema(none, strings({"to", "message", "summary"})),
   NotebookEdit |-> Schema(none, strings({"notebook_path", "new_source", "cell_id",
                                          "cell_type", "edit_mode"}))]

(* validate: no error.                                                     *)
validate(schema, args) ==
  /\ \A f \in DOMAIN schema.required :
       f \in DOMAIN args /\ args[f].type = schema.required[f]
  /\ \A f \in DOMAIN schema.optional \cap DOMAIN args :
       args[f].type \in {"null", schema.optional[f]}

CheckArgSchema(tool, args) == tool \in DOMAIN toolSchemas => validate(toolSchemas[tool], args)
=============================================================================
