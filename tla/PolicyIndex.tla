---------------------------- MODULE PolicyIndex -----------------------------
(***************************************************************************)
(* From policy manifests to the answer of the policy layer, as operators:  *)
(* parsing (internal/bundle/parse.go), the order the bundle loader gives   *)
(* the bindings (loader.go, compile), the programs and the index of the    *)
(* snapshot (internal/cel/cache.go, internal/policy/engine.go) and the     *)
(* loop of evaluateWithSnapshot that asks the matching bindings in turn.   *)
(*                                                                         *)
(* A manifest is [name, layer, tools, sessions, effects, vals, closed]:    *)
(* vals are its validations, each an action and whether its expression     *)
(* holds for the request at hand, fails, or is empty; closed says that     *)
(* defaultAction is DENY.  Manifests come in the order of the walk.        *)
(***************************************************************************)
EXTENDS Integers, Sequences, SequencesExt

CONSTANTS PolicyLists,            \* lists of manifests, in the order of the walk
          ToolNames, SessionIds,  \* what a request is made with
          EffectSets              \* the effects a request may have

ASSUME PoliciesAssumption == \A ms \in PolicyLists : ms \in Seq(ToSet(ms))

LayerPriority == [ceiling |-> 0, team |-> 1, project |-> 2, cel |-> 3]

(* An unknown or empty layer is the default one.                           *)
layerOf(m) == IF m.layer \in DOMAIN LayerPriority THEN m.layer ELSE "cel"
priority(m) == LayerPriority[layerOf(m)]

(* What a program makes of a request: the expressions are joined by ||, so *)
(* one that holds decides even if another fails (CEL's ||).                *)
anyHolds(vals) ==
  IF \E v \in vals : v.value = "holds" THEN "refuses"
  ELSE IF \E v \in vals : v.value = "fails" THEN "fails" ELSE "passes"

withAction(m, a) == {v \in ToSet(m.vals) : v.action = a /\ v.value # "empty"}

(* The first validation that is not empty, if there is one.                *)
firstFilled(m) ==
  LET filled == {i \in DOMAIN m.vals : m.vals[i].value # "empty"}
  IN  {m.vals[i] : i \in {i \in filled : \A j \in filled : i <= j}}

(* Validations of one kind become the program: DENY, else                  *)
(* REQUIRE_APPROVAL, else the first that is not empty, whatever its action.*)
buildCombinedExpression(m) ==
  LET deny == withAction(m, "DENY")
      ask == withAction(m, "REQUIRE_APPROVAL")
  IN  CASE deny # {} -> [result |-> anyHolds(deny), approval |-> FALSE]
        [] deny = {} /\ ask # {} -> [result |-> anyHolds(ask), approval |-> TRUE]
        [] deny = {} /\ ask = {} /\ firstFilled(m) # {} ->
             [result |-> anyHolds(firstFilled(m)), approval |-> FALSE]
        [] OTHER -> [result |-> "none", approval |-> FALSE]

(* The elements of s that are in K, in their order.                        *)
keep(s, K) ==
  LET first[i \in 0 .. Len(s)] ==
        IF i = 0 THEN <<>>
        ELSE IF s[i] \in K THEN Append(first[i - 1], s[i]) ELSE first[i - 1]
  IN  first[Len(s)]

(* ParsePolicyDir: a manifest without an evaluable validation is left out. *)
ParsePolicyDir(ms) == keep(ms, {m \in ToSet(ms) : buildCombinedExpression(m).result # "none"})

inLayer(ms, p) == keep(ms, {m \in ToSet(ms) : priority(m) = p})

(* Mutant: lower layers first.                                             *)
sortReversed(ms) == inLayer(ms, 3) \o inLayer(ms, 2) \o inLayer(ms, 1) \o inLayer(ms, 0)

(* sort.SliceStable by the priority of the layer.                          *)
sortByLayer(ms) == inLayer(ms, 0) \o inLayer(ms, 1) \o inLayer(ms, 2) \o inLayer(ms, 3)

(* CompileAll keeps one program per name: that of the last manifest.       *)
program(ms, name) ==
  buildCombinedExpression(ms[CHOOSE i \in DOMAIN ms :
    ms[i].name = name /\ \A j \in DOMAIN ms : ms[j].name = name => j <= i])
-----------------------------------------------------------------------------
(* The snapshot: the bindings in order and those of each tool.             *)
byTool(ms, tool) == keep(ms, {m \in ToSet(ms) : tool \in m.tools})

(* A binding has a scope key only for the single tool, or the single       *)
(* session, it names.                                                      *)
unscoped(set) == \A x \in set : set # {x}
inScope(set, x) == unscoped(set) \/ set = {x}

matchesScope(m, tool, session) == inScope(m.tools, tool) /\ inScope(m.sessions, session)

(* The first binding without a scope key stands for all of them.           *)
filterByScope(ms, tool, session) ==
  IF ms = <<>> \/ (unscoped(ms[1].tools) /\ unscoped(ms[1].sessions)) THEN ms
  ELSE keep(ms, {m \in ToSet(ms) : matchesScope(m, tool, session)})

(* Mutant: an exact lookup, without the list of all bindings.              *)
matchByTool(ms, tool, session) == filterByScope(byTool(ms, tool), tool, session)

matchBindings(ms, tool, session) ==
  IF byTool(ms, tool) = <<>> THEN filterByScope(ms, tool, session)
  ELSE filterByScope(byTool(ms, tool), tool, session)

hasAllEffects(actual, required) == required \subseteq actual

(* The policy loop: the first binding that refuses, or that fails and is   *)
(* closed, answers.                                                        *)
refuses(ms, m, effects) ==
  /\ hasAllEffects(effects, m.effects)
  /\ \/ program(ms, m.name).result = "refuses"
     \/ program(ms, m.name).result = "fails" /\ m.closed

answerOf(ms, m) ==
  IF program(ms, m.name).result = "refuses" /\ buildCombinedExpression(m).approval
  THEN "require_approval" ELSE "deny"

(* The bindings that are asked, and what comes of it.                      *)
consulted(ms, tool, session) == matchBindings(sortByLayer(ParsePolicyDir(ms)), tool, session)

evaluate(ms, tool, session, effects) ==
  LET known == ParsePolicyDir(ms)
      asked == consulted(ms, tool, session)
      refusing == {i \in DOMAIN asked : refuses(known, asked[i], effects)}
  IN  IF refusing = {} THEN "allow"
      ELSE answerOf(known, asked[CHOOSE i \in refusing : \A j \in refusing : i <= j])
-----------------------------------------------------------------------------
(* A policy that names the tool is always asked, in the order of the list, *)
(* and a policy without tools exactly when none names the tool: the fast   *)
(* path for a first binding without scope loses no policy (engine.go 699). *)
SelectsExactly(ms, tool, session) ==
  LET asked == matchBindings(ms, tool, session)
  IN  /\ \A m \in ToSet(ms) : inScope(m.sessions, session) =>
           /\ tool \in m.tools => m \in ToSet(asked)
           /\ m.tools = {} => (m \in ToSet(asked) <=> \A o \in ToSet(ms) : tool \notin o.tools)
      /\ \A i, j \in DOMAIN asked : i < j =>
           \E a, b \in DOMAIN ms : a < b /\ asked[i] = ms[a] /\ asked[j] = ms[b]

(* A policy that is asked, whose effects the call has, whose name no other *)
(* policy has and that has a DENY validation which holds, is never         *)
(* overridden: the answer is not allow, and it is deny when whatever else  *)
(* refuses is in a lower layer (loader.go 377, engine.go 414).             *)
HonoursDeny(ms, tool, session, effects) ==
  LET known == ParsePolicyDir(ms)
      asked == ToSet(consulted(ms, tool, session))
      answer == evaluate(ms, tool, session, effects)
      denies(m) == \E v \in ToSet(m.vals) : v.action = "DENY" /\ v.value = "holds"
      alone(m) == \A o \in ToSet(ms) : o.name = m.name => o = m
  IN  \A m \in asked : denies(m) /\ alone(m) /\ hasAllEffects(effects, m.effects) =>
        /\ answer # "allow"
        /\ (\A o \in asked \ {m} : refuses(known, o, effects) => priority(o) > priority(m))
             => answer = "deny"
=============================================================================
