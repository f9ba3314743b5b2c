------------------------------ MODULE MCBundle ------------------------------
(* Two bundles that activate and one for each stage that may refuse it;    *)
(* and short lists of policy manifests.                                    *)
EXTENDS BundleLoader

CONSTANTS b1, b2, bExtract, bHealth, bReload

MCBundles == {b1, b2, bExtract, bHealth, bReload}
MCQuality ==
  [b \in MCBundles |-> CASE b = bExtract -> "extract" [] b = bHealth -> "health"
                         [] b = bReload -> "reload" [] OTHER -> "good"]
-----------------------------------------------------------------------------
Manifest(name, layer, tools, sessions, effects, vals, closed) ==
  [name |-> name, layer |-> layer, tools |-> tools, sessions |-> sessions,
   effects |-> effects, vals |-> vals, closed |-> closed]

Val(action, value) == [action |-> action, value |-> value]
Denies == <<Val("DENY", "holds")>>

Tools == {"Bash", "Read"}
MCSessions == {"s", "t"}
Scopes == (SUBSET Tools) \X (SUBSET MCSessions)

(* Up to three manifests that differ only in their scope.                  *)
ScopeLists == UNION {{[i \in 1 .. n |-> Manifest(i, "cel", f[i][1], f[i][2], {}, Denies, FALSE)] :
                        f \in [1 .. n -> Scopes]} : n \in 0 .. 3}

ValLists == {Denies, <<Val("DENY", "fails"), Val("DENY", "holds")>>,
             <<Val("DENY", "fails")>>, <<Val("REQUIRE_APPROVAL", "holds")>>,
             <<Val("REQUIRE_APPROVAL", "holds"), Val("DENY", "holds")>>,
             <<Val("REQUIRE_APPROVAL", "holds"), Val("DENY", "nothing")>>,
             <<Val("DENY", "empty")>>}

Shapes == [layer : {"ceiling", "unknown"}, tools : {{}, {"Bash"}, {"Read"}},
           effects : SUBSET {"network"}, vals : ValLists, closed : BOOLEAN]

(* Two manifests of different layers, scopes and content.                  *)
PolicySets == {<<Manifest(1, f.layer, f.tools, {}, f.effects, f.vals, f.closed),
                 Manifest(2, g.layer, g.tools, {}, g.effects, g.vals, g.closed)>> :
                   f, g \in Shapes}

MCPolicyLists == ScopeLists \cup PolicySets
=============================================================================
