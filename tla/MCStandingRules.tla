--------------------------- MODULE MCStandingRules ---------------------------
(* Two external resources and one internal; rules for one or both external *)
(* ones; requests for one, for both, with an unknown destination, internal.*)
EXTENDS StandingRules

CONSTANTS egress, api, cdn, local

MCScopes == {[effect |-> egress, pattern |-> {api}]}
MCRequests == {[effects |-> {egress}, resources |-> {api}, net |-> FALSE],
               [effects |-> {egress}, resources |-> {api, cdn}, net |-> FALSE],
               [effects |-> {}, resources |-> {}, net |-> TRUE],
               [effects |-> {egress}, resources |-> {local}, net |-> FALSE]}
=============================================================================
