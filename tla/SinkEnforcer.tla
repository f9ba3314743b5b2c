---------------------------- MODULE SinkEnforcer ----------------------------
(***************************************************************************)
(* internal/sink/enforcer.go: whether a tainted session may use a sink.    *)
(* A resource is external or internal; a standing rule is an effect, the   *)
(* set of resources its glob matches, and an expiry time.                  *)
(***************************************************************************)
EXTENDS Integers, FiniteSets

CONSTANTS Effects, RestrictedEffects,   \* effects, and the gated ones
          Resources, External           \* resources, and the external ones

ASSUME SinkAssumption == RestrictedEffects \subseteq Effects /\ External \subseteq Resources

ApprovalNone == 0
ApprovalPending == 1
ApprovalStandingRule == 2
ApprovalSessionGranted == 3

isRestrictedSink(req) == req.net \/ req.effects \cap RestrictedEffects # {}

isExternalResource(req) == req.resources \cap External # {}

(* Mutant: any covered resource is enough.                                 *)
anyResourceCovered(granted, req, now) ==
  \E res \in req.resources : \E rule \in granted :
    now <= rule.exp /\ rule.effect \in req.effects /\ res \in rule.pattern

(* Every resource is matched by a rule for one of the request's effects    *)
(* that has not expired (now.After is strict); an empty list is not.       *)
allResourcesCovered(granted, req, now) ==
  /\ req.resources # {}
  /\ \A res \in req.resources : \E rule \in granted :
       now <= rule.exp /\ rule.effect \in req.effects /\ res \in rule.pattern

Decision(snap, req, now) ==
  IF \/ ~ snap.isTainted
     \/ ~ isRestrictedSink(req)
     \/ snap.approval = ApprovalSessionGranted
     \/ snap.approval = ApprovalStandingRule /\ allResourcesCovered(snap.rules, req, now)
     \/ ~ (isExternalResource(req) \/ (req.net /\ req.resources = {}))
  THEN "allow" ELSE "deny"
=============================================================================
