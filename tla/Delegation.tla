----------------------------- MODULE Delegation -----------------------------
(***************************************************************************)
(* Delegation chains (internal/delegation, internal/daemon/                *)
(* delegation_api.go): tokens that grant capabilities, each signed and     *)
(* bound to its parent by a hash, and the chains the engine tracks.        *)
(* Bit fields are sets.  A hash is what it is computed from, a signature   *)
(* the key and what was signed.  now.After(t) is now > t.                  *)
(***************************************************************************)
EXTENDS Integers, Sequences, FiniteSets, FiniteSetsExt

CONSTANTS Chains,           \* what comes with requests: lists of references to tokens
          KeyRing,          \* the trusted keys
          Moments, Asks,    \* times, and what is asked of a chain
          ChainIds, NoId    \* ids of tracked chains, and the empty string

(* One token or more, with an expiry and a risk each; the other fields of  *)
(* a token may be anything.                                                *)
IsChain(refs) ==
  /\ refs \in Seq({refs[i] : i \in DOMAIN refs}) /\ refs # <<>>
  /\ \A i \in DOMAIN refs : refs[i].token.exp \in Nat /\ refs[i].token.caps.risk \in Int

ASSUME DelegationAssumption ==
  /\ \A refs \in Chains : IsChain(refs)
  /\ Moments \subseteq Int /\ NoId \notin ChainIds
  /\ \A asked \in Asks : asked.risk \in Int

ResourceBits == {"file", "net"}   \* stand for the 16 bits
maxChainDepth == 8

(* CapabilitySet.                                                          *)
Capabilities(ops, effects, resources, risk) ==
  [ops |-> ops, effects |-> effects, resources |-> resources, risk |-> risk]

ReadOnlyCeiling == Capabilities({"read"}, {}, ResourceBits, 0)

Intersect(a, b) ==
  Capabilities(a.ops \cap b.ops, a.effects \cap b.effects, a.resources \cap b.resources,
               Min({a.risk, b.risk}))

IsSubsetOf(a, b) ==
  /\ a.ops \subseteq b.ops /\ a.effects \subseteq b.effects
  /\ a.resources \subseteq b.resources /\ a.risk <= b.risk

(* canonicalBytes and Hash: every field but the signature.                 *)
Hash(t) == [caps |-> t.caps, depth |-> t.depth, exp |-> t.exp, parent |-> t.parent]

verifySignature(key, t) == t.sig = [key |-> key, over |-> Hash(t)]
verifyWithAnyKey(trusted, t) == \E key \in trusted : verifySignature(key, t)

Refused == [ok |-> FALSE]

(* What the first i tokens grant together.                                 *)
granted(tokens) ==
  LET first[i \in 1 .. Len(tokens)] ==
        IF i = 1 THEN tokens[1].caps ELSE Intersect(first[i - 1], tokens[i].caps)
  IN  first

(* buildChain: no token has expired, each names the one before it, none    *)
(* grants more than the one before it.                                     *)
buildChain(tokens, now) ==
  IF /\ \A i \in 1 .. Len(tokens) : now <= tokens[i].exp
     /\ \A i \in 2 .. Len(tokens) : tokens[i].parent = <<Hash(tokens[i - 1])>>
     /\ \A i \in 2 .. Len(tokens) : IsSubsetOf(tokens[i].caps, granted(tokens)[i - 1])
  THEN [ok |-> TRUE, tokens |-> tokens, depth |-> Len(tokens),
        grants |-> IF Len(tokens) > 2 THEN ReadOnlyCeiling ELSE granted(tokens)[Len(tokens)]]
  ELSE Refused

Permits(chain, ops, effects, resources, risk) ==
  /\ ops \subseteq chain.grants.ops /\ effects \subseteq chain.grants.effects
  /\ resources \subseteq chain.grants.resources /\ chain.grants.risk >= risk

(* Chain.Ceiling: the earliest expiry.  Its list of capabilities stays     *)
(* empty.                                                                  *)
EffectiveCeiling(chain) ==
  [capabilities |-> {}, maxDepth |-> chain.depth,
   expiresAt |-> Min({chain.tokens[i].exp : i \in DOMAIN chain.tokens})]

tokensOf(refs) == [i \in DOMAIN refs |-> refs[i].token]

decodeAndVerify(refs, trusted) == \A i \in DOMAIN refs : verifyWithAnyKey(trusted, refs[i].token)

(* No refs, no chain and no error.                                         *)
NoChain == [ok |-> TRUE, tokens |-> <<>>]

ValidateChain(refs, trusted, now) ==
  IF refs = <<>> THEN NoChain
  ELSE IF Len(refs) <= maxChainDepth /\ decodeAndVerify(refs, trusted)
  THEN buildChain(tokensOf(refs), now) ELSE Refused

(* Validate: a declassification also needs a reference to an audit.        *)
Validate(refs, trusted, now) ==
  /\ \A i \in DOMAIN refs : refs[i].gate => refs[i].audit
  /\ ValidateChain(refs, trusted, now).ok

ApplyCeiling(tool, limit, now) ==
  now <= limit.expiresAt /\ (limit.capabilities = {} \/ tool \in limit.capabilities)
-----------------------------------------------------------------------------
(* The chains being tracked: chain id -> chain.                            *)
Register(active, id, chain) == [x \in DOMAIN active \cup {id} |-> IF x = id THEN chain ELSE active[x]]

Revoke(active, id) == [x \in DOMAIN active \ {id} |-> active[x]]

(* Mutant: expired once all tokens are.                                    *)
isChainExpiredLast(chain, now) == \A i \in DOMAIN chain.tokens : now > chain.tokens[i].exp

isChainExpired(chain, now) == \E i \in DOMAIN chain.tokens : now > chain.tokens[i].exp

(* The chains left, and those for which delegation.expired is emitted.     *)
removeExpired(active, now) ==
  LET expired == {id \in DOMAIN active : isChainExpired(active[id], now)}
  IN  [active |-> [id \in DOMAIN active \ expired |-> active[id]], emitted |-> expired]

ListActive(active) == {[id |-> id, expiresAt |-> EffectiveCeiling(active[id]).expiresAt] : id \in DOMAIN active}

(* POST /revoke, GET /list: what is left, and what is answered.            *)
handleRevoke(active, method, id) ==
  IF method # "POST" \/ id = NoId THEN active ELSE Revoke(active, id)

handleList(active, method) == IF method # "GET" THEN {} ELSE ListActive(active)
-----------------------------------------------------------------------------
(* What is true of the chain that ValidateChain makes of refs.             *)
(* A chain of at most two tokens permits only what every token of it       *)
(* grants and was signed for, a longer one no effect and nothing but       *)
(* reading (chain.go 184, 192).                                            *)
PermitsWithin(chain, trusted, asked) ==
  Permits(chain, asked.ops, asked.effects, asked.resources, asked.risk) =>
    IF chain.depth <= 2
    THEN \A i \in DOMAIN chain.tokens :
           LET sig == chain.tokens[i].sig
           IN  sig.key \in trusted /\ IsSubsetOf(asked, sig.over.caps)
    ELSE asked.ops \subseteq {"read"} /\ asked.effects = {} /\ asked.risk <= 0

(* At time t the chain is refused exactly when the sweep removes it, which *)
(* is when the ceiling it is listed with has expired (engine.go 238).      *)
EndsAtCeiling(refs, trusted, chain, t, tool) ==
  LET ends == EffectiveCeiling(chain).expiresAt
  IN  /\ isChainExpired(chain, t) <=> t > ends
      /\ ValidateChain(refs, trusted, t).ok <=> t <= ends
      /\ ApplyCeiling(tool, EffectiveCeiling(chain), t) <=> t <= ends

(* A sweep leaves the chains that have not expired as they are, lists no   *)
(* other, and tells of each chain it removes (engine.go 194).              *)
SweepExact(active, t) ==
  LET left == removeExpired(active, t)
  IN  /\ left.emitted = DOMAIN active \ DOMAIN left.active
      /\ \A id \in DOMAIN active : id \in DOMAIN left.active <=> t <= EffectiveCeiling(active[id]).expiresAt
      /\ \A id \in DOMAIN left.active : left.active[id] = active[id]
      /\ \A l \in ListActive(left.active) : t <= l.expiresAt

(* All of this of a chain that is accepted now, tracked beside the chain   *)
(* of whoever delegated, which is accepted as well; revoking one of them   *)
(* leaves the other alone (chain.go 167, engine.go 122).                   *)
ChainBounded(refs, now) ==
  LET chain == ValidateChain(refs, KeyRing, now)
      parent == ValidateChain(<<refs[1]>>, KeyRing, now)
      tracked(a, b) == Register(Register([id \in {} |-> Refused], a, chain), b, parent)
  IN  chain.ok =>
        /\ parent.ok
        /\ \A asked \in Asks : PermitsWithin(chain, KeyRing, asked)
        /\ \A t \in Moments : EndsAtCeiling(refs, KeyRing, chain, t, "Bash")
        /\ \A a, b \in ChainIds : a # b =>
             /\ \A t \in Moments : SweepExact(tracked(a, b), t)
             /\ handleRevoke(tracked(a, b), "POST", a) = [id \in {b} |-> parent]
=============================================================================
