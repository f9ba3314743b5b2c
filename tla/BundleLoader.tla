---------------------------- MODULE BundleLoader ----------------------------
(***************************************************************************)
(* The bundle loader (internal/bundle/loader.go, bundle.go, store.go): it  *)
(* polls a source for a signed policy bundle, verifies, extracts, stores,  *)
(* compiles and health-checks it, and pushes it into the policy engine.    *)
(* The bundle and its signature are two files (or two URLs) that somebody  *)
(* replaces one after the other while the loader reads them one after the  *)
(* other.  Restarts lose the loader's memory and keep its store.           *)
(*                                                                         *)
(* A bundle is what becomes of it: Quality[b] names the stage that refuses *)
(* it, or is "good".  A signature is the bundle it was made for and the    *)
(* key it was made with.  The modification time of a file and the ETag of  *)
(* a URL are the number of the publication, the tag.  What the engine      *)
(* makes of the policies of a bundle is in PolicyIndex.                    *)
(***************************************************************************)
EXTENDS PolicyIndex, FiniteSets

CONSTANTS Bundles, Quality,
          Keys, TrustedKeys,
          KeepCount,
          NoBundle, NoKey,
          MaxPublications, MaxFaults, MaxRestarts   \* bounds of the model

ASSUME BundleAssumption ==
  /\ Quality \in [Bundles -> {"good", "extract", "health", "reload"}]
  /\ TrustedKeys \subseteq Keys /\ TrustedKeys # {} /\ NoKey \notin Keys
  /\ KeepCount \in Nat \ {0} /\ NoBundle \notin Bundles
  /\ MaxPublications \in Nat /\ MaxFaults \in Nat /\ MaxRestarts \in Nat

VARIABLES
  isFile,     \* the source is file://, not a URL
  sigFirst,   \* the publisher replaces the signature before the bundle
  src,        \* what is published: bundle, its tag, signature
  half,       \* a publication of which only the first file is replaced
  fsm,        \* ActivationFSM.state
  got,        \* locals of tryActivate: what it has fetched, and how far
  lastTag,    \* lastMtime or lastEtag; 0 is none
  current,    \* current and prevBundle, which are stored together
  engine,     \* the bundle the policy engine runs
  store,      \* the stored bundles with a manifest, oldest StoredAt first
  \* history
  pubs, faults, restarts,
  signed,     \* bundles a trusted signature was published for
  torn,       \* bundles whose last save did not complete
  spoilt,     \* a fault hit the attempt on what was fetched last
  unactivated \* saves since the store was last collected

source == <<isFile, sigFirst, src, half, pubs, signed>>
loader == <<fsm, got, lastTag, current>>
loaderVars == <<source, loader, engine, store, torn, faults, restarts, spoilt, unactivated>>

Signatures == [of : Bundles \cup {NoBundle}, key : Keys \cup {NoKey}]
NoSig == [of |-> NoBundle, key |-> NoKey]
NoBytes == [at |-> "stat", content |-> NoBundle, sig |-> NoSig, tag |-> 0]
NoManifest == [hash |-> NoBundle, version |-> 0]
NoHalf == [content |-> NoBundle, sig |-> NoSig]

LoaderInit ==
  /\ isFile \in BOOLEAN /\ sigFirst \in BOOLEAN
  /\ src = [content |-> NoBundle, tag |-> 0, sig |-> NoSig]
  /\ half = NoHalf
  /\ fsm = "idle" /\ got = NoBytes /\ lastTag = 0 /\ current = NoManifest
  /\ engine = NoBundle /\ store = <<>> /\ torn = {}
  /\ pubs = 0 /\ faults = 0 /\ restarts = 0 /\ signed = {} /\ spoilt = FALSE /\ unactivated = {}
-----------------------------------------------------------------------------
(* The publisher: one file, then the other.                                *)
WriteBundle(b) ==
  /\ src' = [src EXCEPT !.content = b, !.tag = pubs + 1]
  /\ pubs' = pubs + 1 /\ UNCHANGED signed

WriteSig(s) ==
  /\ src' = [src EXCEPT !.sig = s]
  /\ signed' = IF s.key \in TrustedKeys THEN signed \cup {s.of} ELSE signed
  /\ UNCHANGED pubs

PublishFirst(b, k) ==
  LET s == [of |-> b, key |-> k]
  IN  /\ half = NoHalf /\ pubs < MaxPublications
      /\ half' = [content |-> b, sig |-> s]
      /\ IF sigFirst THEN WriteSig(s) ELSE WriteBundle(b)
      /\ UNCHANGED <<isFile, sigFirst, loader, engine, store, torn, faults,
                     restarts, spoilt, unactivated>>

PublishSecond ==
  /\ half # NoHalf
  /\ half' = NoHalf
  /\ IF sigFirst THEN WriteBundle(half.content) ELSE WriteSig(half.sig)
  /\ UNCHANGED <<isFile, sigFirst, loader, engine, store, torn, faults,
                 restarts, spoilt, unactivated>>
-----------------------------------------------------------------------------
(* ActivationFSM.  The loader's goroutine is the only one that moves it:   *)
(* Transition(from, to) finds from whenever the previous step left it.     *)
Transition(from, to) == fsm = from /\ fsm' = to

rest == <<source, restarts>>

(* rollback: the previous bundle, if there is one, is still in the engine. *)
rollback ==
  /\ fsm' = IF current = NoManifest THEN "deny_all" ELSE "idle"
  /\ got' = NoBytes
  /\ UNCHANGED <<lastTag, current, engine>>

Fault == faults < MaxFaults /\ faults' = faults + 1

(* The ticker fires (or Start has just been called).                       *)
Poll ==
  /\ fsm \in {"idle", "deny_all"}
  /\ fsm' = "downloading" /\ got' = NoBytes
  /\ UNCHANGED <<rest, lastTag, current, engine, store, torn, faults, spoilt, unactivated>>

(* The fetch fails, is not found, or is not newer: the attempt ends.       *)
EndFetch ==
  /\ fsm' = "idle" /\ got' = NoBytes
  /\ UNCHANGED <<rest, lastTag, current, engine, store, torn, spoilt, unactivated>>

unchangedSource == src.content = NoBundle \/ (lastTag # 0 /\ src.tag <= lastTag)

FetchNothing ==
  /\ fsm = "downloading" /\ got.at = "stat" /\ unchangedSource
  /\ EndFetch /\ UNCHANGED faults

FetchFails == fsm = "downloading" /\ got.at # "done" /\ Fault /\ EndFetch

fetching == <<rest, fsm, current, engine, store, torn, unactivated>>

(* fetchFile looks at the modification time before it reads the file; the  *)
(* body and the ETag of a response belong together.                        *)
Stat ==
  /\ fsm = "downloading" /\ got.at = "stat" /\ ~ unchangedSource
  /\ got' = IF isFile THEN [got EXCEPT !.at = "read", !.tag = src.tag]
            ELSE [got EXCEPT !.at = "sig", !.tag = src.tag, !.content = src.content]
  /\ UNCHANGED <<fetching, lastTag, faults, spoilt>>

Read ==
  /\ fsm = "downloading" /\ got.at = "read"
  /\ got' = [got EXCEPT !.at = "sig", !.content = src.content]
  /\ UNCHANGED <<fetching, lastTag, faults, spoilt>>

(* Mutant: what is remembered is the source as it is when both files have  *)
(* been read.                                                              *)
ReadSigLate ==
  /\ fsm = "downloading" /\ got.at = "sig"
  /\ got' = [got EXCEPT !.at = "done", !.sig = src.sig]
  /\ lastTag' = src.tag /\ spoilt' = FALSE
  /\ UNCHANGED <<fetching, faults>>

(* The tag is remembered before anything is known about the content.       *)
ReadSig ==
  /\ fsm = "downloading" /\ got.at = "sig"
  /\ got' = [got EXCEPT !.at = "done", !.sig = src.sig]
  /\ lastTag' = got.tag /\ spoilt' = FALSE
  /\ UNCHANGED <<fetching, faults>>

(* fetchHTTP does not look at the status of the answer that carries the    *)
(* signature: an error page is taken for one.                              *)
ReadErrorPage ==
  /\ fsm = "downloading" /\ got.at = "sig" /\ ~ isFile /\ Fault
  /\ got' = [got EXCEPT !.at = "done"]
  /\ lastTag' = got.tag /\ spoilt' = TRUE
  /\ UNCHANGED fetching
-----------------------------------------------------------------------------
(* Mutant: the signature only has to be some signature of a trusted key.   *)
VerifyAnyContent(content, sig) == \E k \in TrustedKeys : sig.key = k

(* KeySource.Verify over the digest of the content, under any key.         *)
Verify(content, sig) == \E k \in TrustedKeys : sig = [of |-> content, key |-> k]

attempt == <<rest, lastTag, current, engine, got, spoilt>>

VerifySignature ==
  /\ fsm = "downloading" /\ got.at = "done"
  /\ IF Verify(got.content, got.sig)
     THEN Transition("downloading", "verifying") /\ UNCHANGED <<got, lastTag, current, engine>>
     ELSE rollback
  /\ UNCHANGED <<rest, store, torn, faults, spoilt, unactivated>>

(* The stored bundles other than b, which is stored once if at all.        *)
Others(s, b) ==
  IF b \in ToSet(s) THEN RemoveAt(s, CHOOSE i \in DOMAIN s : s[i] = b) ELSE s

(* save writes the archive, the signature and the manifest of the entry,   *)
(* in place when it is there already.                                      *)
save(b) ==
  /\ store' = Append(Others(store, b), b)
  /\ torn' = torn \ {b}
  /\ unactivated' = unactivated \cup {b}

(* It fails on the way: the entry keeps the manifest it had, if any.       *)
saveFails(b) == torn' = torn \cup {b} /\ UNCHANGED <<store, unactivated>>

Extract ==
  /\ fsm = "verifying"
  /\ \/ /\ Quality[got.content] = "extract"
        /\ rollback /\ UNCHANGED <<store, torn, faults, spoilt, unactivated>>
     \/ /\ Quality[got.content] # "extract"
        /\ Transition("verifying", "staging")
        /\ save(got.content)
        /\ UNCHANGED <<got, lastTag, current, engine, faults, spoilt>>
     \/ /\ Quality[got.content] # "extract" /\ Fault
        /\ Transition("verifying", "staging")
        /\ saveFails(got.content)
        /\ UNCHANGED <<got, lastTag, current, engine, spoilt>>
  /\ UNCHANGED rest

(* No temporary directory, or the walk of the extracted files fails.       *)
StageFails ==
  /\ fsm \in {"verifying", "staging"} /\ Fault
  /\ rollback
  /\ spoilt' = TRUE
  /\ UNCHANGED <<rest, store, torn, unactivated>>

(* compile cannot fail on what the files hold: files that do not parse are *)
(* left out.  See PolicyIndex for the order of the bindings.               *)
Compile ==
  /\ Transition("staging", "compiling")
  /\ UNCHANGED <<attempt, store, torn, faults, unactivated>>

HealthCheck ==
  /\ fsm = "compiling"
  /\ IF Quality[got.content] = "health" THEN rollback
     ELSE Transition("compiling", "health_checking") /\ UNCHANGED <<got, lastTag, current, engine>>
  /\ UNCHANGED <<rest, store, torn, faults, spoilt, unactivated>>

(* Mutant: the bundle just stored is the first to go.                      *)
collectNewest(s) == IF Len(s) <= KeepCount THEN s ELSE SubSeq(s, 1, KeepCount)

(* gc keeps the KeepCount entries that were stored last.                   *)
gc(s) == IF Len(s) <= KeepCount THEN s ELSE SubSeq(s, Len(s) - KeepCount + 1, Len(s))

(* engine.Reload, which refuses a bundle that does not compile to CEL.     *)
Activate ==
  /\ fsm = "health_checking"
  /\ IF Quality[got.content] = "reload" THEN rollback
     ELSE /\ fsm' = "activating" /\ engine' = got.content
          /\ UNCHANGED <<got, lastTag, current>>
  /\ UNCHANGED <<rest, store, torn, faults, spoilt, unactivated>>

(* The store is collected and the bundle remembered.                       *)
Remember ==
  /\ Transition("activating", "idle")
  /\ store' = gc(store) /\ unactivated' = {}
  /\ current' = [hash |-> got.content, version |-> current.version + 1]
  /\ got' = NoBytes
  /\ UNCHANGED <<rest, lastTag, engine, torn, faults, spoilt>>

(* The process ends, inside a save perhaps, and is started again: the      *)
(* engine has only what the daemon itself loads.                           *)
Restart ==
  /\ restarts < MaxRestarts
  /\ restarts' = restarts + 1
  /\ IF fsm = "verifying" /\ Quality[got.content] # "extract"
     THEN saveFails(got.content) \/ UNCHANGED <<store, torn, unactivated>>
     ELSE UNCHANGED <<store, torn, unactivated>>
  /\ fsm' = "idle" /\ got' = NoBytes /\ lastTag' = 0 /\ current' = NoManifest
  /\ engine' = NoBundle /\ spoilt' = FALSE
  /\ UNCHANGED <<source, faults>>

tryActivate ==
  \/ Poll \/ FetchNothing \/ Stat \/ Read \/ ReadSig \/ VerifySignature
  \/ Extract \/ Compile \/ HealthCheck \/ Activate \/ Remember

LoaderNext ==
  \/ tryActivate
  \/ \E b \in Bundles, k \in Keys : PublishFirst(b, k)
  \/ PublishSecond \/ FetchFails \/ ReadErrorPage \/ StageFails \/ Restart

(* The ticker fires, file operations return and HTTP requests end by their *)
(* time limit.                                                             *)
LoaderSpec == LoaderInit /\ [][LoaderNext]_loaderVars /\ WF_loaderVars(tryActivate)
-----------------------------------------------------------------------------
(* What `nixis bundle rollback` (cmd/nixis/bundle.go) asks the daemon for: *)
(* the entry before the newest of those with a manifest.                   *)
rollbackTarget == store[Len(store) - 1]

(* Whatever the order in which publisher and loader touch the two files,   *)
(* the engine only runs, and the store only holds, bundles somebody signed *)
(* with a trusted key, and the engine none that a later gate refuses; the  *)
(* loader denies all only while no bundle is live, and at rest it knows    *)
(* which one is live, whatever failed (loader.go 189, 236, 248, 428-439).  *)
VerifiedOnly ==
  /\ \A b \in ToSet(store) : b \in signed
  /\ engine # NoBundle => engine \in signed /\ Quality[engine] = "good"
  /\ fsm = "deny_all" => engine = NoBundle
  /\ fsm \in {"idle", "deny_all"} => current.hash = engine

(* The store exceeds KeepCount by no more than the bundles saved since the *)
(* last activation, never loses the bundle that is live, and, with nothing *)
(* saved since that one was activated, a rollback asks for another bundle  *)
(* than the live one (store.go 69, 106, cmd/nixis/bundle.go 229).          *)
StoreSound ==
  /\ Len(store) <= KeepCount + Cardinality(unactivated)
  /\ engine # NoBundle =>
       /\ engine \in ToSet(store) \cup torn
       /\ unactivated = {} /\ torn = {} /\ Len(store) > 1 => rollbackTarget # engine

(* What is said of the policies alone is evaluated once, in the first      *)
(* state: they are asked in the right order, none is left out, and a       *)
(* denial is not taken back (SelectsExactly, HonoursDeny).                 *)
SelectionExact == LoaderInit =>
  \A ms \in PolicyLists, tool \in ToolNames, session \in SessionIds :
    SelectsExactly(ms, tool, session)
DenyHonoured == LoaderInit =>
  \A ms \in PolicyLists, tool \in ToolNames, session \in SessionIds, effects \in EffectSets :
    HonoursDeny(ms, tool, session, effects)

(* A good bundle published last, signature first, is live in the end: no   *)
(* interleaving of the two replacements with the reads loses it, although  *)
(* the tag is remembered before the bundle is verified (loader.go 287,     *)
(* 307).  An attempt spoilt by a fault after the fetch is the exception.   *)
(* Published bundle first, it may be lost for good.                        *)
LastPublicationLive ==
  <>[](/\ sigFirst /\ half = NoHalf /\ Verify(src.content, src.sig)
       /\ Quality[src.content] = "good" /\ ~ spoilt
       => engine = src.content)
=============================================================================
