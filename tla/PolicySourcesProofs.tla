------------------------ MODULE PolicySourcesProofs -------------------------
(* The two ways policies reach the engine: the directory that the daemon   *)
(* watches (PolicyReload) and the bundles it polls for (BundleLoader).     *)
EXTENDS PolicyReload, BundleLoader, SequenceTheorems, FiniteSetTheorems,
        WellFoundedInduction, TLAPS

Steps == {"idle", "parse", "build"}

(* What the locals of the reloads and the snapshot are.                    *)
ReloadTypes ==
  /\ disk \in [Files -> Content]
  /\ parsed \in [Goroutines -> [Files -> Content]]
  /\ snap.src \in [Files -> Content]
  /\ pc \in [Goroutines -> Steps]
  /\ at \in [Goroutines -> Nat \ {0}]

HistoryTypes == events \in Nat /\ edits \in Nat /\ watched \in Nat /\ watched <= edits

(* A reload starts at the first file, and builds after the last.           *)
Positions ==
  \A g \in Goroutines : /\ pc[g] = "idle" => at[g] = 1
                        /\ pc[g] = "build" => at[g] > NFiles

(* The last edit was seen by the watcher, its event led to a timer that    *)
(* has fired, and no reload has met another since the last one began.      *)
Caught == watched = edits /\ events = 0 /\ timer = FALSE /\ overlapped = FALSE

(* Then what a reload in progress has read is what is on disk, and what    *)
(* the last one that finished has loaded is too.                           *)
CaughtUp ==
  Caught =>
    /\ \A g \in Goroutines : pc[g] # "idle" =>
         \A f \in Files : f < at[g] => parsed[g][f] = disk[f]
    /\ (\A g \in Goroutines : pc[g] = "idle") /\ failed = FALSE => snap.src = disk

ReloadInv == ReloadTypes /\ HistoryTypes /\ Positions /\ DenyNeverSkipped /\ CaughtUp

LEMMA NothingType == Nothing \in [Files -> Content]
  BY ReloadAssumption DEF Nothing, Content, AllKinds

LEMMA ReloadInit == Init => ReloadInv
<1> SUFFICES ASSUME Init PROVE ReloadInv
  OBVIOUS
<1>1. ReloadTypes
  <2>1. disk \in [Files -> Content]
    BY ReloadAssumption DEF Init, Content, AllKinds
  <2>2. parsed \in [Goroutines -> [Files -> Content]] /\ snap.src \in [Files -> Content]
    BY NothingType DEF Init
  <2>3. pc \in [Goroutines -> Steps] /\ at \in [Goroutines -> Nat \ {0}]
    BY DEF Init, Steps
  <2> QED BY <2>1, <2>2, <2>3 DEF ReloadTypes
<1>2. HistoryTypes
  BY DEF Init, HistoryTypes
<1>3. Positions
  BY DEF Init, Positions
<1>4. DenyNeverSkipped
  BY DEF Init, DenyNeverSkipped, Nothing
<1>5. CaughtUp
  <2>1. pc[Main] # "idle" /\ Main \in Goroutines
    BY DEF Init, Goroutines
  <2>2. \A g \in Goroutines, f \in Files : ~ f < at[g]
    BY ReloadAssumption DEF Init, Files
  <2> QED BY <2>1, <2>2 DEF CaughtUp
<1> QED BY <1>1, <1>2, <1>3, <1>4, <1>5 DEF ReloadInv

(* An edit is either seen, and then its event is waiting, or leaves        *)
(* watched behind.                                                         *)
LEMMA EditKeeps ==
  ASSUME ReloadInv, NEW f \in Files, NEW k \in Kinds, NEW how \in Hows, Edit(f, k, how)
  PROVE  ReloadInv'
<1> USE DEF ReloadInv
<1>1. ReloadTypes'
  <2>1. [kind |-> k, rev |-> edits + 1] \in Content
    BY ReloadAssumption DEF Edit, Content, HistoryTypes
  <2>2. disk' \in [Files -> Content]
    BY <2>1 DEF Edit, ReloadTypes
  <2> QED BY <2>2 DEF Edit, runVars, ReloadTypes
<1>2. HistoryTypes'
  BY DEF Edit, HistoryTypes
<1>3. Positions'
  BY DEF Edit, runVars, Positions
<1>4. DenyNeverSkipped'
  BY DEF Edit, runVars, DenyNeverSkipped
<1>5. CaughtUp'
  <2>1. ~ Caught'
    <3>1. CASE events' = events + 1
      BY <3>1 DEF HistoryTypes, Caught
    <3>2. CASE watched' = watched /\ edits' = edits + 1
      BY <3>2 DEF HistoryTypes, Caught
    <3> QED BY <3>1, <3>2 DEF Edit
  <2> QED BY <2>1 DEF CaughtUp
<1> QED BY <1>1, <1>2, <1>3, <1>4, <1>5

(* A reload that begins with no other in progress has read nothing yet.    *)
LEMMA BeginKeeps ==
  ASSUME ReloadInv, NEW g \in Goroutines, BeginReload(g)
  PROVE  ReloadInv'
<1> USE DEF ReloadInv
<1>1. ReloadTypes'
  BY DEF BeginReload, fsVars, ReloadTypes, Steps
<1>2. HistoryTypes'
  BY DEF BeginReload, fsVars, HistoryTypes
<1>3. Positions'
  BY DEF BeginReload, Positions, ReloadTypes
<1>4. DenyNeverSkipped'
  BY DEF BeginReload, DenyNeverSkipped
<1>5. CaughtUp'
  <2>1. pc'[g] = "parse" /\ at'[g] = 1
    BY DEF BeginReload, Positions, ReloadTypes
  <2>2. ASSUME Caught', NEW h \in Goroutines, pc'[h] # "idle", NEW f \in Files, f < at'[h]
        PROVE  FALSE
    <3>1. h = g
      BY <2>2 DEF BeginReload, Caught, ReloadTypes
    <3> QED BY <2>1, <2>2, <3>1, ReloadAssumption DEF Files
  <2> QED BY <2>1, <2>2 DEF CaughtUp
<1> QED BY <1>1, <1>2, <1>3, <1>4, <1>5

(* The file read now is the one on disk now.                               *)
LEMMA ParseKeeps ==
  ASSUME ReloadInv, NEW g \in Goroutines, ParseFile(g)
  PROVE  ReloadInv'
<1> USE DEF ReloadInv
<1> DEFINE n == at[g]
           read == [parsed[g] EXCEPT ![n] = disk[n]]
<1>0. n \in Files
  BY ReloadAssumption DEF ParseFile, Files, ReloadTypes
<1>1. read \in [Files -> Content]
  BY <1>0 DEF ReloadTypes
<1>2. parsed' = [parsed EXCEPT ![g] = read]
  BY DEF ParseFile
<1> HIDE DEF read
<1>3. ReloadTypes'
  <2>1. parsed' \in [Goroutines -> [Files -> Content]]
    BY <1>1, <1>2 DEF ReloadTypes
  <2>2. at' \in [Goroutines -> Nat \ {0}]
    BY DEF ReloadTypes, ParseFile
  <2> QED BY <2>1, <2>2 DEF ParseFile, ReloadTypes, fsVars
<1>4. HistoryTypes'
  BY DEF ParseFile, fsVars, HistoryTypes
<1>5. Positions'
  BY DEF ParseFile, Positions, ReloadTypes
<1>6. DenyNeverSkipped'
  BY DEF ParseFile, DenyNeverSkipped
<1>7. CaughtUp'
  <2>1. Caught' => Caught
    BY DEF ParseFile, fsVars, Caught
  <2>2. disk' = disk /\ pc' = pc /\ snap' = snap /\ failed' = failed
    BY DEF ParseFile, fsVars
  <2>3. ASSUME Caught', NEW h \in Goroutines, pc'[h] # "idle", NEW f \in Files, f < at'[h]
        PROVE  parsed'[h][f] = disk'[f]
    <3>1. CASE h # g
      <4>1. parsed'[h] = parsed[h] /\ at'[h] = at[h]
        BY <1>2, <3>1 DEF ParseFile, ReloadTypes
      <4> QED BY <4>1, <2>1, <2>2, <2>3 DEF CaughtUp
    <3>2. CASE h = g
      <4>1. parsed'[g] = read /\ at'[g] = n + 1
        BY <1>2 DEF ParseFile, ReloadTypes
      <4>2. CASE f = n
        BY <4>1, <4>2, <2>2, <3>2, <1>0 DEF read, ReloadTypes
      <4>3. CASE f # n
        <5>1. f < n
          BY <4>1, <4>3, <2>3, <3>2, <1>0 DEF Files
        <5>2. parsed[g][f] = disk[f]
          BY <5>1, <2>1, <2>2, <2>3, <3>2 DEF CaughtUp
        <5> QED BY <4>1, <4>3, <5>2, <2>2, <3>2, <1>0 DEF read, ReloadTypes
      <4> QED BY <4>2, <4>3
    <3> QED BY <3>1, <3>2
  <2> QED BY <2>1, <2>2, <2>3 DEF CaughtUp
<1> QED BY <1>3, <1>4, <1>5, <1>6, <1>7

LEMMA LockKeeps ==
  ASSUME ReloadInv, NEW g \in Goroutines, Lock(g)
  PROVE  ReloadInv'
<1> USE DEF ReloadInv
<1>1. ReloadTypes'
  BY DEF Lock, fsVars, ReloadTypes, Steps
<1>2. HistoryTypes'
  BY DEF Lock, fsVars, HistoryTypes
<1>3. Positions'
  BY DEF Lock, Positions, ReloadTypes
<1>4. DenyNeverSkipped'
  BY DEF Lock, DenyNeverSkipped
<1>5. CaughtUp'
  <2>1. Caught' => Caught
    BY DEF Lock, fsVars, Caught
  <2>2. disk' = disk /\ parsed' = parsed /\ at' = at
    BY DEF Lock, fsVars
  <2>3. pc'[g] = "build" /\ \A h \in Goroutines : pc'[h] # "idle" => pc[h] # "idle"
    BY DEF Lock, ReloadTypes
  <2> QED BY <2>1, <2>2, <2>3 DEF CaughtUp
<1> QED BY <1>1, <1>2, <1>3, <1>4, <1>5

(* Whether the reload failed or not, only what it loads is new.            *)
LEMMA FinishKeeps ==
  ASSUME ReloadInv, NEW g \in Goroutines, NEW ok \in BOOLEAN, Finish(g, ok),
         UNCHANGED <<fsVars, timer, overlapped>>,
         snap'.src \in [Files -> Content], DenyNeverSkipped',
         Caught /\ ok = TRUE => snap'.src = disk
  PROVE  ReloadInv'
<1> USE DEF ReloadInv
<1>1. ReloadTypes'
  BY NothingType DEF Finish, fsVars, ReloadTypes, Steps
<1>2. HistoryTypes'
  BY DEF fsVars, HistoryTypes
<1>3. Positions'
  BY DEF Finish, Positions, ReloadTypes
<1>4. CaughtUp'
  <2>1. Caught' => Caught
    BY DEF fsVars, Caught
  <2>2. disk' = disk
    BY DEF fsVars
  <2>3. \A h \in Goroutines : pc'[h] # "idle" =>
          h # g /\ pc'[h] = pc[h] /\ at'[h] = at[h] /\ parsed'[h] = parsed[h]
    BY DEF Finish, ReloadTypes
  <2>4. failed' = FALSE => ok = TRUE
    BY DEF Finish
  <2> QED BY <2>1, <2>2, <2>3, <2>4 DEF CaughtUp
<1> QED BY <1>1, <1>2, <1>3, <1>4

LEMMA WalkFailsKeeps ==
  ASSUME ReloadInv, NEW g \in Goroutines, WalkFails(g)
  PROVE  ReloadInv'
<1>1. snap'.src \in [Files -> Content] /\ DenyNeverSkipped'
  BY DEF WalkFails, ReloadInv, ReloadTypes, DenyNeverSkipped
<1>2. Finish(g, FALSE) /\ UNCHANGED <<fsVars, timer, overlapped>>
  BY DEF WalkFails
<1> QED BY <1>1, <1>2, FinishKeeps

LEMMA BuildKeeps ==
  ASSUME ReloadInv, NEW g \in Goroutines, Build(g)
  PROVE  ReloadInv'
<1> DEFINE ok == Buildable(parsed[g])
<1>1. ok \in BOOLEAN
  BY DEF Buildable
<1>2. Finish(g, ok) /\ UNCHANGED <<fsVars, timer, overlapped>>
  BY DEF Build
<1>3. snap'.src = IF ok THEN parsed[g] ELSE snap.src
  BY DEF Build
<1>4. snap'.src \in [Files -> Content]
  BY <1>3 DEF ReloadInv, ReloadTypes
<1>5. DenyNeverSkipped'
  BY <1>3 DEF ReloadInv, DenyNeverSkipped, Buildable
<1>6. Caught /\ ok = TRUE => snap'.src = disk
  <2> SUFFICES ASSUME Caught, ok = TRUE PROVE parsed[g] = disk
    BY <1>3
  <2>1. pc[g] = "build" /\ at[g] > NFiles
    BY DEF Build, ReloadInv, Positions
  <2>2. \A f \in Files : f < at[g]
    <3>1. at[g] \in Nat /\ NFiles \in Nat
      BY ReloadAssumption DEF ReloadInv, ReloadTypes
    <3> QED BY <2>1, <3>1 DEF Files
  <2>3. \A f \in Files : parsed[g][f] = disk[f]
    <3>1. \A f \in Files : f < at[g] => parsed[g][f] = disk[f]
      BY <2>1 DEF ReloadInv, CaughtUp
    <3> QED BY <2>2, <3>1
  <2> QED BY <2>3 DEF ReloadInv, ReloadTypes
<1> HIDE DEF ok
<1> QED BY <1>1, <1>2, <1>4, <1>5, <1>6, FinishKeeps

LEMMA ReloadStep == ReloadInv /\ [Next]_vars => ReloadInv'
<1> SUFFICES ASSUME ReloadInv, [Next]_vars PROVE ReloadInv'
  OBVIOUS
<1>1. ASSUME NEW f \in Files, NEW k \in Kinds, NEW how \in Hows, Edit(f, k, how)
      PROVE  ReloadInv'
  BY <1>1, EditKeeps
<1>2. CASE StartWatch
  <2>1. UNCHANGED <<fsVars, runVars, timer, overlapped>>
    BY <1>2 DEF StartWatch
  <2> QED BY <2>1 DEF fsVars, runVars, ReloadInv, ReloadTypes, HistoryTypes, Positions,
                      DenyNeverSkipped, CaughtUp, Caught
<1>3. CASE HandleEvent
  <2>1. ReloadTypes' /\ Positions' /\ DenyNeverSkipped'
    BY <1>3 DEF HandleEvent, runVars, ReloadInv, ReloadTypes, Positions, DenyNeverSkipped
  <2>2. HistoryTypes'
    BY <1>3 DEF HandleEvent, ReloadInv, HistoryTypes
  <2>3. CaughtUp'
    BY <1>3 DEF HandleEvent, CaughtUp, Caught
  <2> QED BY <2>1, <2>2, <2>3 DEF ReloadInv
<1>4. ASSUME NEW g \in Timers, TimerFires(g) \/ handleReload(g)
      PROVE  ReloadInv'
  BY <1>4, BeginKeeps DEF TimerFires, handleReload, Goroutines
<1>5. ASSUME NEW g \in Goroutines, Reload(g)
      PROVE  ReloadInv'
  BY <1>5, ParseKeeps, WalkFailsKeeps, LockKeeps, BuildKeeps DEF Reload
<1>6. CASE UNCHANGED vars
  BY <1>6 DEF vars, fsVars, runVars, ReloadInv, ReloadTypes, HistoryTypes, Positions,
              DenyNeverSkipped, CaughtUp, Caught
<1> QED BY <1>1, <1>2, <1>3, <1>4, <1>5, <1>6 DEF Next

(* Whatever is edited while however many reloads run, no snapshot is ever  *)
(* active from which a DENY policy was left out (engine.go, Reload).       *)
THEOREM DenyNeverSkippedHolds == Spec => []DenyNeverSkipped
<1>1. ReloadInv => DenyNeverSkipped
  BY DEF ReloadInv
<1> QED BY <1>1, ReloadInit, ReloadStep, PTL DEF Spec

(* With nothing under way and a last reload that met no other and did not  *)
(* fail, the active policies are those on disk, for any number of files,   *)
(* edits, timers and posts (watcher.go, engine.go).                        *)
THEOREM ConvergesAloneHolds == Spec => []ConvergesAlone
<1>1. ReloadInv => ConvergesAlone
  <2> SUFFICES ASSUME ReloadInv, Quiet, ~ overlapped, ~ failed, watched = edits
               PROVE  Active(snap.src) = Active(disk)
    BY DEF ConvergesAlone
  <2>1. snap.src = disk
    BY DEF ReloadInv, CaughtUp, Caught, Quiet
  <2> QED BY <2>1
<1> QED BY <1>1, ReloadInit, ReloadStep, PTL DEF Spec
-----------------------------------------------------------------------------
(* The bundle loader.                                                      *)
States == {"idle", "downloading", "deny_all", "verifying", "staging", "compiling",
           "health_checking", "activating"}
Staged == {"staging", "compiling", "health_checking", "activating"}
Pair == [content : Bundles, sig : [of : Bundles, key : Keys]]

LoaderTypes ==
  /\ src \in [content : Bundles \cup {NoBundle}, tag : Nat, sig : Signatures]
  /\ got \in [at : {"stat", "read", "sig", "done"}, content : Bundles \cup {NoBundle},
              sig : Signatures, tag : Nat]
  /\ half = NoHalf \/ half \in Pair
  /\ current \in [hash : Bundles \cup {NoBundle}, version : Nat]
  /\ pubs \in Nat /\ signed \subseteq Bundles /\ store \in Seq(Bundles)
  /\ IsFiniteSet(unactivated)

(* A signature that verifies, wherever it is, was published.               *)
Published ==
  /\ src.sig.key \in TrustedKeys => src.sig.of \in signed
  /\ got.sig.key \in TrustedKeys => got.sig.of \in signed

Newest(b) == Len(store) > 0 /\ store[Len(store)] = b

(* What each state of the machine knows of the bundle it works on.         *)
Gates ==
  /\ fsm \in Staged \cup {"verifying"} => got.content \in signed
  /\ fsm \in Staged => /\ Quality[got.content] # "extract"
                       /\ got.content \in torn \/ Newest(got.content)
  /\ fsm \in {"health_checking", "activating"} => Quality[got.content] # "health"
  /\ fsm = "activating" => engine = got.content

(* What is known of the bundle that is live.                               *)
Live ==
  /\ engine # NoBundle =>
       /\ engine \in signed /\ Quality[engine] = "good"
       /\ engine \in ToSet(store) \cup torn
       /\ unactivated = {} => engine \in torn \/ Newest(engine)
  /\ fsm # "activating" => current.hash = engine
  /\ fsm = "deny_all" => engine = NoBundle

Distinct(s) == \A i, j \in DOMAIN s : s[i] = s[j] => i = j

(* What is known of the bundles that are stored.                           *)
Shelf ==
  /\ ToSet(store) \subseteq signed
  /\ Distinct(store)
  /\ unactivated \subseteq ToSet(store)
  /\ Len(store) <= KeepCount + Cardinality(unactivated)

LoaderInv == LoaderTypes /\ Published /\ Gates /\ Live /\ Shelf

(* Storing a bundle again only moves it to the end.                        *)
LEMMA OthersProperties ==
  ASSUME NEW s \in Seq(Bundles), Distinct(s), NEW b \in Bundles
  PROVE  /\ Others(s, b) \in Seq(Bundles)
         /\ Distinct(Others(s, b))
         /\ ToSet(Others(s, b)) = ToSet(s) \ {b}
         /\ Len(Others(s, b)) = IF b \in ToSet(s) THEN Len(s) - 1 ELSE Len(s)
<1>1. CASE b \notin ToSet(s)
  BY <1>1 DEF Others, ToSet
<1>2. CASE b \in ToSet(s)
  <2> DEFINE n == CHOOSE i \in DOMAIN s : s[i] = b
             t == RemoveAt(s, n)
  <2>1. n \in 1 .. Len(s) /\ s[n] = b
    BY <1>2 DEF ToSet
  <2>2. Others(s, b) = t
    BY <1>2 DEF Others
  <2> HIDE DEF n
  <2> DEFINE u == SubSeq(s, 1, n - 1)
             v == SubSeq(s, n + 1, Len(s))
  <2>7. u \in Seq(Bundles) /\ Len(u) = n - 1 /\ \A j \in 1 .. n - 1 : u[j] = s[j]
    BY <2>1
  <2>8. v \in Seq(Bundles) /\ Len(v) = Len(s) - n /\ \A j \in 1 .. Len(s) - n : v[j] = s[n + j]
    BY <2>1
  <2>9. t = u \o v
    BY DEF RemoveAt
  <2> HIDE DEF u, v, t
  <2>3. t \in Seq(Bundles) /\ Len(t) = Len(s) - 1
    <3>1. t \in Seq(Bundles) /\ Len(t) = Len(u) + Len(v)
      BY <2>7, <2>8, <2>9, ConcatProperties
    <3>2. n - 1 + (Len(s) - n) = Len(s) - 1
      BY <2>1
    <3> QED BY <3>1, <3>2, <2>7, <2>8
  <2>4. \A i \in 1 .. Len(s) - 1 : t[i] = IF i < n THEN s[i] ELSE s[i + 1]
    <3> TAKE i \in 1 .. Len(s) - 1
    <3>1. CASE i < n
      BY <3>1, <2>7, <2>8, <2>9, <2>1
    <3>2. CASE ~ i < n
      <4>1. i - (n - 1) \in 1 .. Len(s) - n /\ n + (i - (n - 1)) = i + 1
        BY <3>2, <2>1
      <4>2. \A j \in 1 .. Len(v) : (u \o v)[Len(u) + j] = v[j]
        BY <2>7, <2>8
      <4>3. t[Len(u) + (i - (n - 1))] = v[i - (n - 1)]
        BY <4>1, <4>2, <2>8, <2>9
      <4>4. Len(u) + (i - (n - 1)) = i
        BY <2>7, <2>1
      <4> QED BY <4>1, <4>3, <4>4, <2>8, <3>2
    <3> QED BY <3>1, <3>2
  <2>5. Distinct(t)
    <3> SUFFICES ASSUME NEW i \in 1 .. Len(t), NEW j \in 1 .. Len(t), t[i] = t[j] PROVE i = j
      BY <2>3 DEF Distinct
    <3> DEFINE p == IF i < n THEN i ELSE i + 1
               q == IF j < n THEN j ELSE j + 1
    <3>1. p \in DOMAIN s /\ q \in DOMAIN s
      BY <2>1, <2>3
    <3>3. t[i] = s[p] /\ t[j] = s[q]
      BY <2>3, <2>4
    <3>2. p = q
      BY <3>1, <3>3 DEF Distinct
    <3> QED BY <3>2, <2>1, <2>3
  <2>6. ToSet(t) = ToSet(s) \ {b}
    <3>1. ASSUME NEW i \in DOMAIN t PROVE t[i] \in ToSet(s) \ {b}
      <4> DEFINE p == IF i < n THEN i ELSE i + 1
      <4>1. p \in DOMAIN s /\ n \in DOMAIN s /\ p # n /\ t[i] = s[p]
        BY <2>1, <2>3, <2>4
      <4>2. s[p] # s[n]
        BY <4>1 DEF Distinct
      <4> QED BY <4>1, <4>2, <2>1 DEF ToSet
    <3>2. ASSUME NEW j \in DOMAIN s, s[j] # b PROVE s[j] \in ToSet(t)
      <4> DEFINE i == IF j < n THEN j ELSE j - 1
      <4>1. j # n
        BY <3>2, <2>1
      <4>2. i \in DOMAIN t /\ t[i] = s[j]
        BY <4>1, <2>1, <2>3, <2>4
      <4> QED BY <4>2 DEF ToSet
    <3> QED BY <3>1, <3>2 DEF ToSet
  <2> QED BY <1>2, <2>2, <2>3, <2>5, <2>6
<1> QED BY <1>1, <1>2

(* What a save leaves in the store.                                        *)
LEMMA SaveProperties ==
  ASSUME NEW s \in Seq(Bundles), Distinct(s), NEW b \in Bundles, NEW t,
         t = Append(Others(s, b), b)
  PROVE  /\ t \in Seq(Bundles)
         /\ Distinct(t)
         /\ ToSet(t) = ToSet(s) \cup {b}
         /\ Len(t) > 0 /\ t[Len(t)] = b
         /\ Len(t) = IF b \in ToSet(s) THEN Len(s) ELSE Len(s) + 1
<1> DEFINE o == Others(s, b)
<1>1. o \in Seq(Bundles) /\ Distinct(o) /\ ToSet(o) = ToSet(s) \ {b}
      /\ Len(o) = IF b \in ToSet(s) THEN Len(s) - 1 ELSE Len(s)
  BY OthersProperties
<1> HIDE DEF o
<1>2. t \in Seq(Bundles) /\ Len(t) = Len(o) + 1 /\ t[Len(t)] = b
      /\ \A i \in 1 .. Len(o) : t[i] = o[i]
  BY <1>1 DEF o
<1>3. b \notin ToSet(o)
  BY <1>1
<1>4. \A i \in 1 .. Len(o) : o[i] # b
  BY <1>1, <1>3 DEF ToSet
<1>5. Distinct(t)
  BY <1>1, <1>2, <1>4 DEF Distinct
<1>6. ToSet(t) = ToSet(o) \cup {b}
  <2>1. DOMAIN t = (1 .. Len(o)) \cup {Len(t)} /\ DOMAIN o = 1 .. Len(o)
    BY <1>1, <1>2
  <2> QED BY <1>2, <2>1 DEF ToSet
<1> QED BY <1>1, <1>2, <1>5, <1>6

(* What gc leaves there.                                                   *)
LEMMA GcProperties ==
  ASSUME NEW s \in Seq(Bundles), Distinct(s)
  PROVE  /\ gc(s) \in Seq(Bundles)
         /\ Distinct(gc(s))
         /\ ToSet(gc(s)) \subseteq ToSet(s)
         /\ Len(gc(s)) <= KeepCount
         /\ Len(s) > 0 => Len(gc(s)) > 0 /\ gc(s)[Len(gc(s))] = s[Len(s)]
<1>1. CASE Len(s) <= KeepCount
  BY <1>1 DEF gc
<1>2. CASE Len(s) > KeepCount
  <2> DEFINE d == Len(s) - KeepCount
             t == gc(s)
  <2>1. d \in Nat /\ KeepCount \in Nat \ {0} /\ t = SubSeq(s, d + 1, Len(s))
    BY <1>2, BundleAssumption DEF gc
  <2>2. t \in Seq(Bundles) /\ Len(t) = KeepCount /\ \A i \in 1 .. KeepCount : t[i] = s[d + i]
    BY <1>2, <2>1
  <2>3. \A i \in 1 .. KeepCount : d + i \in DOMAIN s
    BY <1>2, <2>1
  <2> HIDE DEF t
  <2>4. Distinct(t)
    <3> SUFFICES ASSUME NEW i \in 1 .. KeepCount, NEW j \in 1 .. KeepCount, t[i] = t[j]
                 PROVE  i = j
      BY <2>2 DEF Distinct
    <3>1. d + i = d + j
      BY <2>2, <2>3 DEF Distinct
    <3> QED BY <3>1, <2>1
  <2>5. ToSet(t) \subseteq ToSet(s)
    BY <2>2, <2>3 DEF ToSet
  <2>6. t[Len(t)] = s[Len(s)]
    BY <2>1, <2>2, <1>2
  <2> QED BY <2>1, <2>2, <2>4, <2>5, <2>6 DEF t
<1> QED BY <1>1, <1>2, BundleAssumption

LEMMA LoaderInitInv == LoaderInit => LoaderInv
<1> SUFFICES ASSUME LoaderInit PROVE LoaderInv
  OBVIOUS
<1> USE DEF LoaderInit
<1>1. NoSig \in Signatures /\ NoSig.key \notin TrustedKeys
  BY BundleAssumption DEF NoSig, Signatures
<1>2. LoaderTypes
  <2>1. src \in [content : Bundles \cup {NoBundle}, tag : Nat, sig : Signatures]
    BY <1>1
  <2>2. got \in [at : {"stat", "read", "sig", "done"}, content : Bundles \cup {NoBundle},
                 sig : Signatures, tag : Nat]
    BY <1>1 DEF NoBytes
  <2>3. current \in [hash : Bundles \cup {NoBundle}, version : Nat]
    BY DEF NoManifest
  <2>4. IsFiniteSet(unactivated)
    BY FS_EmptySet
  <2> QED BY <2>1, <2>2, <2>3, <2>4 DEF LoaderTypes
<1>3. Published
  BY <1>1 DEF Published, NoBytes
<1>4. Gates /\ Live
  BY DEF Gates, Live, Staged, NoManifest
<1>5. Shelf
  <2>1. Len(store) = 0 /\ DOMAIN store = {}
    OBVIOUS
  <2>2. Cardinality(unactivated) = 0
    BY FS_EmptySet
  <2> QED BY <2>1, <2>2, BundleAssumption DEF Shelf, Distinct, ToSet
<1> QED BY <1>2, <1>3, <1>4, <1>5 DEF LoaderInv

(* The publisher only adds to what is signed.                              *)
LEMMA PublishKeeps ==
  ASSUME LoaderInv, NEW h \in Pair,
         WriteBundle(h.content) \/ WriteSig(h.sig),
         half' = NoHalf \/ half' \in Pair,
         UNCHANGED <<loader, engine, store, torn, unactivated>>
  PROVE  LoaderInv'
<1> USE DEF LoaderInv, loader
<1>0. h.content \in Bundles /\ h.sig \in [of : Bundles, key : Keys]
  BY DEF Pair
<1>1. h.sig \in Signatures /\ h.sig.of \in Bundles
  BY <1>0 DEF Signatures
<1> HIDE DEF Pair
<1>2. /\ src' \in [content : Bundles \cup {NoBundle}, tag : Nat, sig : Signatures]
      /\ src'.sig.key \in TrustedKeys => src'.sig.of \in signed'
      /\ signed \subseteq signed' /\ signed' \subseteq Bundles /\ pubs' \in Nat
  <2>1. CASE WriteBundle(h.content)
    <3> DEFINE b == h.content
    <3>1. src' = [src EXCEPT !.content = b, !.tag = pubs + 1] /\ pubs' = pubs + 1 /\ signed' = signed
      BY <2>1 DEF WriteBundle
    <3>2. b \in Bundles /\ pubs + 1 \in Nat
      BY <1>0 DEF LoaderTypes
    <3> HIDE DEF b
    <3>3. src' \in [content : Bundles \cup {NoBundle}, tag : Nat, sig : Signatures]
      BY <3>1, <3>2 DEF LoaderTypes
    <3>4. src'.sig = src.sig
      BY <3>1 DEF LoaderTypes
    <3> QED BY <3>1, <3>2, <3>3, <3>4 DEF Published, LoaderTypes
  <2>2. CASE WriteSig(h.sig)
    <3>1. src' = [src EXCEPT !.sig = h.sig] /\ src'.sig = h.sig
      BY <2>2 DEF WriteSig, LoaderTypes
    <3>2. src' \in [content : Bundles \cup {NoBundle}, tag : Nat, sig : Signatures]
      BY <3>1, <1>1 DEF LoaderTypes
    <3> QED BY <2>2, <3>1, <3>2, <1>1 DEF WriteSig, LoaderTypes
  <2> QED BY <2>1, <2>2
<1>3. LoaderTypes'
  BY <1>2 DEF LoaderTypes
<1>4. Published'
  BY <1>2 DEF Published
<1>5. Gates'
  BY <1>2 DEF Gates, Newest
<1>6. Live'
  BY <1>2 DEF Live, Newest
<1>7. Shelf'
  BY <1>2 DEF Shelf
<1> QED BY <1>3, <1>4, <1>5, <1>6, <1>7

(* A step of the loader before a bundle has been verified: nothing of what *)
(* is live or stored changes, and a signature it takes was published.      *)
LEMMA FetchKeeps ==
  ASSUME LoaderInv, UNCHANGED <<source, current, engine, store, torn, unactivated>>,
         fsm # "activating", fsm' \in {"idle", "downloading"},
         got' \in [at : {"stat", "read", "sig", "done"}, content : Bundles \cup {NoBundle},
                   sig : Signatures, tag : Nat],
         got'.sig \in {got.sig, src.sig, NoSig}
  PROVE  LoaderInv'
<1> USE DEF LoaderInv, source
<1>1. LoaderTypes'
  BY DEF LoaderTypes
<1>2. Published'
  BY BundleAssumption DEF Published, NoSig
<1>3. Gates'
  BY DEF Gates, Staged
<1>4. Live'
  BY DEF Live, Newest
<1>5. Shelf'
  BY DEF Shelf
<1> QED BY <1>1, <1>2, <1>3, <1>4, <1>5

LEMMA NoBytesType ==
  /\ NoBytes \in [at : {"stat", "read", "sig", "done"}, content : Bundles \cup {NoBundle},
                  sig : Signatures, tag : Nat]
  /\ NoBytes.sig = NoSig /\ NoSig.key \notin TrustedKeys
<1>1. NoSig \in Signatures /\ NoSig.key \notin TrustedKeys
  BY BundleAssumption DEF NoSig, Signatures
<1> QED BY <1>1 DEF NoBytes

(* A rollback leaves the bundle that was live, or none and denies all.     *)
LEMMA RollbackKeeps ==
  ASSUME LoaderInv, rollback, fsm # "activating",
         UNCHANGED <<source, store, torn, unactivated>>
  PROVE  LoaderInv'
<1> USE DEF LoaderInv, source, rollback
<1>1. LoaderTypes'
  BY NoBytesType DEF LoaderTypes
<1>2. Published'
  BY NoBytesType DEF Published
<1>3. Gates'
  BY DEF Gates, Staged
<1>4. Live'
  BY DEF Live, Newest, NoManifest
<1>5. Shelf'
  BY DEF Shelf
<1> QED BY <1>1, <1>2, <1>3, <1>4, <1>5

(* A transition to a state whose gate the bundle has passed.               *)
LEMMA AdvanceKeeps ==
  ASSUME LoaderInv, fsm # "activating", fsm' \notin {"activating", "deny_all"},
         UNCHANGED <<source, got, current, engine, store, torn, unactivated>>,
         Gates'
  PROVE  LoaderInv'
<1> USE DEF LoaderInv, source
<1>1. LoaderTypes'
  BY DEF LoaderTypes
<1>2. Published'
  BY DEF Published
<1>3. Live'
  BY DEF Live, Newest
<1>4. Shelf'
  BY DEF Shelf
<1> QED BY <1>1, <1>2, <1>3, <1>4

(* Extract: the bundle is stored, or its save fails and leaves it torn.    *)
LEMMA ExtractKeeps ==
  ASSUME LoaderInv, Extract
  PROVE  LoaderInv'
<1> USE DEF LoaderInv
<1> DEFINE b == got.content
<1>0. fsm = "verifying" /\ b \in signed /\ b \in Bundles /\ UNCHANGED source
  BY DEF Extract, Gates, LoaderTypes, rest
<1>1. CASE rollback /\ UNCHANGED <<store, torn, unactivated>>
  BY <1>0, <1>1, RollbackKeeps
<1>2. CASE /\ Quality[b] # "extract" /\ fsm' = "staging"
           /\ save(b)
           /\ UNCHANGED <<got, current, engine>>
  <2>1. store' = Append(Others(store, b), b) /\ torn' = torn \ {b}
        /\ unactivated' = unactivated \cup {b}
    BY <1>2 DEF save
  <2>2. store \in Seq(Bundles) /\ Distinct(store)
    BY DEF LoaderTypes, Shelf
  <2> HIDE DEF b
  <2>3. /\ store' \in Seq(Bundles)
        /\ Distinct(store')
        /\ ToSet(store') = ToSet(store) \cup {b}
        /\ Len(store') > 0 /\ store'[Len(store')] = b
        /\ Len(store') = IF b \in ToSet(store) THEN Len(store) ELSE Len(store) + 1
    BY <2>1, <2>2, <1>0, SaveProperties
  <2>4. IsFiniteSet(unactivated') /\ unactivated' # {}
        /\ Cardinality(unactivated') =
             IF b \in unactivated THEN Cardinality(unactivated) ELSE Cardinality(unactivated) + 1
    <3>1. IsFiniteSet(unactivated)
      BY DEF LoaderTypes
    <3> QED BY <3>1, <2>1, FS_AddElement
  <2>5. LoaderTypes'
    BY <1>0, <1>2, <2>3, <2>4 DEF source, LoaderTypes
  <2>6. Published'
    BY <1>0, <1>2 DEF source, Published
  <2>7. Gates'
    BY <1>0, <1>2, <2>3 DEF source, Gates, Newest, Staged, b
  <2>8. Live'
    BY <1>0, <1>2, <2>1, <2>3, <2>4 DEF source, Live
  <2>9. Shelf'
    <3>1. ToSet(store') \subseteq signed'
      BY <1>0, <2>3 DEF source, Shelf
    <3>2. unactivated' \subseteq ToSet(store')
      BY <2>1, <2>3 DEF Shelf
    <3>3. Len(store') <= KeepCount + Cardinality(unactivated')
      <4>1. Len(store) \in Nat /\ Cardinality(unactivated) \in Nat /\ KeepCount \in Nat
        BY <2>2, FS_CardinalityType, BundleAssumption DEF LoaderTypes
      <4>2. b \in unactivated => b \in ToSet(store)
        BY DEF Shelf
      <4> QED BY <4>1, <4>2, <2>3, <2>4 DEF Shelf
    <3> QED BY <2>3, <3>1, <3>2, <3>3 DEF Shelf
  <2> QED BY <2>5, <2>6, <2>7, <2>8, <2>9
<1>3. CASE /\ Quality[b] # "extract" /\ fsm' = "staging"
           /\ saveFails(b)
           /\ UNCHANGED <<got, current, engine>>
  <2>1. LoaderTypes'
    BY <1>0, <1>3 DEF source, saveFails, LoaderTypes
  <2>2. Published'
    BY <1>0, <1>3 DEF source, Published
  <2>3. Gates'
    BY <1>0, <1>3 DEF source, saveFails, Gates, Staged
  <2>4. Live'
    BY <1>0, <1>3 DEF source, saveFails, Live, Newest
  <2>5. Shelf'
    BY <1>0, <1>3 DEF source, saveFails, Shelf
  <2> QED BY <2>1, <2>2, <2>3, <2>4, <2>5
<1> QED BY <1>1, <1>2, <1>3 DEF Extract, Transition

(* Only a bundle that has passed every gate goes to the engine.            *)
LEMMA ActivateKeeps ==
  ASSUME LoaderInv, Activate
  PROVE  LoaderInv'
<1> USE DEF LoaderInv
<1>0. fsm = "health_checking" /\ UNCHANGED <<source, store, torn, unactivated>>
  BY DEF Activate, rest
<1>1. CASE rollback
  BY <1>0, <1>1, RollbackKeeps
<1>2. CASE /\ Quality[got.content] # "reload"
           /\ fsm' = "activating" /\ engine' = got.content
           /\ UNCHANGED <<got, current>>
  <2>1. got.content \in signed /\ got.content \in Bundles
    BY <1>0 DEF Gates, Staged, LoaderTypes
  <2>2. Quality[got.content] = "good"
    BY <1>0, <1>2, <2>1, BundleAssumption DEF Gates, Staged
  <2>3. got.content \in torn \/ Newest(got.content)
    BY <1>0 DEF Gates, Staged
  <2>4. Newest(got.content) => got.content \in ToSet(store)
    BY DEF Newest, ToSet, LoaderTypes
  <2>5. LoaderTypes'
    BY <1>0, <1>2 DEF source, LoaderTypes
  <2>6. Published'
    BY <1>0, <1>2 DEF source, Published
  <2>7. Gates'
    BY <1>0, <1>2 DEF source, Gates, Newest, Staged
  <2>8. Live'
    BY <1>0, <1>2, <2>1, <2>2, <2>3, <2>4 DEF source, Live, Newest
  <2>9. Shelf'
    BY <1>0 DEF source, Shelf
  <2> QED BY <2>5, <2>6, <2>7, <2>8, <2>9
<1> QED BY <1>1, <1>2 DEF Activate

(* gc never takes the bundle that has just been activated.                 *)
LEMMA RememberKeeps ==
  ASSUME LoaderInv, Remember
  PROVE  LoaderInv'
<1> USE DEF LoaderInv
<1>0. /\ fsm = "activating" /\ fsm' = "idle" /\ UNCHANGED <<source, engine, torn>>
      /\ store' = gc(store) /\ unactivated' = {} /\ got' = NoBytes
      /\ current' = [hash |-> got.content, version |-> current.version + 1]
  BY DEF Remember, Transition, rest
<1>1. store \in Seq(Bundles) /\ Distinct(store)
  BY DEF LoaderTypes, Shelf
<1>2. /\ store' \in Seq(Bundles)
      /\ Distinct(store')
      /\ ToSet(store') \subseteq ToSet(store)
      /\ Len(store') <= KeepCount
      /\ Len(store) > 0 => Len(store') > 0 /\ store'[Len(store')] = store[Len(store)]
  BY <1>0, <1>1, GcProperties
<1>3. engine = got.content /\ (engine \in torn \/ Newest(engine))
  BY <1>0 DEF Gates, Staged
<1>4. engine \in torn' \/ Newest(engine)'
  BY <1>0, <1>2, <1>3 DEF Newest
<1>5. Newest(engine)' => engine' \in ToSet(store')
  BY <1>0, <1>2 DEF Newest, ToSet
<1>6. LoaderTypes'
  <2>1. current' \in [hash : Bundles \cup {NoBundle}, version : Nat]
    BY <1>0 DEF LoaderTypes
  <2>2. IsFiniteSet(unactivated')
    BY <1>0, FS_EmptySet
  <2> QED BY <1>0, <1>2, <2>1, <2>2, NoBytesType DEF source, LoaderTypes
<1>7. Published'
  BY <1>0, NoBytesType DEF source, Published
<1>8. Gates'
  BY <1>0 DEF Gates, Staged
<1>9. Live'
  <2>1. current'.hash = engine'
    BY <1>0, <1>3
  <2> QED BY <1>0, <1>4, <1>5, <2>1 DEF source, Live
<1>10. Shelf'
  <2>1. Cardinality(unactivated') = 0
    BY <1>0, FS_EmptySet
  <2>2. Len(store') <= KeepCount + 0
    BY <1>2, BundleAssumption
  <2> QED BY <1>0, <1>2, <2>1, <2>2 DEF source, Shelf
<1> QED BY <1>6, <1>7, <1>8, <1>9, <1>10

(* A restart forgets everything but the store.                             *)
LEMMA RestartKeeps ==
  ASSUME LoaderInv, Restart
  PROVE  LoaderInv'
<1> USE DEF LoaderInv
<1>0. /\ fsm' = "idle" /\ got' = NoBytes /\ current' = NoManifest /\ engine' = NoBundle
      /\ UNCHANGED <<source, store, unactivated>>
  BY DEF Restart, saveFails
<1>1. LoaderTypes'
  <2>1. current' \in [hash : Bundles \cup {NoBundle}, version : Nat]
    BY <1>0 DEF NoManifest
  <2> QED BY <1>0, <2>1, NoBytesType DEF source, LoaderTypes
<1>2. Published'
  BY <1>0, NoBytesType DEF source, Published
<1>3. Gates'
  BY <1>0 DEF Gates, Staged
<1>4. Live'
  BY <1>0 DEF Live, NoManifest
<1>5. Shelf'
  BY <1>0 DEF source, Shelf
<1> QED BY <1>1, <1>2, <1>3, <1>4, <1>5

(* The steps that look at the source and fetch from it.                    *)
LEMMA FetchingKeeps ==
  ASSUME LoaderInv,
         Poll \/ FetchNothing \/ FetchFails \/ Stat \/ Read \/ ReadSig \/ ReadErrorPage
  PROVE  LoaderInv'
<1> DEFINE Bytes == [at : {"stat", "read", "sig", "done"}, content : Bundles \cup {NoBundle},
                     sig : Signatures, tag : Nat]
<1>1. /\ src.content \in Bundles \cup {NoBundle} /\ src.tag \in Nat /\ src.sig \in Signatures
      /\ got \in Bytes
  BY DEF LoaderInv, LoaderTypes
<1>2. /\ UNCHANGED <<source, current, engine, store, torn, unactivated>>
      /\ fsm # "activating" /\ fsm' \in {"idle", "downloading"}
  BY DEF Poll, FetchNothing, FetchFails, Stat, Read, ReadSig, ReadErrorPage,
         EndFetch, fetching, rest
<1>3. got' \in Bytes /\ got'.sig \in {got.sig, src.sig, NoSig}
  <2>1. CASE Poll \/ FetchNothing \/ FetchFails
    BY <2>1, NoBytesType DEF Poll, FetchNothing, FetchFails, EndFetch
  <2>2. CASE Stat
    <3>1. got' = [got EXCEPT !.at = "read", !.tag = src.tag]
          \/ got' = [got EXCEPT !.at = "sig", !.tag = src.tag, !.content = src.content]
      BY <2>2 DEF Stat
    <3> QED BY <3>1, <1>1
  <2>3. CASE Read
    BY <2>3, <1>1 DEF Read
  <2>4. CASE ReadSig
    BY <2>4, <1>1 DEF ReadSig
  <2>5. CASE ReadErrorPage
    BY <2>5, <1>1 DEF ReadErrorPage
  <2> QED BY <2>1, <2>2, <2>3, <2>4, <2>5
<1> QED BY <1>2, <1>3, FetchKeeps

(* The gates: each transition adds what its state knows.                   *)
LEMMA GateKeeps ==
  ASSUME LoaderInv, VerifySignature \/ StageFails \/ Compile \/ HealthCheck
  PROVE  LoaderInv'
<1> USE DEF LoaderInv
<1>1. CASE rollback
  <2>1. fsm # "activating" /\ UNCHANGED <<source, store, torn, unactivated>>
    BY DEF VerifySignature, StageFails, Compile, HealthCheck, Transition, attempt, rest
  <2> QED BY <1>1, <2>1, RollbackKeeps
<1>2. CASE ~ rollback
  <2>1. /\ fsm # "activating" /\ fsm' \notin {"activating", "deny_all"}
        /\ UNCHANGED <<source, got, current, engine, store, torn, unactivated>>
    BY <1>2 DEF VerifySignature, StageFails, Compile, HealthCheck, Transition, attempt, rest
  <2>2. Gates'
    <3>1. CASE VerifySignature
      <4>1. fsm' = "verifying" /\ Verify(got.content, got.sig)
        BY <1>2, <3>1 DEF VerifySignature, Transition
      <4>2. got.content \in signed
        BY <4>1 DEF Verify, Published
      <4> QED BY <2>1, <4>1, <4>2 DEF source, Gates, Staged
    <3>2. CASE Compile
      BY <2>1, <3>2 DEF source, Compile, Transition, Gates, Staged, Newest
    <3>3. CASE HealthCheck
      BY <1>2, <2>1, <3>3 DEF source, HealthCheck, Transition, Gates, Staged, Newest
    <3> QED BY <1>2, <3>1, <3>2, <3>3 DEF StageFails
  <2> QED BY <2>1, <2>2, AdvanceKeeps
<1> QED BY <1>1, <1>2

LEMMA LoaderStep == LoaderInv /\ [LoaderNext]_loaderVars => LoaderInv'
<1> SUFFICES ASSUME LoaderInv, [LoaderNext]_loaderVars PROVE LoaderInv'
  OBVIOUS
<1>1. ASSUME NEW b \in Bundles, NEW k \in Keys, PublishFirst(b, k)
      PROVE  LoaderInv'
  <2> DEFINE h == [content |-> b, sig |-> [of |-> b, key |-> k]]
  <2>1. h \in Pair /\ h.content = b /\ h.sig = [of |-> b, key |-> k]
    BY DEF Pair
  <2>2. /\ half' = h /\ UNCHANGED <<loader, engine, store, torn, unactivated>>
        /\ WriteBundle(b) \/ WriteSig([of |-> b, key |-> k])
    BY <1>1 DEF PublishFirst
  <2> HIDE DEF h
  <2> QED BY <2>1, <2>2, PublishKeeps
<1>2. CASE PublishSecond
  <2>1. half \in Pair
    BY <1>2 DEF PublishSecond, LoaderInv, LoaderTypes
  <2> QED BY <1>2, <2>1, PublishKeeps DEF PublishSecond
<1>3. CASE UNCHANGED loaderVars
  BY <1>3 DEF loaderVars, source, loader, LoaderInv, LoaderTypes, Published, Gates, Live,
              Shelf, Newest
<1> QED BY <1>1, <1>2, <1>3, FetchingKeeps, GateKeeps, ExtractKeeps, ActivateKeeps,
           RememberKeeps, RestartKeeps DEF LoaderNext, tryActivate

(* Whatever the publisher, the faults and the restarts do, and for any set *)
(* of bundles and keys: only bundles signed with a trusted key are stored  *)
(* or live, and a failed attempt changes nothing of what is live           *)
(* (loader.go, tryActivate).                                               *)
THEOREM VerifiedOnlyHolds == LoaderSpec => []VerifiedOnly
<1>1. LoaderInv => VerifiedOnly
  BY DEF LoaderInv, VerifiedOnly, Live, Shelf
<1> QED BY <1>1, LoaderInitInv, LoaderStep, PTL DEF LoaderSpec

(* For any KeepCount the store stays within its bound, never loses the     *)
(* bundle that is live, and a rollback asks for another one (store.go).    *)
THEOREM StoreSoundHolds == LoaderSpec => []StoreSound
<1>1. LoaderInv => StoreSound
  <2> SUFFICES ASSUME LoaderInv, engine # NoBundle, unactivated = {}, torn = {}, Len(store) > 1
               PROVE  rollbackTarget # engine
    BY DEF LoaderInv, StoreSound, Live, Shelf
  <2>1. store[Len(store)] = engine
    BY DEF LoaderInv, Live, Newest
  <2>2. Len(store) \in DOMAIN store /\ Len(store) - 1 \in DOMAIN store
        /\ Len(store) - 1 # Len(store)
    BY DEF LoaderInv, LoaderTypes
  <2> QED BY <2>1, <2>2 DEF LoaderInv, Shelf, Distinct, rollbackTarget
<1> QED BY <1>1, LoaderInitInv, LoaderStep, PTL DEF LoaderSpec
-----------------------------------------------------------------------------
(* What the engine makes of the policies of a bundle (PolicyIndex).        *)

(* Induction over the naturals, for a set in place of a predicate.         *)
LEMMA SetInduction ==
  ASSUME NEW S, 0 \in S, \A n \in Nat : n \in S => n + 1 \in S
  PROVE  Nat \subseteq S
<1> DEFINE Less == {ss \in Nat \X Nat : ss[1] < ss[2]}
           T == Nat \ S
<1> SUFFICES ASSUME T # {} PROVE FALSE
  OBVIOUS
<1>1. IsWellFoundedOn(Less, Nat)
  BY NatLessThanWellFounded, Zenon DEF OpToRel
<1>2. PICK m \in T : \A y \in T : ~ (<<y, m>> \in Less)
  <2>1. T \subseteq Nat
    OBVIOUS
  <2> HIDE DEF Less, T
  <2> QED BY <1>1, <2>1, WFMin, Zenon
<1>3. m \in Nat \ {0} /\ m - 1 \in Nat /\ m - 1 < m /\ (m - 1) + 1 = m
  OBVIOUS
<1>4. <<m - 1, m>> \in Less
  <2>1. <<m - 1, m>> \in Nat \X Nat /\ <<m - 1, m>>[1] < <<m - 1, m>>[2]
    BY <1>3
  <2> QED BY <2>1, Zenon
<1>5. m - 1 \in S
  <2> HIDE DEF Less
  <2> QED BY <1>2, <1>3, <1>4
<1> QED
  BY <1>3, <1>5

(* The prefixes of keep: what the recursive function is.                   *)
KeepStep(s, K, f, i) ==
  IF i = 0 THEN <<>> ELSE IF s[i] \in K THEN Append(f[i - 1], s[i]) ELSE f[i - 1]

LEMMA KeepPrefixes ==
  ASSUME NEW X, NEW s \in Seq(X), NEW K
  PROVE  \E f : /\ DOMAIN f = 0 .. Len(s)
                /\ \A i \in 0 .. Len(s) : f[i] = KeepStep(s, K, f, i)
                /\ keep(s, K) = f[Len(s)]
<1> DEFINE Fits(n, f) == f = [i \in 0 .. n |-> KeepStep(s, K, f, i)]
           S == {n \in Nat : \E f : Fits(n, f)}
<1>1. 0 \in S
  <2>1. Fits(0, [i \in 0 .. 0 |-> <<>>])
    BY DEF KeepStep
  <2> QED BY <2>1
<1>2. ASSUME NEW n \in Nat, n \in S
      PROVE  n + 1 \in S
  <2>1. PICK f : Fits(n, f)
    BY <1>2
  <2> DEFINE last == KeepStep(s, K, f, n + 1)
             g == [i \in 0 .. n + 1 |-> IF i = n + 1 THEN last ELSE f[i]]
  <2>2. \A i \in 0 .. n : f[i] = KeepStep(s, K, f, i)
    BY <2>1
  <2>3. \A i \in 0 .. n + 1 : KeepStep(s, K, g, i) = KeepStep(s, K, f, i)
    BY DEF KeepStep
  <2>4. \A i \in 0 .. n + 1 : g[i] = KeepStep(s, K, g, i)
    BY <2>2, <2>3
  <2>5. g = [i \in 0 .. n + 1 |-> g[i]]
    OBVIOUS
  <2>6. Fits(n + 1, g)
    <3> HIDE DEF g
    <3> QED BY <2>4, <2>5
  <2>7. \E h : Fits(n + 1, h)
    <3> HIDE DEF Fits, g
    <3> QED BY <2>6
  <2> QED BY <2>7
<1>3. Len(s) \in Nat
  OBVIOUS
<1>4. Len(s) \in S
  <2> HIDE DEF S
  <2> QED BY <1>1, <1>2, <1>3, SetInduction
<1>5. \E f : Fits(Len(s), f)
  BY <1>4
<1> DEFINE first == CHOOSE f : Fits(Len(s), f)
<1>6. Fits(Len(s), first)
  <2> HIDE DEF Fits
  <2> QED BY <1>5, Zenon
<1>7. keep(s, K) = first[Len(s)]
  BY DEF keep, KeepStep
<1> HIDE DEF first
<1>8. DOMAIN first = 0 .. Len(s) /\ \A i \in 0 .. Len(s) : first[i] = KeepStep(s, K, first, i)
  BY <1>6
<1> QED BY <1>7, <1>8

(* The elements of t come from s, in the order of s.                       *)
InOrderOf(t, s) == \A i, j \in DOMAIN t : i < j =>
  \E a, b \in DOMAIN s : a < b /\ t[i] = s[a] /\ t[j] = s[b]

(* What keep has made of the first n elements of s.                        *)
KeptOf(t, s, K, n, X) ==
  /\ t \in Seq(X)
  /\ \A x : (\E i \in 1 .. Len(t) : t[i] = x) <=> (x \in K /\ \E j \in 1 .. n : s[j] = x)
  /\ \A i, j \in 1 .. Len(t) : i < j =>
       \E a, b \in 1 .. n : a < b /\ t[i] = s[a] /\ t[j] = s[b]

LEMMA KeepSkips ==
  ASSUME NEW X, NEW s, NEW K, NEW n \in Nat, NEW t,
         KeptOf(t, s, K, n, X), s[n + 1] \notin K
  PROVE  KeptOf(t, s, K, n + 1, X)
<1>1. \A j \in 1 .. n + 1 : j \in 1 .. n \/ j = n + 1
  OBVIOUS
<1>2. \A j \in 1 .. n : j \in 1 .. n + 1
  OBVIOUS
<1>3. ASSUME NEW x
      PROVE  (\E i \in 1 .. Len(t) : t[i] = x) <=> (x \in K /\ \E j \in 1 .. n + 1 : s[j] = x)
  <2>1. (\E i \in 1 .. Len(t) : t[i] = x) <=> (x \in K /\ \E j \in 1 .. n : s[j] = x)
    BY DEF KeptOf
  <2>2. x \in K => ((\E j \in 1 .. n + 1 : s[j] = x) <=> \E j \in 1 .. n : s[j] = x)
    BY <1>1, <1>2
  <2> QED BY <2>1, <2>2
<1>4. ASSUME NEW i \in 1 .. Len(t), NEW j \in 1 .. Len(t), i < j
      PROVE  \E a, b \in 1 .. n + 1 : a < b /\ t[i] = s[a] /\ t[j] = s[b]
  <2>1. \E a, b \in 1 .. n : a < b /\ t[i] = s[a] /\ t[j] = s[b]
    BY <1>4 DEF KeptOf
  <2> QED BY <1>2, <2>1
<1> QED BY <1>3, <1>4 DEF KeptOf

LEMMA KeepTakes ==
  ASSUME NEW X, NEW s, NEW K, NEW n \in Nat, NEW t, NEW u,
         KeptOf(t, s, K, n, X), s[n + 1] \in K, s[n + 1] \in X, u = Append(t, s[n + 1])
  PROVE  KeptOf(u, s, K, n + 1, X)
<1>1. t \in Seq(X)
  BY DEF KeptOf
<1>2. /\ u \in Seq(X) /\ Len(u) = Len(t) + 1 /\ Len(t) \in Nat
      /\ u[Len(t) + 1] = s[n + 1] /\ \A i \in 1 .. Len(t) : u[i] = t[i]
  BY <1>1
<1>3. /\ \A j \in 1 .. n + 1 : j \in 1 .. n \/ j = n + 1
      /\ \A j \in 1 .. n : j \in 1 .. n + 1 /\ j < n + 1
      /\ n + 1 \in 1 .. n + 1
  OBVIOUS
<1>4. /\ \A j \in 1 .. Len(u) : j \in 1 .. Len(t) \/ j = Len(t) + 1
      /\ \A j \in 1 .. Len(t) : j \in 1 .. Len(u)
      /\ Len(t) + 1 \in 1 .. Len(u)
  <2> HIDE DEF KeptOf
  <2> QED BY <1>2
<1>5. ASSUME NEW x
      PROVE  (\E i \in 1 .. Len(u) : u[i] = x) <=> (x \in K /\ \E j \in 1 .. n + 1 : s[j] = x)
  <2>1. (\E i \in 1 .. Len(t) : t[i] = x) <=> (x \in K /\ \E j \in 1 .. n : s[j] = x)
    BY DEF KeptOf
  <2>2. (\E i \in 1 .. Len(u) : u[i] = x) <=> x = s[n + 1] \/ \E i \in 1 .. Len(t) : t[i] = x
    BY <1>2, <1>4
  <2>3. (\E j \in 1 .. n + 1 : s[j] = x) <=> x = s[n + 1] \/ \E j \in 1 .. n : s[j] = x
    BY <1>3
  <2> QED BY <2>1, <2>2, <2>3
<1>6. ASSUME NEW i \in 1 .. Len(u), NEW j \in 1 .. Len(u), i < j
      PROVE  \E a, b \in 1 .. n + 1 : a < b /\ u[i] = s[a] /\ u[j] = s[b]
  <2>1. i \in 1 .. Len(t) /\ u[i] = t[i]
    BY <1>2, <1>6
  <2>2. CASE j = Len(t) + 1
    <3>1. t[i] \in K /\ \E a \in 1 .. n : s[a] = t[i]
      BY <2>1 DEF KeptOf
    <3>2. u[j] = s[n + 1]
      BY <1>2, <2>2
    <3> QED BY <1>3, <2>1, <3>1, <3>2
  <2>3. CASE j \in 1 .. Len(t)
    <3>1. u[j] = t[j]
      BY <1>2, <2>3
    <3>2. \E a, b \in 1 .. n : a < b /\ t[i] = s[a] /\ t[j] = s[b]
      BY <1>6, <2>1, <2>3 DEF KeptOf
    <3> QED BY <1>3, <2>1, <3>1, <3>2
  <2> QED BY <1>4, <2>2, <2>3
<1> QED BY <1>2, <1>5, <1>6 DEF KeptOf

(* What keep returns.                                                      *)
LEMMA KeepProperties ==
  ASSUME NEW X, NEW s \in Seq(X), NEW K
  PROVE  /\ keep(s, K) \in Seq(X)
         /\ ToSet(keep(s, K)) = ToSet(s) \cap K
         /\ InOrderOf(keep(s, K), s)
<1>1. PICK f : /\ \A i \in 0 .. Len(s) : f[i] = KeepStep(s, K, f, i)
               /\ keep(s, K) = f[Len(s)]
  BY KeepPrefixes
<1> DEFINE S == {n \in Nat : n <= Len(s) => KeptOf(f[n], s, K, n, X)}
<1>2. Len(s) \in Nat /\ \A n \in 1 .. Len(s) : s[n] \in X
  OBVIOUS
<1>3. 0 \in S
  <2>1. f[0] = <<>>
    BY <1>1, <1>2 DEF KeepStep
  <2>2. KeptOf(<<>>, s, K, 0, X)
    BY DEF KeptOf
  <2> QED BY <2>1, <2>2
<1>4. ASSUME NEW n \in Nat, n \in S
      PROVE  n + 1 \in S
  <2>1. ASSUME n + 1 <= Len(s) PROVE KeptOf(f[n + 1], s, K, n + 1, X)
    <3>1. n + 1 \in 0 .. Len(s) /\ n + 1 # 0 /\ (n + 1) - 1 = n /\ s[n + 1] \in X /\ n <= Len(s)
      BY <1>2, <2>1
    <3>2. KeptOf(f[n], s, K, n, X)
      BY <1>4, <3>1
    <3>3. f[n + 1] = IF s[n + 1] \in K THEN Append(f[n], s[n + 1]) ELSE f[n]
      BY <1>1, <3>1 DEF KeepStep
    <3>4. CASE s[n + 1] \in K
      <4>1. f[n + 1] = Append(f[n], s[n + 1])
        BY <3>3, <3>4
      <4> QED BY <3>1, <3>2, <3>4, <4>1, KeepTakes
    <3>5. CASE s[n + 1] \notin K
      <4>1. f[n + 1] = f[n]
        BY <3>3, <3>5
      <4>2. KeptOf(f[n], s, K, n + 1, X)
        BY <3>2, <3>5, KeepSkips
      <4> QED BY <4>1, <4>2
    <3> QED BY <3>4, <3>5
  <2> QED BY <2>1
<1>5. KeptOf(keep(s, K), s, K, Len(s), X)
  <2>1. Len(s) \in S
    <3> HIDE DEF S
    <3> QED BY <1>2, <1>3, <1>4, SetInduction
  <2> QED BY <1>1, <1>2, <2>1
<1> DEFINE k == keep(s, K)
<1>6. KeptOf(k, s, K, Len(s), X)
  BY <1>5
<1> HIDE DEF k, S
<1>7. k \in Seq(X) /\ DOMAIN k = 1 .. Len(k) /\ DOMAIN s = 1 .. Len(s)
  BY <1>6 DEF KeptOf
<1>8. ASSUME NEW x PROVE x \in ToSet(k) <=> x \in ToSet(s) \cap K
  <2>1. x \in ToSet(k) <=> \E i \in 1 .. Len(k) : k[i] = x
    BY <1>7 DEF ToSet
  <2>2. x \in ToSet(s) <=> \E i \in 1 .. Len(s) : s[i] = x
    BY <1>7 DEF ToSet
  <2> QED BY <1>6, <2>1, <2>2 DEF KeptOf
<1>9. InOrderOf(k, s)
  <2>1. \A i, j \in 1 .. Len(k) : i < j =>
          \E a, b \in 1 .. Len(s) : a < b /\ k[i] = s[a] /\ k[j] = s[b]
    BY <1>6 DEF KeptOf
  <2>2. SUFFICES ASSUME NEW i \in DOMAIN k, NEW j \in DOMAIN k, i < j
                 PROVE  \E a, b \in DOMAIN s : a < b /\ k[i] = s[a] /\ k[j] = s[b]
    BY DEF InOrderOf
  <2>3. i \in 1 .. Len(k) /\ j \in 1 .. Len(k)
    BY <1>7
  <2>4. PICK a \in 1 .. Len(s), b \in 1 .. Len(s) : a < b /\ k[i] = s[a] /\ k[j] = s[b]
    BY <2>1, <2>2, <2>3
  <2> QED BY <1>7, <2>4
<1>10. ToSet(k) = ToSet(s) \cap K
  BY <1>8
<1> QED BY <1>7, <1>9, <1>10 DEF k

LEMMA InOrderTransitive ==
  ASSUME NEW t, NEW u, NEW s, InOrderOf(t, u), InOrderOf(u, s)
  PROVE  InOrderOf(t, s)
BY DEF InOrderOf

LEMMA InOrderReflexive ==
  ASSUME NEW s
  PROVE  InOrderOf(s, s)
BY DEF InOrderOf

(* A set of positions of a list has a last and a first one.                *)
LEMMA LastPosition ==
  ASSUME NEW n \in Nat, NEW T \in SUBSET (1 .. n), T # {}
  PROVE  \E i \in T : \A j \in T : j <= i
<1> DEFINE S == {k \in Nat : \A U \in SUBSET (1 .. k) : U # {} => \E i \in U : \A j \in U : j <= i}
<1>1. 0 \in S
  <2>1. 1 .. 0 = {}
    OBVIOUS
  <2> QED BY <2>1
<1>2. ASSUME NEW k \in Nat, k \in S PROVE k + 1 \in S
  <2>1. SUFFICES ASSUME NEW U \in SUBSET (1 .. k + 1), U # {}
                 PROVE  \E i \in U : \A j \in U : j <= i
    OBVIOUS
  <2>2. CASE k + 1 \in U
    BY <2>2
  <2>3. CASE k + 1 \notin U
    <3>1. U \in SUBSET (1 .. k)
      BY <2>3
    <3> QED BY <1>2, <2>1, <3>1
  <2> QED BY <2>2, <2>3
<1>3. n \in S
  <2> HIDE DEF S
  <2> QED BY <1>1, <1>2, SetInduction
<1> QED BY <1>3

LEMMA FirstPosition ==
  ASSUME NEW n \in Nat, NEW T \in SUBSET (1 .. n), T # {}
  PROVE  \E i \in T : \A j \in T : i <= j
<1> DEFINE S == {k \in Nat : \A U \in SUBSET (1 .. k) : U # {} => \E i \in U : \A j \in U : i <= j}
<1>1. 0 \in S
  <2>1. 1 .. 0 = {}
    OBVIOUS
  <2> QED BY <2>1
<1>2. ASSUME NEW k \in Nat, k \in S PROVE k + 1 \in S
  <2>1. SUFFICES ASSUME NEW U \in SUBSET (1 .. k + 1), U # {}
                 PROVE  \E i \in U : \A j \in U : i <= j
    OBVIOUS
  <2> DEFINE V == U \ {k + 1}
  <2>2. V \in SUBSET (1 .. k)
    OBVIOUS
  <2>3. CASE V = {}
    <3>1. U = {k + 1}
      BY <2>1, <2>3
    <3> QED BY <3>1
  <2>4. CASE V # {}
    <3>1. PICK i \in V : \A j \in V : i <= j
      <4> HIDE DEF V
      <4> QED BY <1>2, <2>2, <2>4
    <3>2. i \in U /\ i <= k + 1
      BY <2>2
    <3> QED BY <3>1, <3>2
  <2> QED BY <2>3, <2>4
<1>3. n \in S
  <2> HIDE DEF S
  <2> QED BY <1>1, <1>2, SetInduction
<1> QED BY <1>3

(* Lists in the order of the layers.                                       *)
Layered(s) == \A i, j \in DOMAIN s : i < j => priority(s[i]) <= priority(s[j])

LEMMA PriorityType ==
  ASSUME NEW m
  PROVE  priority(m) \in 0 .. 3
<1>1. layerOf(m) \in {"ceiling", "team", "project", "cel"}
  BY DEF layerOf, LayerPriority
<1> QED BY <1>1 DEF priority, LayerPriority

LEMMA JoinedLists ==
  ASSUME NEW X, NEW s \in Seq(X), NEW t \in Seq(X)
  PROVE  /\ s \o t \in Seq(X)
         /\ ToSet(s \o t) = ToSet(s) \cup ToSet(t)
<1>1. /\ s \o t \in Seq(X) /\ Len(s) \in Nat /\ Len(t) \in Nat
      /\ DOMAIN s = 1 .. Len(s) /\ DOMAIN t = 1 .. Len(t) /\ DOMAIN (s \o t) = 1 .. Len(s) + Len(t)
      /\ \A i \in 1 .. Len(s) + Len(t) : (s \o t)[i] = IF i <= Len(s) THEN s[i] ELSE t[i - Len(s)]
  OBVIOUS
<1>2. ASSUME NEW x PROVE x \in ToSet(s \o t) <=> x \in ToSet(s) \/ x \in ToSet(t)
  <2>1. ASSUME NEW i \in 1 .. Len(s) + Len(t)
        PROVE  (s \o t)[i] \in ToSet(s) \/ (s \o t)[i] \in ToSet(t)
    <3>1. CASE i <= Len(s)
      BY <1>1, <3>1 DEF ToSet
    <3>2. CASE ~ (i <= Len(s))
      <4>1. i - Len(s) \in 1 .. Len(t)
        BY <1>1, <3>2
      <4> QED BY <1>1, <3>2, <4>1 DEF ToSet
    <3> QED BY <3>1, <3>2
  <2>2. ASSUME NEW i \in 1 .. Len(s) PROVE s[i] \in ToSet(s \o t)
    <3>1. i \in 1 .. Len(s) + Len(t) /\ i <= Len(s)
      BY <1>1
    <3>2. (s \o t)[i] = s[i]
      BY <1>1, <3>1
    <3> QED BY <1>1, <3>1, <3>2 DEF ToSet
  <2>3. ASSUME NEW i \in 1 .. Len(t) PROVE t[i] \in ToSet(s \o t)
    <3>1. i + Len(s) \in 1 .. Len(s) + Len(t) /\ ~ (i + Len(s) <= Len(s)) /\ (i + Len(s)) - Len(s) = i
      BY <1>1
    <3>2. (s \o t)[i + Len(s)] = t[i]
      BY <1>1, <3>1
    <3> QED BY <1>1, <3>1, <3>2 DEF ToSet
  <2> QED BY <1>1, <2>1, <2>2, <2>3 DEF ToSet
<1> QED BY <1>1, <1>2

LEMMA JoinedLayers ==
  ASSUME NEW X, NEW s \in Seq(X), NEW t \in Seq(X), Layered(s), Layered(t),
         \A x \in ToSet(s), y \in ToSet(t) : priority(x) <= priority(y)
  PROVE  Layered(s \o t)
<1>1. /\ Len(s) \in Nat /\ Len(t) \in Nat
      /\ DOMAIN s = 1 .. Len(s) /\ DOMAIN t = 1 .. Len(t) /\ DOMAIN (s \o t) = 1 .. Len(s) + Len(t)
      /\ \A i \in 1 .. Len(s) + Len(t) : (s \o t)[i] = IF i <= Len(s) THEN s[i] ELSE t[i - Len(s)]
  OBVIOUS
<1>2. SUFFICES ASSUME NEW i \in 1 .. Len(s) + Len(t), NEW j \in 1 .. Len(s) + Len(t), i < j
               PROVE  priority((s \o t)[i]) <= priority((s \o t)[j])
  BY <1>1 DEF Layered
<1>3. CASE j <= Len(s)
  <2>1. i \in DOMAIN s /\ j \in DOMAIN s /\ (s \o t)[i] = s[i] /\ (s \o t)[j] = s[j]
    BY <1>1, <1>2, <1>3
  <2> QED BY <1>2, <2>1 DEF Layered
<1>4. CASE i <= Len(s) /\ ~ (j <= Len(s))
  <2>1. /\ i \in DOMAIN s /\ j - Len(s) \in DOMAIN t
        /\ (s \o t)[i] = s[i] /\ (s \o t)[j] = t[j - Len(s)]
    BY <1>1, <1>2, <1>4
  <2>2. s[i] \in ToSet(s) /\ t[j - Len(s)] \in ToSet(t)
    BY <2>1 DEF ToSet
  <2> QED BY <2>1, <2>2
<1>5. CASE ~ (i <= Len(s))
  <2>1. /\ i - Len(s) \in DOMAIN t /\ j - Len(s) \in DOMAIN t /\ i - Len(s) < j - Len(s)
        /\ (s \o t)[i] = t[i - Len(s)] /\ (s \o t)[j] = t[j - Len(s)]
    BY <1>1, <1>2, <1>5
  <2> QED BY <2>1 DEF Layered
<1> QED BY <1>1, <1>3, <1>4, <1>5

LayerSet(s, p) == {m \in ToSet(s) : priority(m) = p}

LEMMA LayerProperties ==
  ASSUME NEW X, NEW s \in Seq(X), NEW p \in Int
  PROVE  /\ inLayer(s, p) \in Seq(X)
         /\ ToSet(inLayer(s, p)) = LayerSet(s, p)
         /\ Layered(inLayer(s, p))
<1> DEFINE K == {m \in ToSet(s) : priority(m) = p}
           k == inLayer(s, p)
<1>1. k \in Seq(X) /\ ToSet(k) = ToSet(s) \cap K
  BY KeepProperties DEF inLayer
<1>2. ToSet(k) = K
  BY <1>1
<1>3. ASSUME NEW i \in DOMAIN k PROVE priority(k[i]) = p
  <2>1. k[i] \in ToSet(k)
    BY DEF ToSet
  <2> HIDE DEF k
  <2> QED BY <1>2, <2>1
<1>4. Layered(k)
  <2> HIDE DEF k, K
  <2> QED BY <1>3 DEF Layered
<1> QED BY <1>1, <1>2, <1>4 DEF LayerSet

(* What sortByLayer returns: the same manifests, layer by layer.           *)
LEMMA SortProperties ==
  ASSUME NEW X, NEW s \in Seq(X)
  PROVE  /\ sortByLayer(s) \in Seq(X)
         /\ ToSet(sortByLayer(s)) = ToSet(s)
         /\ Layered(sortByLayer(s))
<1> DEFINE a == inLayer(s, 0)
           b == inLayer(s, 1)
           c == inLayer(s, 2)
           d == inLayer(s, 3)
           L(p) == LayerSet(s, p)
<1>1. /\ a \in Seq(X) /\ ToSet(a) = L(0) /\ Layered(a)
      /\ b \in Seq(X) /\ ToSet(b) = L(1) /\ Layered(b)
      /\ c \in Seq(X) /\ ToSet(c) = L(2) /\ Layered(c)
      /\ d \in Seq(X) /\ ToSet(d) = L(3) /\ Layered(d)
  <2>1. \A p \in Int : /\ inLayer(s, p) \in Seq(X)
                       /\ ToSet(inLayer(s, p)) = LayerSet(s, p)
                       /\ Layered(inLayer(s, p))
    BY LayerProperties
  <2>2. 0 \in Int /\ 1 \in Int /\ 2 \in Int /\ 3 \in Int
    OBVIOUS
  <2> QED BY <2>1, <2>2, Zenon
<1>2. sortByLayer(s) = ((a \o b) \o c) \o d
  BY DEF sortByLayer
<1> HIDE DEF a, b, c, d
<1>3. a \o b \in Seq(X) /\ ToSet(a \o b) = L(0) \cup L(1) /\ Layered(a \o b)
  <2>1. \A x \in ToSet(a), y \in ToSet(b) : priority(x) <= priority(y)
    BY <1>1 DEF LayerSet
  <2> HIDE DEF L
  <2> QED BY <1>1, <2>1, JoinedLists, JoinedLayers
<1> DEFINE ab == a \o b
<1>4. ab \in Seq(X) /\ ToSet(ab) = L(0) \cup L(1) /\ Layered(ab)
  BY <1>3
<1> HIDE DEF ab
<1>5. ab \o c \in Seq(X) /\ ToSet(ab \o c) = L(0) \cup L(1) \cup L(2) /\ Layered(ab \o c)
  <2>1. \A x \in ToSet(ab), y \in ToSet(c) : priority(x) <= priority(y)
    BY <1>1, <1>4 DEF LayerSet
  <2> HIDE DEF L
  <2> QED BY <1>1, <1>4, <2>1, JoinedLists, JoinedLayers
<1> DEFINE abc == ab \o c
<1>6. abc \in Seq(X) /\ ToSet(abc) = L(0) \cup L(1) \cup L(2) /\ Layered(abc)
  BY <1>5
<1> HIDE DEF abc
<1>7. abc \o d \in Seq(X) /\ ToSet(abc \o d) = L(0) \cup L(1) \cup L(2) \cup L(3) /\ Layered(abc \o d)
  <2>1. \A x \in ToSet(abc), y \in ToSet(d) : priority(x) <= priority(y)
    BY <1>1, <1>6 DEF LayerSet
  <2> HIDE DEF L
  <2> QED BY <1>1, <1>6, <2>1, JoinedLists, JoinedLayers
<1>8. L(0) \cup L(1) \cup L(2) \cup L(3) = ToSet(s)
  <2>1. \A m : priority(m) = 0 \/ priority(m) = 1 \/ priority(m) = 2 \/ priority(m) = 3
    <3>1. \A n \in 0 .. 3 : n = 0 \/ n = 1 \/ n = 2 \/ n = 3
      OBVIOUS
    <3> QED BY <3>1, PriorityType
  <2> QED BY <2>1 DEF LayerSet
<1>9. sortByLayer(s) = abc \o d
  BY <1>2 DEF abc, ab
<1> HIDE DEF L
<1> QED BY <1>7, <1>8, <1>9

LEMMA ListElements ==
  ASSUME NEW X, NEW s \in Seq(X)
  PROVE  /\ \A i \in DOMAIN s : s[i] \in ToSet(s)
         /\ s # <<>> => 1 \in DOMAIN s
         /\ s = <<>> => ToSet(s) = {}
         /\ DOMAIN s = 1 .. Len(s) /\ Len(s) \in Nat
BY DEF ToSet

(* What filterByScope returns.                                             *)
LEMMA FilterProperties ==
  ASSUME NEW X, NEW s \in Seq(X), NEW tool, NEW session
  PROVE  /\ filterByScope(s, tool, session) \in Seq(X)
         /\ ToSet(filterByScope(s, tool, session)) \subseteq ToSet(s)
         /\ \A m \in ToSet(s) : matchesScope(m, tool, session)
                                  => m \in ToSet(filterByScope(s, tool, session))
         /\ InOrderOf(filterByScope(s, tool, session), s)
<1> DEFINE K == {m \in ToSet(s) : matchesScope(m, tool, session)}
           f == filterByScope(s, tool, session)
<1>1. f = s \/ f = keep(s, K)
  BY DEF filterByScope
<1>2. CASE f = s
  <2> HIDE DEF f
  <2> QED BY <1>2, InOrderReflexive DEF f
<1>3. CASE f = keep(s, K)
  <2> HIDE DEF f, K
  <2>1. f \in Seq(X) /\ ToSet(f) = ToSet(s) \cap K /\ InOrderOf(f, s)
    BY <1>3, KeepProperties
  <2> QED BY <2>1 DEF K, f
<1> QED BY <1>1, <1>2, <1>3

(* A policy that names the tool is in its scope; one without tools is in   *)
(* the scope of any.                                                       *)
LEMMA ScopeOfTools ==
  ASSUME NEW tools, NEW tool, tool \in tools \/ tools = {}
  PROVE  inScope(tools, tool)
<1>1. CASE tools = {}
  BY <1>1 DEF inScope, unscoped
<1>2. CASE tool \in tools /\ tools = {tool}
  BY <1>2 DEF inScope
<1>3. CASE tool \in tools /\ tools # {tool}
  BY <1>3 DEF inScope, unscoped
<1> QED BY <1>1, <1>2, <1>3

(* What matchBindings returns.                                             *)
LEMMA MatchProperties ==
  ASSUME NEW X, NEW s \in Seq(X), NEW tool, NEW session
  PROVE  /\ matchBindings(s, tool, session) \in Seq(X)
         /\ ToSet(matchBindings(s, tool, session)) \subseteq ToSet(s)
         /\ InOrderOf(matchBindings(s, tool, session), s)
         /\ SelectsExactly(s, tool, session)
<1> DEFINE K == {m \in ToSet(s) : tool \in m.tools}
           b == byTool(s, tool)
           asked == matchBindings(s, tool, session)
           Exact == \A m \in ToSet(s) : inScope(m.sessions, session) =>
             /\ tool \in m.tools => m \in ToSet(asked)
             /\ m.tools = {} => (m \in ToSet(asked) <=> \A o \in ToSet(s) : tool \notin o.tools)
<1>1. b \in Seq(X) /\ ToSet(b) = K /\ InOrderOf(b, s)
  <2>1. b \in Seq(X) /\ ToSet(b) = ToSet(s) \cap K /\ InOrderOf(b, s)
    BY KeepProperties DEF byTool
  <2> QED BY <2>1
<1>2. /\ b = <<>> => asked = filterByScope(s, tool, session)
      /\ b # <<>> => asked = filterByScope(b, tool, session)
  BY DEF matchBindings
<1>3. \A m : inScope(m.sessions, session) /\ (tool \in m.tools \/ m.tools = {})
        => matchesScope(m, tool, session)
  BY ScopeOfTools DEF matchesScope
<1> HIDE DEF b, asked
<1>4. CASE b = <<>>
  <2>1. /\ asked \in Seq(X) /\ ToSet(asked) \subseteq ToSet(s) /\ InOrderOf(asked, s)
        /\ \A m \in ToSet(s) : matchesScope(m, tool, session) => m \in ToSet(asked)
    BY <1>2, <1>4, FilterProperties
  <2>2. \A o \in ToSet(s) : tool \notin o.tools
    BY <1>1, <1>4, ListElements
  <2>3. Exact
    BY <1>3, <2>1, <2>2
  <2> QED BY <2>1, <2>3 DEF SelectsExactly, InOrderOf, asked
<1>5. CASE b # <<>>
  <2>1. /\ asked \in Seq(X) /\ ToSet(asked) \subseteq ToSet(b) /\ InOrderOf(asked, b)
        /\ \A m \in ToSet(b) : matchesScope(m, tool, session) => m \in ToSet(asked)
    BY <1>1, <1>2, <1>5, FilterProperties
  <2>2. InOrderOf(asked, s)
    BY <1>1, <2>1, InOrderTransitive
  <2>3. \E o \in ToSet(s) : tool \in o.tools
    <3>1. b[1] \in ToSet(b)
      BY <1>1, <1>5, ListElements
    <3> QED BY <1>1, <3>1
  <2>4. Exact
    BY <1>1, <1>3, <2>1, <2>3
  <2>5. ToSet(asked) \subseteq ToSet(s)
    BY <1>1, <2>1
  <2> QED BY <2>1, <2>2, <2>4, <2>5 DEF SelectsExactly, InOrderOf, asked
<1> QED BY <1>4, <1>5

(* The order of the layers survives the selection.                         *)
LEMMA SelectedLayers ==
  ASSUME NEW t, NEW s, Layered(s), InOrderOf(t, s)
  PROVE  Layered(t)
BY DEF Layered, InOrderOf

(* A name that only one manifest has stands for that manifest's program.   *)
LEMMA ProgramOfName ==
  ASSUME NEW X, NEW s \in Seq(X), NEW m \in ToSet(s),
         \A o \in ToSet(s) : o.name = m.name => o = m
  PROVE  program(s, m.name) = buildCombinedExpression(m)
<1> DEFINE T == {i \in DOMAIN s : s[i].name = m.name}
           IsLast(i) == s[i].name = m.name /\ \A j \in DOMAIN s : s[j].name = m.name => j <= i
           c == CHOOSE i \in DOMAIN s : IsLast(i)
<1>1. DOMAIN s = 1 .. Len(s) /\ Len(s) \in Nat /\ \A i \in DOMAIN s : s[i] \in ToSet(s)
  BY ListElements
<1>2. T \in SUBSET (1 .. Len(s)) /\ T # {}
  BY <1>1 DEF ToSet
<1>3. \E i \in DOMAIN s : IsLast(i)
  <2>1. PICK i \in T : \A j \in T : j <= i
    <3> HIDE DEF T
    <3> QED BY <1>1, <1>2, LastPosition
  <2> QED BY <2>1
<1>4. c \in DOMAIN s /\ s[c].name = m.name
  <2>1. c \in DOMAIN s /\ IsLast(c)
    <3> HIDE DEF IsLast
    <3> QED BY <1>3, Zenon
  <2> QED BY <2>1
<1>5. s[c] = m
  <2> HIDE DEF c
  <2> QED BY <1>1, <1>4
<1>6. program(s, m.name) = buildCombinedExpression(s[c])
  BY DEF program
<1> HIDE DEF c
<1> QED BY <1>5, <1>6

(* One validation that denies decides the program of its manifest.         *)
LEMMA DenialIsProgram ==
  ASSUME NEW m, NEW v \in ToSet(m.vals), v.action = "DENY", v.value = "holds"
  PROVE  buildCombinedExpression(m) = [result |-> "refuses", approval |-> FALSE]
<1> DEFINE deny == withAction(m, "DENY")
<1>1. v \in deny
  BY DEF withAction
<1>2. anyHolds(deny) = "refuses"
  <2> HIDE DEF deny
  <2> QED BY <1>1 DEF anyHolds
<1>3. deny # {}
  <2> HIDE DEF deny
  <2> QED BY <1>1
<1>4. buildCombinedExpression(m) = [result |-> anyHolds(deny), approval |-> FALSE]
  BY <1>3 DEF buildCombinedExpression
<1> QED BY <1>2, <1>4

(* What the policy layer is asked, and in which order.                     *)
LEMMA ConsultedProperties ==
  ASSUME NEW ms, ms \in Seq(ToSet(ms)), NEW tool, NEW session
  PROVE  /\ ParsePolicyDir(ms) \in Seq(ToSet(ms))
         /\ ToSet(ParsePolicyDir(ms)) \subseteq ToSet(ms)
         /\ consulted(ms, tool, session) \in Seq(ToSet(ms))
         /\ ToSet(consulted(ms, tool, session)) \subseteq ToSet(ParsePolicyDir(ms))
         /\ Layered(consulted(ms, tool, session))
<1> DEFINE X == ToSet(ms)
           known == ParsePolicyDir(ms)
           sorted == sortByLayer(known)
           asked == matchBindings(sorted, tool, session)
<1>1. known \in Seq(X) /\ ToSet(known) \subseteq X
  BY KeepProperties DEF ParsePolicyDir
<1> HIDE DEF known
<1>2. sorted \in Seq(X) /\ ToSet(sorted) = ToSet(known) /\ Layered(sorted)
  BY <1>1, SortProperties
<1> HIDE DEF sorted
<1>3. asked \in Seq(X) /\ ToSet(asked) \subseteq ToSet(sorted) /\ InOrderOf(asked, sorted)
  BY <1>2, MatchProperties
<1> HIDE DEF asked
<1>4. Layered(asked)
  BY <1>2, <1>3, SelectedLayers
<1>5. consulted(ms, tool, session) = asked
  BY DEF consulted, known, sorted, asked
<1> QED BY <1>1, <1>2, <1>3, <1>4, <1>5 DEF known

LEMMA DenialHonoured ==
  ASSUME NEW ms, ms \in Seq(ToSet(ms)), NEW tool, NEW session, NEW effects
  PROVE  HonoursDeny(ms, tool, session, effects)
<1> DEFINE X == ToSet(ms)
           known == ParsePolicyDir(ms)
           asked == consulted(ms, tool, session)
           answer == evaluate(ms, tool, session, effects)
           refusing == {i \in DOMAIN asked : refuses(known, asked[i], effects)}
           c == CHOOSE i \in refusing : \A j \in refusing : i <= j
<1>1. /\ known \in Seq(X) /\ ToSet(known) \subseteq X
      /\ asked \in Seq(X) /\ ToSet(asked) \subseteq ToSet(known) /\ Layered(asked)
  BY ConsultedProperties
<1>2. answer = IF refusing = {} THEN "allow" ELSE answerOf(known, asked[c])
  BY DEF evaluate
<1> HIDE DEF known, asked, answer
<1>3. SUFFICES ASSUME NEW m \in ToSet(asked),
                      \E v \in ToSet(m.vals) : v.action = "DENY" /\ v.value = "holds",
                      \A o \in ToSet(ms) : o.name = m.name => o = m,
                      hasAllEffects(effects, m.effects)
               PROVE  /\ answer # "allow"
                      /\ (\A o \in ToSet(asked) \ {m} :
                            refuses(known, o, effects) => priority(o) > priority(m))
                          => answer = "deny"
  BY DEF HonoursDeny, known, asked, answer
<1>4. program(known, m.name) = [result |-> "refuses", approval |-> FALSE]
      /\ buildCombinedExpression(m) = [result |-> "refuses", approval |-> FALSE]
  <2>1. buildCombinedExpression(m) = [result |-> "refuses", approval |-> FALSE]
    BY <1>3, DenialIsProgram
  <2>2. program(known, m.name) = buildCombinedExpression(m)
    BY <1>1, <1>3, ProgramOfName
  <2> QED BY <2>1, <2>2
<1>5. refuses(known, m, effects) /\ answerOf(known, m) = "deny"
  BY <1>3, <1>4 DEF refuses, answerOf
<1>6. /\ DOMAIN asked = 1 .. Len(asked) /\ Len(asked) \in Nat
      /\ \A i \in DOMAIN asked : asked[i] \in ToSet(asked)
  BY <1>1, ListElements
<1>7. PICK k \in DOMAIN asked : asked[k] = m
  BY <1>3 DEF ToSet
<1>8. k \in refusing /\ refusing \in SUBSET (1 .. Len(asked))
  BY <1>5, <1>6, <1>7
<1>9. c \in refusing /\ c <= k
  <2> HIDE DEF refusing
  <2>1. \E i \in refusing : \A j \in refusing : i <= j
    BY <1>6, <1>8, FirstPosition
  <2>2. c \in refusing /\ \A j \in refusing : c <= j
    BY <2>1, Zenon
  <2> QED BY <1>8, <2>2
<1> HIDE DEF c
<1>10. answer = answerOf(known, asked[c])
  <2> HIDE DEF refusing
  <2> QED BY <1>2, <1>8
<1>11. answer # "allow"
  BY <1>10 DEF answerOf
<1>12. ASSUME \A o \in ToSet(asked) \ {m} :
                refuses(known, o, effects) => priority(o) > priority(m)
       PROVE  answer = "deny"
  <2>1. c \in DOMAIN asked /\ refuses(known, asked[c], effects) /\ asked[c] \in ToSet(asked)
    BY <1>6, <1>9
  <2>2. asked[c] = m
    <3>1. SUFFICES ASSUME asked[c] # m PROVE FALSE
      OBVIOUS
    <3>2. priority(asked[c]) > priority(m)
      BY <1>12, <2>1, <3>1
    <3>3. c < k
      BY <1>6, <1>7, <1>9, <2>1, <3>1
    <3>4. priority(asked[c]) <= priority(m)
      BY <1>1, <1>7, <2>1, <3>3 DEF Layered
    <3>5. priority(asked[c]) \in Int /\ priority(m) \in Int
      BY PriorityType
    <3> QED BY <3>2, <3>4, <3>5
  <2> QED BY <1>5, <1>10, <2>2
<1> QED BY <1>11, <1>12

(* For policies of any number, scope and order, any tool and any session:  *)
(* the index by tool, the scope keys and the fast path for a first binding *)
(* without scope neither lose a policy that names the tool nor reorder the *)
(* policies (engine.go, matchBindings and filterByScope).                  *)
THEOREM SelectionExactHolds == LoaderSpec => []SelectionExact
<1>1. SelectionExact
  BY PoliciesAssumption, MatchProperties DEF SelectionExact
<1> QED BY <1>1, PTL

(* For policies of any number, layer, scope and content, and any effects:  *)
(* neither the order of the layers nor the first answer of the loop takes  *)
(* back a denial that holds (loader.go, compile; engine.go,                *)
(* evaluateWithSnapshot).                                                  *)
THEOREM DenyHonouredHolds == LoaderSpec => []DenyHonoured
<1>1. DenyHonoured
  BY PoliciesAssumption, DenialHonoured DEF DenyHonoured
<1> QED BY <1>1, PTL
=============================================================================
