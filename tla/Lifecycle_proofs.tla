-------------------------- MODULE Lifecycle_proofs --------------------------
(***************************************************************************)
(* Proofs about Lifecycle and its configuration, for any surroundings of a *)
(* start, any applications and any number of requests, and about Tracker,  *)
(* for any ids and PIDs.                                                   *)
(***************************************************************************)
EXTENDS Lifecycle, Tracker, TLAPS

-----------------------------------------------------------------------------
(* Load.                                                                     *)

\* Over changes no option's place and takes what the layer mentions.
LEMMA OverLayers ==
    ASSUME NEW layer, NEW c
    PROVE  /\ DOMAIN Over(layer, c) = DOMAIN c
           /\ \A k \in DOMAIN c :
                 Over(layer, c)[k] = IF k \in DOMAIN layer THEN layer[k] ELSE c[k]
  BY DEF Over

LEMMA DefaultsComplete == DOMAIN Defaults = Options
  BY DEF Defaults, Options, Texts

\* What Load returns without an error: the layers one over the other, none of
\* which has a typo.
LEMMA LoadIsLayered ==
    ASSUME NEW s, Load(s) # Refused
    PROVE  /\ Load(s) = Over(s.flags, Over(s.env, Over(fileOf(s), Defaults)))
           /\ ~Unparsable(fileOf(s)) /\ ~Unparsable(s.env) /\ ~Unparsable(s.flags)
           /\ Validate(Load(s))
<1> DEFINE path == IF s.config = NotGiven THEN DefaultPath ELSE s.config
           read == LoadFile(s, path, Defaults)
           withEnv == ApplyEnv(s, read)
           c == applyFlagOverrides(parseFlags(s), withEnv)
<1>1. /\ parseFlags(s) # Refused /\ read # Refused /\ withEnv # Refused
      /\ Validate(c) /\ Load(s) = c
  BY DEF Load
<1>2. parseFlags(s) = s.flags /\ ~Unparsable(s.flags)
  BY <1>1 DEF parseFlags
<1>3. withEnv = Over(s.env, read) /\ ~Unparsable(s.env)
  BY <1>1 DEF ApplyEnv
<1>4. read = Over(fileOf(s), Defaults) /\ ~Unparsable(fileOf(s))
  <2>1. CASE path \in DOMAIN s.files
    <3>1. fileOf(s) = s.files[path]
      BY <2>1 DEF fileOf
    <3>. QED  BY <1>1, <2>1, <3>1 DEF LoadFile, applyTo
  <2>2. CASE path \notin DOMAIN s.files
    <3>1. fileOf(s) = NoLayer /\ read = Defaults
      BY <2>2 DEF fileOf, LoadFile
    <3>2. DOMAIN NoLayer = {}
      BY DEF NoLayer
    <3>3. ~Unparsable(NoLayer)
      BY <3>2 DEF Unparsable
    <3>4. Over(NoLayer, Defaults) = Defaults
      BY <3>2 DEF Over, Defaults
    <3>. QED  BY <3>1, <3>3, <3>4
  <2>. QED  BY <2>1, <2>2
<1>. QED  BY <1>1, <1>2, <1>3, <1>4 DEF applyFlagOverrides

LEMMA LoadInOrder ==
    ASSUME NEW s, Load(s) # Refused
    PROVE  InOrder(Load(s), s)
<1> DEFINE layers == <<Defaults, fileOf(s), s.env, s.flags>>
<1>1. /\ layers[1] = Defaults /\ layers[2] = fileOf(s)
      /\ layers[3] = s.env /\ layers[4] = s.flags
  OBVIOUS
<1> HIDE DEF layers
<1>2. \A i \in 2..4 : ~Unparsable(layers[i])
  <2> SUFFICES ASSUME NEW i \in 2..4 PROVE ~Unparsable(layers[i])
    OBVIOUS
  <2>1. i = 2 \/ i = 3 \/ i = 4
    OBVIOUS
  <2>. QED  BY <1>1, <2>1, LoadIsLayered
<1>3. ASSUME NEW k \in Options
      PROVE  \E i \in 1..4 : /\ k \in DOMAIN layers[i] /\ Load(s)[k] = layers[i][k]
                             /\ \A j \in (i + 1)..4 : k \notin DOMAIN layers[j]
  <2> DEFINE a == Over(layers[2], Defaults)
             b == Over(layers[3], a)
  <2>1. Load(s) = Over(layers[4], b)
    BY <1>1, LoadIsLayered
  <2>2. DOMAIN a = Options /\ DOMAIN b = Options
    BY OverLayers, DefaultsComplete
  <2>3. /\ a[k] = IF k \in DOMAIN layers[2] THEN layers[2][k] ELSE Defaults[k]
        /\ b[k] = IF k \in DOMAIN layers[3] THEN layers[3][k] ELSE a[k]
        /\ Load(s)[k] = IF k \in DOMAIN layers[4] THEN layers[4][k] ELSE b[k]
    BY <2>1, <2>2, OverLayers, DefaultsComplete
  <2> HIDE DEF a, b
  <2>4. CASE k \in DOMAIN layers[4]
    <3>1. \A j \in (4 + 1)..4 : k \notin DOMAIN layers[j]
      OBVIOUS
    <3>. QED  BY <2>3, <2>4, <3>1
  <2>5. CASE k \notin DOMAIN layers[4] /\ k \in DOMAIN layers[3]
    <3>1. \A j \in (3 + 1)..4 : j = 4
      OBVIOUS
    <3>. QED  BY <2>3, <2>5, <3>1
  <2>6. CASE k \notin DOMAIN layers[4] /\ k \notin DOMAIN layers[3] /\ k \in DOMAIN layers[2]
    <3>1. \A j \in (2 + 1)..4 : j = 3 \/ j = 4
      OBVIOUS
    <3>. QED  BY <2>3, <2>6, <3>1
  <2>7. CASE \A j \in 2..4 : k \notin DOMAIN layers[j]
    <3>1. k \in DOMAIN layers[1]
      BY <1>1, DefaultsComplete
    <3>. QED  BY <1>1, <2>3, <2>7, <3>1
  <2>8. \A j \in 2..4 : j = 2 \/ j = 3 \/ j = 4
    OBVIOUS
  <2>. QED  BY <2>4, <2>5, <2>6, <2>7, <2>8
<1>. QED  BY <1>2, <1>3 DEF InOrder, layers

-----------------------------------------------------------------------------
(* The process.                                                              *)

LEMMA ZeroBusy == 0 \in 0..MaxBusy
  BY LifeAssumption

LEMMA TypeInit == Init => TypeOK
<1> SUFFICES ASSUME Init PROVE TypeOK
  OBVIOUS
<1>1. apps \in SUBSET Apps /\ signalled \in BOOLEAN
  BY DEF Init
<1>. QED  BY <1>1, ZeroBusy DEF Init, TypeOK

LEMMA TypeNext ==
    ASSUME TypeOK, [Next]_vars
    PROVE  TypeOK'
<1>1. CASE Start
  BY <1>1 DEF Start, TypeOK, servers, history
<1>2. CASE StartFails
  BY <1>2, ZeroBusy DEF StartFails, TypeOK, servers, history
<1>3. CASE Killed
  BY <1>3, ZeroBusy DEF Killed, Exit, TypeOK, servers, history
<1>4. CASE Signal
  BY <1>4 DEF Signal, TypeOK, servers, history
<1>5. CASE Stop
  BY <1>5 DEF Stop, TypeOK, servers, history
<1>6. CASE ApiListens
  BY <1>6 DEF ApiListens, TypeOK, servers, history
<1>7. CASE ApiFails
  BY <1>7 DEF ApiFails, TypeOK, servers, history
<1>8. CASE ApiRequest
  BY <1>8, LifeAssumption DEF ApiRequest, TypeOK, servers, history
<1>9. CASE ApiDone
  BY <1>9, LifeAssumption DEF ApiDone, TypeOK, servers, history
<1>10. CASE WebListens
  BY <1>10 DEF WebListens, TypeOK, servers, history
<1>11. CASE WebFails
  BY <1>11 DEF WebFails, TypeOK, servers, history
<1>12. CASE WebRequest
  BY <1>12, LifeAssumption DEF WebRequest, TypeOK, servers, history
<1>13. CASE WebDone
  BY <1>13, LifeAssumption DEF WebDone, TypeOK, servers, history
<1>14. CASE SelectError
  BY <1>14, ZeroBusy DEF SelectError, Exit, TypeOK, servers, history
<1>15. CASE BeginShutdown
  BY <1>15 DEF BeginShutdown, TypeOK, servers, history
<1>16. CASE ApiDrained
  BY <1>16, ZeroBusy DEF ApiDrained, Exit, TypeOK, servers, history
<1>17. CASE ApiTimeout
  BY <1>17, ZeroBusy DEF ApiTimeout, Exit, TypeOK, servers, history
<1>18. CASE WebDrained
  BY <1>18, ZeroBusy DEF WebDrained, Exit, TypeOK, servers, history
<1>19. CASE GraceExpires
  BY <1>19 DEF GraceExpires, TypeOK, servers, history
<1>20. CASE \E a \in Apps : AppExits(a)
  BY <1>20 DEF AppExits, TypeOK, servers, history
<1>21. CASE UNCHANGED vars
  BY <1>21 DEF vars, TypeOK, servers, history
<1>. QED  BY <1>1, <1>2, <1>3, <1>4, <1>5, <1>6, <1>7, <1>8, <1>9, <1>10,
        <1>11, <1>12, <1>13, <1>14, <1>15, <1>16, <1>17, <1>18, <1>19,
        <1>20, <1>21 DEF Next, Main

\* Types of the unit, the process, its servers and channels.
THEOREM TypeCorrect == Spec => []TypeOK
<1>. QED  BY TypeInit, TypeNext, PTL DEF Spec

\* What the steps of main leave behind: a process runs with a configuration that
\* was not refused, has an admin page only if that says so, and webErr is closed
\* only if it does not; while it drains, its API takes no more requests.
MainInv ==
    /\ main # "off" => cfg = Load(setup) /\ Load(setup) # Refused
    /\ main # "off" /\ web # "off" => cfg.web
    /\ main # "off" /\ cfg.web => webErr # "closed"
    /\ main \in {"drainApi", "drainWeb"} => api = "closed" /\ (cfg.web => signalled)
    /\ main = "drainWeb" => apiBusy = 0
    /\ lastExit = "clean" => apiCut = 0

LEMMA MainInit == Init => MainInv
  BY DEF Init, MainInv

LEMMA MainNext ==
    ASSUME MainInv, [Next]_vars
    PROVE  MainInv'
<1>1. CASE Start
  BY <1>1 DEF Start, MainInv, servers, history
<1>2. CASE StartFails
  BY <1>2 DEF StartFails, MainInv, servers, history
<1>3. CASE Killed
  BY <1>3 DEF Killed, Exit, MainInv, servers, history
<1>4. CASE Signal
  BY <1>4 DEF Signal, MainInv, servers, history
<1>5. CASE Stop
  BY <1>5 DEF Stop, MainInv, servers, history
<1>6. CASE ApiListens
  BY <1>6 DEF ApiListens, MainInv, servers, history
<1>7. CASE ApiFails
  BY <1>7 DEF ApiFails, MainInv, servers, history
<1>8. CASE ApiRequest
  BY <1>8 DEF ApiRequest, MainInv, servers, history
<1>9. CASE ApiDone
  BY <1>9 DEF ApiDone, MainInv, servers, history
<1>10. CASE WebListens
  BY <1>10 DEF WebListens, MainInv, servers, history
<1>11. CASE WebFails
  BY <1>11 DEF WebFails, MainInv, servers, history
<1>12. CASE WebRequest
  BY <1>12 DEF WebRequest, MainInv, servers, history
<1>13. CASE WebDone
  BY <1>13 DEF WebDone, MainInv, servers, history
<1>14. CASE SelectError
  BY <1>14 DEF SelectError, Exit, MainInv, servers, history
<1>15. CASE BeginShutdown
  BY <1>15 DEF BeginShutdown, MainInv, servers, history
<1>16. CASE ApiDrained
  BY <1>16 DEF ApiDrained, Exit, MainInv, servers, history
<1>17. CASE ApiTimeout
  BY <1>17 DEF ApiTimeout, Exit, MainInv, servers, history
<1>18. CASE WebDrained
  BY <1>18 DEF WebDrained, Exit, MainInv, servers, history
<1>19. CASE GraceExpires
  BY <1>19 DEF GraceExpires, MainInv, servers, history
<1>20. CASE \E a \in Apps : AppExits(a)
  BY <1>20 DEF AppExits, MainInv, servers, history
<1>21. CASE UNCHANGED vars
  BY <1>21 DEF vars, MainInv, servers, history
<1>. QED  BY <1>1, <1>2, <1>3, <1>4, <1>5, <1>6, <1>7, <1>8, <1>9, <1>10,
        <1>11, <1>12, <1>13, <1>14, <1>15, <1>16, <1>17, <1>18, <1>19,
        <1>20, <1>21 DEF Next, Main

LEMMA MainAlways == Spec => []MainInv
<1>. QED  BY MainInit, MainNext, PTL DEF Spec

\* The configuration of a server that runs has every option from the topmost
\* layer that mentions it, was made of layers without a typo, and satisfies the
\* rules that its parts rely on.
THEOREM Configured == Spec => []RunsAsConfigured
<1>1. MainInv => RunsAsConfigured
  <2> SUFFICES ASSUME MainInv, main # "off" PROVE InOrder(cfg, setup) /\ WhatRunsIsSound
    BY DEF RunsAsConfigured
  <2>1. cfg = Load(setup) /\ Load(setup) # Refused /\ (web # "off" => cfg.web)
    BY DEF MainInv
  <2>2. InOrder(cfg, setup)
    BY <2>1, LoadInOrder
  <2>3. Validate(cfg)
    BY <2>1, LoadIsLayered
  <2>4. WhatRunsIsSound
    BY <2>1, <2>3 DEF Validate, validateWebListenAddr, WhatRunsIsSound
  <2>. QED  BY <2>2, <2>4
<1>. QED  BY <1>1, MainAlways, PTL

\* With the admin page on, the server drains only after a signal.
THEOREM DrainsWhenTold == Spec => []PageOnDrainsOnlyWhenTold
<1>1. MainInv => PageOnDrainsOnlyWhenTold
  BY DEF MainInv, PageOnDrainsOnlyWhenTold, DrainsOnlyWhenTold
<1>. QED  BY <1>1, MainAlways, PTL

\* After a clean exit no API request was left unanswered.
THEOREM CleanExit == Spec => []CleanExitCutsNothing
<1>1. MainInv => CleanExitCutsNothing
  BY DEF MainInv, CleanExitCutsNothing
<1>. QED  BY <1>1, MainAlways, PTL

-----------------------------------------------------------------------------
(* The tracker.  One inductive invariant: an entry is backed by a live or a  *)
(* pending reaper, a run whose PID was fresh has no Forget against it, and   *)
(* such a run is in the list.                                                *)

\* No Forget waits for a run whose PID was not reused.
FreshInv ==
    \A id \in Ids, p \in Pids :
        Ours(p) /\ proc[p].id = id /\ ~proc[p].reused => late[id][p] = 0

KnownInv == \A p \in Pids : Ours(p) => proc[p].id \in Ids

TrackerInv == TrackerTypeOK /\ KnownInv /\ EveryEntryHasReaper /\ FreshInv
            /\ TrackedUnlessReused

LEMMA ProcessTypes ==
    NoProcess \in Process /\ \A f \in BOOLEAN : Other(f) \in Process
BY DEF Process, NoProcess, Other

LEMMA InitInv == TrackerInit => TrackerInv
<1> SUFFICES ASSUME TrackerInit PROVE TrackerInv
  OBVIOUS
<1>1. \A p \in Pids : proc[p] \in {NoProcess, Other(FALSE), Other(TRUE)}
  BY DEF TrackerInit
<1>2. \A p \in Pids : ~Ours(p)
  BY <1>1 DEF Ours, NoProcess, Other
<1>3. proc \in [Pids -> Process]
  <2> HIDE DEF Process
  <2> QED
    BY ProcessTypes DEF TrackerInit
<1>4. \A id \in Ids, p \in Pids : pids[id][p] = 0 /\ late[id][p] = 0
  BY DEF TrackerInit, Nothing
<1>5. TrackerTypeOK
  BY <1>3 DEF TrackerInit, Nothing, TrackerTypeOK
<1> QED
  BY <1>2, <1>4, <1>5 DEF TrackerInv, KnownInv, EveryEntryHasReaper, FreshInv,
                          TrackedUnlessReused, Ours, Runs

\* The list of an id and its pending Forgets are functions to the naturals.
LEMMA CountType ==
    ASSUME TrackerTypeOK, NEW id \in Ids, NEW p \in Pids
    PROVE  /\ pids[id][p] \in Nat /\ late[id][p] \in Nat
           /\ pids[id] \in [Pids -> Nat] /\ late[id] \in [Pids -> Nat]
BY DEF TrackerTypeOK

\* Steps that change one count of a table of counts keep its type.
LEMMA TableUpdate ==
    ASSUME NEW t \in [Ids -> [Pids -> Nat]], NEW id \in Ids, NEW p \in Pids,
           NEW n \in Nat
    PROVE  /\ [t EXCEPT ![id][p] = n] \in [Ids -> [Pids -> Nat]]
           /\ \A i \in Ids, q \in Pids :
                [t EXCEPT ![id][p] = n][i][q] =
                    IF i = id /\ q = p THEN n ELSE t[i][q]
OBVIOUS

LEMMA StartInv ==
    ASSUME TrackerInv, NEW id \in Ids, NEW p \in Pids, NEW f \in BOOLEAN,
           StartChild(id, p, f)
    PROVE  TrackerInv'
<1> USE CountType DEF TrackerInv
<1> DEFINE run == [kind |-> "child", id |-> id, foreign |-> f,
                   registered |-> FALSE, reused |-> late[id][p] > 0]
<1>1. /\ \A q \in Pids : proc'[q] = IF q = p THEN run ELSE proc[q]
      /\ pids' = pids /\ late' = late
  BY DEF StartChild, TrackerTypeOK
<1>2. run \in Process
  BY DEF Process
<1>3. TrackerTypeOK'
  BY <1>1, <1>2 DEF StartChild, TrackerTypeOK
<1>4. proc[p].kind = "none"
  BY DEF StartChild
<1>5. KnownInv'
  BY <1>1 DEF KnownInv, Ours
<1>6. EveryEntryHasReaper'
  BY <1>1, <1>4 DEF EveryEntryHasReaper, Ours
<1>7. FreshInv'
  <2>1. ~run.reused => late[id][p] = 0
    <3>1. late[id][p] \in Nat /\ (run.reused <=> late[id][p] > 0)
      OBVIOUS
    <3> QED
      BY <3>1
  <2> HIDE DEF run
  <2>2. run.id = id
    BY DEF run
  <2> QED
    BY <1>1, <2>1, <2>2 DEF FreshInv, Ours
<1>8. TrackedUnlessReused'
  BY <1>1 DEF TrackedUnlessReused, Runs
<1> QED
  BY <1>3, <1>5, <1>6, <1>7, <1>8

LEMMA RegisterInv ==
    ASSUME TrackerInv, NEW p \in Pids, Register(p)
    PROVE  TrackerInv'
<1> USE CountType DEF TrackerInv
<1> DEFINE id == proc[p].id
<1>1. id \in Ids /\ proc[p] \in Process /\ Ours(p) /\ ~proc[p].registered
  BY DEF Register, KnownInv, TrackerTypeOK
<1>2. pids' = [pids EXCEPT ![id][p] = pids[id][p] + 1] /\ late' = late
  BY DEF Register
<1>3. /\ pids' \in [Ids -> [Pids -> Nat]]
      /\ \A i \in Ids, q \in Pids :
           pids'[i][q] = IF i = id /\ q = p THEN pids[i][q] + 1 ELSE pids[i][q]
  <2> HIDE DEF id
  <2>1. pids[id][p] + 1 \in Nat
    BY <1>1
  <2> QED
    BY <1>1, <1>2, <2>1, TableUpdate DEF TrackerTypeOK
<1>4. \A q \in Pids :
        /\ q # p => proc'[q] = proc[q]
        /\ proc'[q].kind = proc[q].kind /\ proc'[q].id = proc[q].id
        /\ proc'[q].reused = proc[q].reused
  BY <1>1 DEF Register, TrackerTypeOK, Process
<1>5. proc'[p].registered
  BY <1>1 DEF Register, TrackerTypeOK, Process
<1>6. TrackerTypeOK'
  <2>1. proc' \in [Pids -> Process]
    BY <1>1 DEF Register, TrackerTypeOK, Process
  <2> QED
    BY <1>2, <1>3, <2>1 DEF TrackerTypeOK
<1>7. KnownInv' /\ FreshInv'
  BY <1>2, <1>4 DEF KnownInv, FreshInv, Ours
<1>8. EveryEntryHasReaper'
  BY <1>1, <1>2, <1>3, <1>4, <1>5 DEF EveryEntryHasReaper, Ours
<1>9. TrackedUnlessReused'
  BY <1>1, <1>3, <1>4, <1>5 DEF TrackedUnlessReused, Runs
<1> QED
  BY <1>6, <1>7, <1>8, <1>9

LEMMA ReapInv ==
    ASSUME TrackerInv, NEW p \in Pids, Reap(p)
    PROVE  TrackerInv'
<1> USE CountType DEF TrackerInv
<1> DEFINE id == proc[p].id
<1>1. id \in Ids /\ Ours(p) /\ proc[p].registered
  BY DEF Reap, KnownInv, Ours
<1>2. /\ late' = [late EXCEPT ![id][p] = late[id][p] + 1] /\ pids' = pids
      /\ \A q \in Pids : proc'[q] = IF q = p THEN NoProcess ELSE proc[q]
  BY DEF Reap, TrackerTypeOK
<1>3. /\ late' \in [Ids -> [Pids -> Nat]]
      /\ \A i \in Ids, q \in Pids :
           late'[i][q] = IF i = id /\ q = p THEN late[i][q] + 1 ELSE late[i][q]
  <2> HIDE DEF id
  <2>1. late[id][p] + 1 \in Nat
    BY <1>1
  <2> QED
    BY <1>1, <1>2, <2>1, TableUpdate DEF TrackerTypeOK
<1>4. TrackerTypeOK'
  BY <1>2, <1>3 DEF Reap, TrackerTypeOK, NoProcess, Process
<1>10. \A q \in Pids : Ours(q)' => q # p /\ Ours(q) /\ proc'[q] = proc[q]
  BY <1>2 DEF Ours, NoProcess
<1>5. KnownInv'
  BY <1>10 DEF KnownInv
<1>11. FreshInv'
  BY <1>3, <1>10 DEF FreshInv
<1>12. TrackedUnlessReused'
  BY <1>2, <1>10 DEF TrackedUnlessReused, Runs, Ours
<1>6. EveryEntryHasReaper'
  BY <1>1, <1>2, <1>3 DEF EveryEntryHasReaper, Ours, NoProcess
<1> QED
  BY <1>4, <1>5, <1>11, <1>12, <1>6

LEMMA ForgetInv ==
    ASSUME TrackerInv, NEW id \in Ids, NEW p \in Pids, Forget(id, p)
    PROVE  TrackerInv'
<1> USE CountType DEF TrackerInv
<1> DEFINE left == IF pids[id][p] > 0 THEN pids[id][p] - 1 ELSE 0
<1>1. late[id][p] \in Nat /\ late[id][p] > 0 /\ pids[id][p] \in Nat
  BY DEF Forget
<1>2. left \in Nat /\ late[id][p] - 1 \in Nat
  BY <1>1
<1>3. /\ late' = [late EXCEPT ![id][p] = late[id][p] - 1]
      /\ pids' = [pids EXCEPT ![id][p] = left]
      /\ proc' = proc
  BY DEF Forget
<1>4. /\ late' \in [Ids -> [Pids -> Nat]] /\ pids' \in [Ids -> [Pids -> Nat]]
      /\ \A i \in Ids, q \in Pids :
           /\ late'[i][q] = IF i = id /\ q = p THEN late[id][p] - 1 ELSE late[i][q]
           /\ pids'[i][q] = IF i = id /\ q = p THEN left ELSE pids[i][q]
  <2> HIDE DEF left
  <2> QED
    BY <1>2, <1>3, TableUpdate DEF TrackerTypeOK
<1>5. TrackerTypeOK' /\ KnownInv'
  BY <1>3, <1>4 DEF TrackerTypeOK, KnownInv, Ours
<1>6. EveryEntryHasReaper'
  BY <1>1, <1>3, <1>4 DEF EveryEntryHasReaper, Ours
<1>7. FreshInv'
  BY <1>1, <1>3, <1>4 DEF FreshInv, Ours
\* The Forget is not against a fresh run: that would be FreshInv broken.
<1>8. TrackedUnlessReused'
  BY <1>1, <1>3, <1>4 DEF FreshInv, TrackedUnlessReused, Ours, Runs
<1> QED
  BY <1>5, <1>6, <1>7, <1>8

\* What Alive and Cleanup do to any list: nothing that runs is dropped.
LEMMA PrunedLess ==
    ASSUME TrackerTypeOK, NEW id \in Ids
    PROVE  /\ Pruned(id) \in [Pids -> Nat]
           /\ \A p \in Pids :
                /\ Pruned(id)[p] <= pids[id][p]
                /\ Ours(p) => Pruned(id)[p] = pids[id][p]
BY CountType DEF Pruned, IsAlive, Probe, Ours

LEMMA PruneInv ==
    ASSUME TrackerInv, UNCHANGED <<proc, late>>, pids' \in [Ids -> [Pids -> Nat]],
           \A id \in Ids : pids'[id] = pids[id] \/ pids'[id] = Pruned(id)
    PROVE  TrackerInv'
<1> USE DEF TrackerInv
<1>1. \A id \in Ids, p \in Pids :
        /\ pids'[id][p] \in Nat /\ pids[id][p] \in Nat /\ late[id][p] \in Nat
        /\ pids'[id][p] <= pids[id][p]
        /\ Ours(p) => pids'[id][p] = pids[id][p]
  BY CountType, PrunedLess
<1>2. TrackerTypeOK' /\ KnownInv' /\ FreshInv'
  BY DEF TrackerTypeOK, KnownInv, FreshInv, Ours
<1>3. EveryEntryHasReaper'
  BY <1>1 DEF EveryEntryHasReaper, Ours
<1>4. TrackedUnlessReused'
  BY <1>1 DEF TrackedUnlessReused, Ours, Runs
<1> QED
  BY <1>2, <1>3, <1>4

LEMMA MachineInv ==
    ASSUME TrackerInv, NEW p \in Pids, NEW f \in BOOLEAN,
           ChildExits(p) \/ OtherStarts(p, f) \/ OtherExits(p)
    PROVE  TrackerInv'
<1> USE CountType DEF TrackerInv
<1>1. pids' = pids /\ late' = late
  BY DEF ChildExits, OtherStarts, OtherExits
<1>2. CASE ChildExits(p)
  <2>1. \A q \in Pids :
          /\ q # p => proc'[q] = proc[q]
          /\ proc'[q].id = proc[q].id
          /\ proc'[q].reused = proc[q].reused
          /\ proc'[q].registered = proc[q].registered
          /\ Ours(q)' <=> Ours(q)
    BY <1>2 DEF ChildExits, TrackerTypeOK, Process, Ours
  <2>2. proc'[p].kind = "exited"
    BY <1>2 DEF ChildExits, TrackerTypeOK, Process
  <2>3. TrackerTypeOK'
    BY <1>1, <1>2 DEF ChildExits, TrackerTypeOK, Process
  <2>4. KnownInv' /\ FreshInv'
    BY <1>1, <2>1 DEF KnownInv, FreshInv
  <2>5. EveryEntryHasReaper'
    BY <1>1, <2>1 DEF EveryEntryHasReaper
  <2>6. TrackedUnlessReused'
    BY <1>1, <2>1, <2>2 DEF TrackedUnlessReused, Runs
  <2> QED
    BY <2>3, <2>4, <2>5, <2>6
<1>3. CASE OtherStarts(p, f) \/ OtherExits(p)
  <2>1. /\ ~Ours(p) /\ ~Ours(p)'
        /\ \A q \in Pids : q # p => proc'[q] = proc[q]
    BY <1>3 DEF OtherStarts, OtherExits, Ours, TrackerTypeOK, NoProcess, Other
  <2>2. TrackerTypeOK'
    BY <1>1, <1>3, ProcessTypes DEF OtherStarts, OtherExits, TrackerTypeOK
  <2>3. KnownInv' /\ FreshInv'
    BY <1>1, <2>1 DEF KnownInv, FreshInv, Ours
  <2>4. EveryEntryHasReaper'
    BY <1>1, <2>1 DEF EveryEntryHasReaper, Ours
  <2>5. TrackedUnlessReused'
    BY <1>1, <2>1 DEF TrackedUnlessReused, Runs, Ours
  <2> QED
    BY <2>2, <2>3, <2>4, <2>5
<1> QED
  BY <1>2, <1>3

LEMMA RestartInv ==
    ASSUME TrackerInv, Restart
    PROVE  TrackerInv'
<1>1. \A p \in Pids : ~Ours(p)'
  BY DEF Restart, Ours, NoProcess, Other
<1>2. TrackerTypeOK'
  BY DEF Restart, TrackerInv, TrackerTypeOK, Process, NoProcess, Other, Nothing
<1>3. \A id \in Ids, p \in Pids : pids'[id][p] = 0 /\ late'[id][p] = 0
  BY DEF Restart, Nothing
<1> QED
  BY <1>1, <1>2, <1>3
  DEF TrackerInv, KnownInv, EveryEntryHasReaper, FreshInv, TrackedUnlessReused,
      Ours, Runs

LEMMA TrackerInvariant == TrackerSpec => []TrackerInv
<1>1. TrackerInv /\ [TrackerNext]_trackerVars => TrackerInv'
  <2> SUFFICES ASSUME TrackerInv, [TrackerNext]_trackerVars PROVE TrackerInv'
    OBVIOUS
  <2>1. CASE UNCHANGED trackerVars
    BY <2>1 DEF TrackerInv, TrackerTypeOK, KnownInv, EveryEntryHasReaper, FreshInv,
                TrackedUnlessReused, Ours, Runs, trackerVars
  <2>2. CASE Cleanup
    <3>1. \A id \in Ids : Pruned(id) \in [Pids -> Nat] /\ pids'[id] = Pruned(id)
      BY <2>2, PrunedLess DEF Cleanup, TrackerInv
    <3>2. pids' \in [Ids -> [Pids -> Nat]]
      BY <2>2, <3>1 DEF Cleanup
    <3> QED
      BY <2>2, <3>1, <3>2, PruneInv DEF Cleanup
  <2>3. ASSUME NEW id \in Ids, Alive(id) PROVE TrackerInv'
    <3>1. /\ pids' \in [Ids -> [Pids -> Nat]]
          /\ \A i \in Ids : pids'[i] = pids[i] \/ pids'[i] = Pruned(i)
      BY <2>3, PrunedLess DEF Alive, TrackerInv, TrackerTypeOK
    <3> QED
      BY <2>3, <3>1, PruneInv DEF Alive
  <2> QED
    BY <2>1, <2>2, <2>3, StartInv, RegisterInv, ReapInv, ForgetInv, MachineInv,
       RestartInv DEF TrackerNext
<1> QED
  BY <1>1, InitInv, PTL DEF TrackerSpec

\* Types: counts never go below zero.
THEOREM TrackerTypeCorrect == TrackerSpec => []TrackerTypeOK
BY TrackerInvariant, PTL DEF TrackerInv

\* Every entry of the tracker is backed by a goroutine that will forget it.
THEOREM NoOrphanEntry == TrackerSpec => []EveryEntryHasReaper
BY TrackerInvariant, PTL DEF TrackerInv

\* A registered child whose PID was fresh is in the list while it runs.
THEOREM Tracked == TrackerSpec => []TrackedUnlessReused
BY TrackerInvariant, PTL DEF TrackerInv

=============================================================================
