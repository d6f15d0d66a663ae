------------------------ MODULE EnginePreloadProofs ------------------------
(***************************************************************************)
(* Proofs about the preload of the engines: what a process that serves has *)
(* loaded, when it may have gone to the Hub, and that the offline flag is  *)
(* back to what it was after every constructor.                            *)
(***************************************************************************)
EXTENDS EnginePreload, TLAPS

\* The constants and the position in the order of the families.
LEMMA PreloadTypes ==
  ASSUME TypeOK
  PROVE  /\ Len(Order) \in Nat /\ DOMAIN Order = 1 .. Len(Order)
         /\ WORKERS \in Nat /\ WORKERS > 0 /\ MaxFaults \in Nat
         /\ at \in Nat /\ at >= 1 /\ at <= Len(Order) + 1
         /\ Loading => Family \in Families
         /\ objects \in Nat
<1>1. Len(Order) \in Nat /\ DOMAIN Order = 1 .. Len(Order)
  BY PreloadAssumption
<1>2. WORKERS \in Nat /\ WORKERS > 0 /\ MaxFaults \in Nat
  BY PreloadAssumption
<1>3. at \in Nat /\ at >= 1 /\ at <= Len(Order) + 1 /\ objects \in Nat
  BY <1>1 DEF TypeOK
<1>4. Loading => Family \in Families
  BY <1>1, <1>3 DEF Loading, Family, Families
<1> QED
  BY <1>1, <1>2, <1>3, <1>4

\* The next family is passed.
LEMMA PassedMoves ==
  ASSUME TypeOK, at' = at + 1
  PROVE  Passed' = Passed \cup {Family}
<1>1. at \in Nat /\ at >= 1
  BY PreloadTypes
<1>2. 1 .. at' - 1 = (1 .. at - 1) \cup {at}
  BY <1>1
<1> QED
  BY <1>2 DEF Passed, Family

----------------------------------------------------------------------------
(* What a step does, for the parts of the invariant.                       *)

\* A replica is begun, for the first time or again; nothing is built yet.
Prepares == BeginReplica \/ RetryOnline

\* A constructor is over, with an engine, without one, or with the process.
Constructs == Construct \/ ConstructorMisses \/ ConstructorFails

\* Nothing is built, and the position may move by a family.
Arranges == SkipFamily \/ FamilyLoaded \/ Start \/ Serve

\* The process ends.
Restarts == Abort \/ Die

\* The actions, as the proofs split them.
LEMMA PreloadMoves ==
  ASSUME [Next]_vars
  PROVE  Prepares \/ Constructs \/ Arranges \/ Restarts \/ UNCHANGED vars
  BY DEF Next, PreloadStep, Prepares, Constructs, Arranges, Restarts

----------------------------------------------------------------------------
(* The flag.                                                               *)

\* Whatever happens to the flag, it is set for a constructor only.
LEMMA FlagStep ==
  ASSUME TypeOK, OfflineIsTemporary, FlagKnown, [Next]_vars
  PROVE  OfflineIsTemporary' /\ FlagKnown'
<1> USE DEF OfflineIsTemporary, FlagKnown, SetFlag, Sync, TypeOK
<1>1. CASE Prepares
  BY <1>1 DEF Prepares, BeginReplica, RetryOnline, EnterOffline, EnsureHubOnline
<1>2. CASE Constructs
  <2>1. /\ step \in {"offline", "online"} /\ step' \in {"next", "missed"} /\ userEnv' = userEnv
        /\ LeaveConstructor
    BY <1>2 DEF Constructs, Construct, ConstructorMisses, ConstructorFails, InConstructor, GiveUp
  <2> QED
    BY <2>1 DEF LeaveConstructor, LeaveOffline, flagVars
<1>3. CASE Arranges
  BY <1>3 DEF Arranges, SkipFamily, FamilyLoaded, Start, Serve, flagVars
<1>4. CASE Restarts
  BY <1>4 DEF Restarts, Abort, Die, EndProcess
<1>5. CASE UNCHANGED vars
  BY <1>5 DEF vars, flagVars
<1> QED
  BY <1>1, <1>2, <1>3, <1>4, <1>5, PreloadMoves

----------------------------------------------------------------------------
(* The step for the next replica, and what went to the Hub.                *)

\* Every step keeps what is known of the step the loop is at.
LEMMA StepKnownStep ==
  ASSUME TypeOK, StepKnown, [Next]_vars
  PROVE  StepKnown'
<1> USE PreloadTypes DEF StepKnown
<1>1. CASE BeginReplica
  <2>1. /\ Selected /\ UNCHANGED <<settings, proc, at, copies, disk>> /\ Len(copies) < WORKERS
        /\ step' = (IF OfflineFirst THEN "offline" ELSE "online")
    BY <1>1 DEF BeginReplica, MoreReplicas
  <2>2. Selected' /\ Family' = Family
    BY <2>1 DEF Selected, Loading, Family, Wanted, ToneFamiliesToPreload
  <2> QED
    BY <2>1, <2>2 DEF OfflineFirst, Cached
<1>2. CASE RetryOnline
  <2>1. Selected' /\ Family' = Family /\ UNCHANGED <<copies, disk>> /\ step = "missed"
        /\ step' = "online"
    BY <1>2 DEF RetryOnline, Selected, Loading, Family, Wanted, ToneFamiliesToPreload
  <2> QED
    BY <2>1
<1>3. CASE ConstructorMisses
  <2>1. CASE step' = "next"
    BY <2>1
  <2>2. CASE /\ step = "offline" /\ copies = <<>> /\ step' = "missed"
             /\ UNCHANGED <<cacheVars, at, copies>>
    <3>1. Selected' /\ Family' = Family /\ UNCHANGED <<copies, disk>> /\ disk[Family] # "full"
      BY <1>3, <2>2 DEF ConstructorMisses, InConstructor, Selected, Loading, Family, Wanted,
         ToneFamiliesToPreload
    <3> QED
      BY <2>2, <3>1
  <2> QED
    BY <1>3, <2>1, <2>2 DEF ConstructorMisses, GiveUp
<1>4. CASE Construct \/ ConstructorFails \/ Restarts
  BY <1>4 DEF Construct, ConstructorFails, GiveUp, Restarts, Abort, Die, EndProcess
<1>5. CASE SkipFamily
  BY <1>5 DEF SkipFamily, Selected
<1>6. CASE FamilyLoaded
  BY <1>6 DEF FamilyLoaded
<1>7. CASE Start \/ Serve
  BY <1>7 DEF Start, Serve, Selected, Loading
<1>8. CASE UNCHANGED vars
  BY <1>8 DEF vars, Selected, Loading, Family, Wanted, ToneFamiliesToPreload
<1> QED
  BY <1>1, <1>2, <1>3, <1>4, <1>5, <1>6, <1>7, <1>8, PreloadMoves
     DEF Prepares, Constructs, Arranges

\* Only a constructor asks the Hub, and only for the first replica of what was not found.
LEMMA HubStep ==
  ASSUME TypeOK, FlagKnown, StepKnown, HubOnlyWhenNeeded, [Next]_vars
  PROVE  HubOnlyWhenNeeded'
<1> USE DEF HubOnlyWhenNeeded
<1>1. ASSUME InConstructor, GoesToHub(Family)
      PROVE  copies = <<>> /\ (disk[Family] = "full" => Family \in ForeignFolder)
  BY <1>1 DEF InConstructor, GoesToHub, FlagKnown, StepKnown
<1>2. ASSUME InConstructor, AskHub
      PROVE  HubOnlyWhenNeeded'
  <2>1. CASE GoesToHub(Family)
    <3> DEFINE new == [family |-> Family, replica |-> Len(copies),
                       cached |-> disk[Family] = "full"]
    <3>1. asked' = asked \cup {new}
      BY <1>2, <2>1 DEF AskHub
    <3>2. new.replica = 0 /\ (new.cached => new.family \in ForeignFolder)
      BY <1>1, <1>2, <2>1
    <3> HIDE DEF new
    <3> QED
      BY <3>1, <3>2
  <2>2. CASE ~GoesToHub(Family)
    BY <1>2, <2>2 DEF AskHub
  <2> QED
    BY <2>1, <2>2
<1>3. ASSUME ~(InConstructor /\ AskHub)
      PROVE  asked' = asked
  BY <1>3 DEF Next, PreloadStep, SkipFamily, BeginReplica, RetryOnline, Construct,
     ConstructorMisses, FamilyLoaded, Start, Serve, Abort, ConstructorFails, Die, vars
<1> QED
  BY <1>2, <1>3

----------------------------------------------------------------------------
(* The types, and the engines.                                             *)

\* What a constructor changes, if it returns or raises.
LEMMA ConstructorMoves ==
  ASSUME TypeOK, StepKnown, Constructs
  PROVE  /\ UNCHANGED <<settings, proc, userEnv>> /\ proc = "loading" /\ Selected
         /\ Family \in Families
         /\ \/ /\ copies' = Append(copies, objects + 1) /\ objects' = objects + 1
               /\ Len(copies) < WORKERS
               /\ step' = "next" /\ UNCHANGED <<at, cacheVars, faults>>
            \/ /\ UNCHANGED <<at, cacheVars, copies, objects, faults>> /\ step' = "missed"
            \/ /\ UNCHANGED objects /\ GiveUp
               /\ faults' = faults \/ (faults < MaxFaults /\ faults' = faults + 1)
<1> USE PreloadTypes
<1>1. Selected /\ step # "next"
  BY DEF Constructs, Construct, ConstructorMisses, ConstructorFails, InConstructor
<1>2. proc = "loading" /\ Family \in Families /\ Len(copies) < WORKERS
  BY <1>1 DEF Selected, Loading, StepKnown
<1>3. CASE Construct
  BY <1>1, <1>2, <1>3 DEF Construct, NewEngine
<1>4. CASE ConstructorMisses
  BY <1>1, <1>2, <1>4 DEF ConstructorMisses
<1>5. CASE ConstructorFails
  BY <1>1, <1>2, <1>5 DEF ConstructorFails
<1> QED
  BY <1>3, <1>4, <1>5 DEF Constructs

\* What the other steps of the preload change.
LEMMA ArrangeMoves ==
  ASSUME TypeOK, Arranges
  PROVE  /\ UNCHANGED <<settings, userEnv, step, objects, disk, asked, faults>>
         /\ \/ /\ SkipFamily /\ Loading /\ Family \in Families \ Wanted
            \/ /\ FamilyLoaded /\ Loading /\ Family \in Wanted /\ Len(copies) = WORKERS
            \/ UNCHANGED <<at, copies, cacheVars>> /\ (Start \/ Serve)
<1> USE PreloadTypes
<1>1. CASE SkipFamily
  BY <1>1 DEF SkipFamily
<1>2. CASE FamilyLoaded
  <2>1. Len(copies) \in Nat /\ Len(copies) <= WORKERS
    BY DEF TypeOK
  <2> QED
    BY <1>2, <2>1 DEF FamilyLoaded, MoreReplicas, Selected
<1>3. CASE Start \/ Serve
  BY <1>3 DEF Start, Serve
<1> QED
  BY <1>1, <1>2, <1>3 DEF Arranges

\* What a new process starts with.
LEMMA RestartMoves ==
  ASSUME TypeOK, Restarts
  PROVE  /\ proc' = "down" /\ UNCHANGED <<settings, userEnv>>
         /\ at' = 1 /\ step' = "next" /\ copies' = <<>> /\ objects' = 0
         /\ env' = userEnv /\ const' = userEnv /\ saved' = FALSE
         /\ replicas' = [f \in Families |-> <<>>]
         /\ status' = [f \in Families |-> InitialStatus(f)]
         /\ faults' = faults \/ (faults < MaxFaults /\ faults' = faults + 1)
  BY DEF Restarts, Abort, Die, EndProcess

\* Appending keeps a sequence typed and makes it one longer.
LEMMA AppendTyped ==
  ASSUME NEW s \in Seq(Nat), NEW e \in Nat
  PROVE  /\ Append(s, e) \in Seq(Nat) /\ Len(Append(s, e)) = Len(s) + 1
         /\ <<>> \in Seq(Nat) /\ Len(<<>>) = 0
  OBVIOUS

\* The disk, and what is known of the requests.
LEMMA DiskTyped ==
  ASSUME TypeOK, [Next]_vars
  PROVE  /\ disk' \in [Families -> Partial \cup {"none", "full"}]
         /\ asked' \subseteq [family : Families, replica : Nat, cached : BOOLEAN]
<1>1. ASSUME InConstructor
      PROVE  Family \in Families /\ Len(copies) \in Nat
  BY <1>1, PreloadTypes DEF InConstructor, Selected, TypeOK
<1>2. disk' = disk \/ (InConstructor /\ disk' = Downloaded)
        \/ /\ InConstructor
           /\ \E left \in Partial \cup {"full"} : disk' = [disk EXCEPT ![Family] = left]
  BY DEF Next, PreloadStep, SkipFamily, BeginReplica, RetryOnline, Construct,
     ConstructorMisses, FamilyLoaded, Start, Serve, Abort, ConstructorFails, Die, Interrupted,
     vars
<1>3. disk' \in [Families -> Partial \cup {"none", "full"}]
  BY <1>1, <1>2 DEF TypeOK, Downloaded
<1>4. asked' = asked \/ (InConstructor /\ AskHub)
  BY DEF Next, PreloadStep, SkipFamily, BeginReplica, RetryOnline, Construct,
     ConstructorMisses, FamilyLoaded, Start, Serve, Abort, ConstructorFails, Die, vars
<1>5. asked' \subseteq [family : Families, replica : Nat, cached : BOOLEAN]
  <2>1. CASE asked' = asked
    BY <2>1 DEF TypeOK
  <2>2. CASE InConstructor /\ AskHub
    <3> DEFINE new == [family |-> Family, replica |-> Len(copies),
                       cached |-> disk[Family] = "full"]
    <3>1. asked' = asked \/ asked' = asked \cup {new}
      BY <2>2 DEF AskHub
    <3>2. (disk[Family] = "full") \in BOOLEAN
      OBVIOUS
    <3>3. new \in [family : Families, replica : Nat, cached : BOOLEAN]
      BY <1>1, <2>2, <3>2
    <3> HIDE DEF new
    <3> QED
      BY <3>1, <3>3 DEF TypeOK
  <2> QED
    BY <1>4, <2>1, <2>2
<1> QED
  BY <1>3, <1>5

\* Every step of the preload keeps the types.
LEMMA TypeStep ==
  ASSUME TypeOK, StepKnown, [Next]_vars
  PROVE  TypeOK'
<1> USE PreloadTypes
<1>1. settings' \in Settings /\ userEnv' \in BOOLEAN /\ proc' \in {"down", "loading", "serving"}
  BY DEF Next, PreloadStep, SkipFamily, BeginReplica, RetryOnline, Construct,
     ConstructorMisses, FamilyLoaded, Start, Serve, Abort, ConstructorFails, Die, EndProcess,
     vars, TypeOK
<1>2. env' \in BOOLEAN /\ saved' \in BOOLEAN /\ const' \in BOOLEAN
  BY DEF Next, PreloadStep, SkipFamily, BeginReplica, RetryOnline, Construct,
     ConstructorMisses, FamilyLoaded, Start, Serve, Abort, ConstructorFails, Die, EndProcess,
     vars, flagVars, TypeOK, LeaveConstructor, LeaveOffline, EnterOffline, EnsureHubOnline,
     SetFlag, Sync
<1>3. /\ at' \in 1 .. Len(Order) + 1 /\ step' \in {"next", "offline", "online", "missed"}
      /\ copies' \in Seq(Nat) /\ Len(copies') <= WORKERS /\ objects' \in Nat
      /\ replicas' \in [Families -> Seq(Nat)]
      /\ status' \in [Families -> {"unavailable", "disabled", "loaded"}]
      /\ faults' \in 0 .. MaxFaults
  <2>1. /\ copies \in Seq(Nat) /\ Len(copies) <= WORKERS /\ objects + 1 \in Nat
        /\ replicas \in [Families -> Seq(Nat)]
        /\ status \in [Families -> {"unavailable", "disabled", "loaded"}]
        /\ faults \in 0 .. MaxFaults
    BY DEF TypeOK
  <2>2. <<>> \in Seq(Nat) /\ Len(<<>>) = 0
    OBVIOUS
  <2>3. CASE Prepares
    BY <2>1, <2>3 DEF Prepares, BeginReplica, RetryOnline, cacheVars
  <2>4. CASE Constructs
    <3>1. Family \in Families /\ at + 1 \in 1 .. Len(Order) + 1
      BY <2>4, ConstructorMoves DEF Selected, Loading
    <3>2. CASE /\ copies' = Append(copies, objects + 1) /\ objects' = objects + 1
               /\ Len(copies) < WORKERS
               /\ step' = "next" /\ UNCHANGED <<at, cacheVars, faults>>
      BY <2>1, <3>2, AppendTyped DEF cacheVars
    <3>3. CASE UNCHANGED <<at, cacheVars, copies, objects, faults>> /\ step' = "missed"
      BY <2>1, <3>3 DEF cacheVars
    <3>4. CASE /\ UNCHANGED objects /\ GiveUp
               /\ faults' = faults \/ (faults < MaxFaults /\ faults' = faults + 1)
      BY <2>1, <2>2, <3>1, <3>4 DEF GiveUp
    <3> QED
      BY <2>4, <3>2, <3>3, <3>4, ConstructorMoves
  <2>5. CASE Arranges
    <3>1. CASE SkipFamily /\ Loading /\ Family \in Families \ Wanted
      BY <2>1, <3>1 DEF SkipFamily, Loading, TypeOK
    <3>2. CASE FamilyLoaded /\ Loading /\ Family \in Wanted
      BY <2>1, <2>2, <3>2 DEF FamilyLoaded, Loading, TypeOK
    <3>3. CASE Start \/ Serve
      BY <2>1, <3>3 DEF Start, Serve, cacheVars, TypeOK
    <3> QED
      BY <2>5, <3>1, <3>2, <3>3, ArrangeMoves
  <2>6. CASE Restarts
    <3>1. \A f \in Families : InitialStatus(f) \in {"unavailable", "disabled", "loaded"}
      BY DEF InitialStatus
    <3>2. /\ replicas' = [f \in Families |-> <<>>]
          /\ status' = [f \in Families |-> InitialStatus(f)]
      BY <2>6, RestartMoves
    <3>3. /\ at' = 1 /\ step' = "next" /\ copies' = <<>> /\ objects' = 0
          /\ faults' = faults \/ (faults < MaxFaults /\ faults' = faults + 1)
      BY <2>6, RestartMoves
    <3>4. /\ replicas' \in [Families -> Seq(Nat)]
          /\ status' \in [Families -> {"unavailable", "disabled", "loaded"}]
      BY <2>2, <3>1, <3>2
    <3> QED
      BY <2>1, <2>2, <3>3, <3>4
  <2>7. CASE UNCHANGED vars
    BY <2>1, <2>7 DEF vars, cacheVars, TypeOK
  <2> QED
    BY <2>3, <2>4, <2>5, <2>6, <2>7, PreloadMoves
<1> QED
  BY <1>1, <1>2, <1>3, DiskTyped DEF TypeOK

\* The wanted families follow from the settings, which stay.
LEMMA WantedStays ==
  ASSUME [Next]_vars
  PROVE  settings' = settings /\ Wanted' = Wanted
<1>1. settings' = settings
  BY DEF Next, PreloadStep, SkipFamily, BeginReplica, RetryOnline, Construct,
     ConstructorMisses, FamilyLoaded, Start, Serve, Abort, ConstructorFails, Die, EndProcess, vars
<1> QED
  BY <1>1 DEF Wanted, ToneFamiliesToPreload

\* A family is reported as what preload has made of it.
LEMMA FamiliesStep ==
  ASSUME TypeOK, StepKnown, FamiliesKnown, [Next]_vars
  PROVE  FamiliesKnown'
<1> USE PreloadTypes, WantedStays DEF FamiliesKnown
<1>1. /\ replicas \in [Families -> Seq(Nat)]
      /\ status \in [Families -> {"unavailable", "disabled", "loaded"}]
  BY DEF TypeOK
<1>2. ASSUME at' = at
      PROVE  Passed' = Passed
  BY <1>2 DEF Passed
<1>3. ASSUME UNCHANGED <<at, cacheVars>>, proc' # "serving"
      PROVE  FamiliesKnown'
  BY <1>2, <1>3 DEF cacheVars
<1>4. CASE Prepares
  BY <1>3, <1>4 DEF Prepares, BeginReplica, RetryOnline, Selected, Loading
<1>5. CASE Constructs
  <2>1. proc' # "serving" /\ Family \in Families /\ Selected
    BY <1>5, ConstructorMoves
  <2>2. CASE UNCHANGED <<at, cacheVars>>
    BY <1>3, <2>1, <2>2
  <2>3. CASE GiveUp
    <3>1. /\ replicas' = [replicas EXCEPT ![Family] = <<>>]
          /\ status' = [status EXCEPT ![Family] = "unavailable"]
          /\ Passed' = Passed \cup {Family}
      BY <2>3, PassedMoves DEF GiveUp
    <3>2. Family \in Wanted
      BY <2>1 DEF Selected
    <3> QED
      BY <1>1, <2>1, <3>1, <3>2
  <2> QED
    BY <1>5, <2>2, <2>3, ConstructorMoves
<1>6. CASE Arranges
  <2>1. CASE SkipFamily /\ Loading /\ Family \in Families \ Wanted
    <3>1. /\ replicas' = replicas /\ status' = [status EXCEPT ![Family] = "disabled"]
          /\ Passed' = Passed \cup {Family} /\ proc' # "serving"
      BY <2>1, PassedMoves DEF SkipFamily, Loading
    <3> QED
      BY <1>1, <2>1, <3>1
  <2>2. CASE FamilyLoaded /\ Loading /\ Family \in Wanted /\ Len(copies) = WORKERS
    <3>1. /\ replicas' = [replicas EXCEPT ![Family] = copies]
          /\ status' = [status EXCEPT ![Family] = "loaded"]
          /\ Passed' = Passed \cup {Family} /\ proc' # "serving"
      BY <2>2, PassedMoves DEF FamilyLoaded, Loading
    <3> QED
      BY <1>1, <2>2, <3>1
  <2>3. CASE Start
    BY <1>3, <2>3 DEF Start
  <2>4. CASE Serve
    BY <1>2, <2>4 DEF Serve, Failed, cacheVars
  <2> QED
    BY <1>6, <2>1, <2>2, <2>3, <2>4, ArrangeMoves
<1>7. CASE Restarts
  <2>1. proc' = "down" /\ status' = [f \in Families |-> InitialStatus(f)] /\ at' = 1
    BY <1>7, RestartMoves
  <2>2. Passed' = {}
    BY <2>1 DEF Passed
  <2> QED
    BY <2>1, <2>2 DEF InitialStatus
<1>8. CASE UNCHANGED vars
  BY <1>2, <1>8 DEF vars, cacheVars, Failed
<1> QED
  BY <1>4, <1>5, <1>6, <1>7, <1>8, PreloadMoves

\* No engine is in two places: a new one is numbered past all that there are.
LEMMA EnginesStep ==
  ASSUME TypeOK, StepKnown, EnginesApart, [Next]_vars
  PROVE  EnginesApart'
<1> USE PreloadTypes DEF EnginesApart
<1>1. replicas \in [Families -> Seq(Nat)] /\ copies \in Seq(Nat) /\ DOMAIN <<>> = {}
  BY DEF TypeOK
<1>2. ASSUME UNCHANGED <<replicas, copies, objects>>
      PROVE  EnginesApart'
  BY <1>2
<1>3. CASE Prepares
  BY <1>2, <1>3 DEF Prepares, BeginReplica, RetryOnline, cacheVars
<1>4. CASE Constructs
  <2>1. Family \in Families
    BY <1>4, ConstructorMoves
  <2>2. CASE copies' = Append(copies, objects + 1) /\ objects' = objects + 1 /\ UNCHANGED cacheVars
    <3>4. replicas' = replicas
      BY <2>2 DEF cacheVars
    <3>5. /\ DOMAIN copies' = DOMAIN copies \cup {Len(copies) + 1}
          /\ Len(copies) + 1 \notin DOMAIN copies
      BY <1>1, <2>2
    <3>6. /\ \A s \in DOMAIN copies : copies'[s] = copies[s]
          /\ copies'[Len(copies) + 1] = objects + 1
      BY <1>1, <2>2
    <3>1. /\ replicas' = replicas
          /\ DOMAIN copies' = DOMAIN copies \cup {Len(copies) + 1}
          /\ Len(copies) + 1 \notin DOMAIN copies
          /\ \A s \in DOMAIN copies : copies'[s] = copies[s]
          /\ copies'[Len(copies) + 1] = objects + 1
      BY <3>4, <3>5, <3>6
    <3>2. \A i \in 1 .. objects : i \in 1 .. objects' /\ i # objects + 1
      BY <2>2
    <3>3. objects + 1 \in 1 .. objects'
      BY <2>2
    <3> QED
      BY <3>1, <3>2, <3>3
  <2>3. CASE GiveUp /\ UNCHANGED objects
    BY <1>1, <2>1, <2>3 DEF GiveUp
  <2>4. CASE UNCHANGED <<cacheVars, copies, objects>>
    BY <1>2, <2>4 DEF cacheVars
  <2> QED
    BY <1>4, <2>2, <2>3, <2>4, ConstructorMoves
<1>5. CASE Arranges
  <2>1. CASE FamilyLoaded /\ Loading
    <3>1. /\ replicas' = [replicas EXCEPT ![Family] = copies] /\ copies' = <<>>
          /\ objects' = objects
      BY <2>1 DEF FamilyLoaded
    <3>2. \A f \in Families : replicas'[f] = IF f = Family THEN copies ELSE replicas[f]
      BY <1>1, <3>1
    <3>3. DOMAIN copies' = {}
      BY <1>1, <3>1
    <3>4. ASSUME NEW f \in Families, NEW s \in DOMAIN replicas'[f],
                 NEW g \in Families, NEW r \in DOMAIN replicas'[g],
                 replicas'[f][s] = replicas'[g][r]
          PROVE  f = g /\ s = r
      <4>1. CASE f = Family
        BY <3>2, <3>4, <4>1
      <4>2. CASE f # Family
        BY <3>2, <3>4, <4>2
      <4> QED
        BY <4>1, <4>2
    <3>5. \A f \in Families : \A s \in DOMAIN replicas'[f] : replicas'[f][s] \in 1 .. objects
      BY <3>2
    <3> QED
      BY <3>1, <3>3, <3>4, <3>5
  <2>2. CASE SkipFamily \/ Start \/ Serve
    BY <1>2, <2>2 DEF SkipFamily, Start, Serve, cacheVars
  <2> QED
    BY <1>5, <2>1, <2>2, ArrangeMoves
<1>6. CASE Restarts
  BY <1>1, <1>6, RestartMoves
<1>7. CASE UNCHANGED vars
  BY <1>2, <1>7 DEF vars, cacheVars
<1> QED
  BY <1>3, <1>4, <1>5, <1>6, <1>7, PreloadMoves

----------------------------------------------------------------------------
(* What holds of every preload.                                            *)

\* Nothing is asked and nothing is loaded in the beginning.
LEMMA PreloadInit == Init => PreloadInv
<1> SUFFICES ASSUME Init PROVE PreloadInv
  OBVIOUS
<1>1. /\ <<>> \in Seq(Nat) /\ Len(<<>>) = 0 /\ DOMAIN <<>> = {}
      /\ Len(Order) \in Nat /\ WORKERS \in Nat /\ MaxFaults \in Nat
  BY PreloadAssumption
<1>2. /\ replicas = [f \in Families |-> <<>>]
      /\ status = [f \in Families |-> InitialStatus(f)] /\ copies = <<>>
      /\ at = 1 /\ step = "next" /\ proc = "down" /\ asked = {}
  BY DEF Init
<1>3. replicas \in [Families -> Seq(Nat)]
  BY <1>1, <1>2
<1>4. status \in [Families -> {"unavailable", "disabled"}]
  BY <1>2 DEF InitialStatus
<1>5. TypeOK
  <2>1. /\ settings \in Settings /\ userEnv \in BOOLEAN /\ env \in BOOLEAN
        /\ const \in BOOLEAN /\ saved \in BOOLEAN
        /\ disk \in [Families -> Partial \cup {"none", "full"}]
    BY DEF Init
  <2>2. /\ at \in 1 .. Len(Order) + 1 /\ copies \in Seq(Nat) /\ Len(copies) <= WORKERS
        /\ objects \in Nat /\ faults \in 0 .. MaxFaults
    BY <1>1, <1>2 DEF Init
  <2>3. asked \subseteq [family : Families, replica : Nat, cached : BOOLEAN]
    BY <1>2
  <2> QED
    BY <1>2, <1>3, <1>4, <2>1, <2>2, <2>3 DEF TypeOK
<1>6. OfflineIsTemporary /\ FlagKnown /\ StepKnown /\ HubOnlyWhenNeeded
  BY <1>2 DEF Init, OfflineIsTemporary, FlagKnown, StepKnown, HubOnlyWhenNeeded
<1>7. FamiliesKnown
  BY <1>2, <1>4 DEF FamiliesKnown, Passed
<1>8. EnginesApart
  BY <1>1, <1>2 DEF EnginesApart
<1> QED
  BY <1>5, <1>6, <1>7, <1>8 DEF PreloadInv

\* Every part of the invariant holds through failed starts, deaths and restarts.
THEOREM PreloadInvariant == Spec => []PreloadInv
<1>1. PreloadInv /\ [Next]_vars => PreloadInv'
  BY TypeStep, FlagStep, StepKnownStep, FamiliesStep, EnginesStep, HubStep DEF PreloadInv
<1> QED
  BY <1>1, PreloadInit, PTL DEF Spec

\* Outside of a constructor HF_HUB_OFFLINE is as the user has set it or cleared, and the
\* libraries agree with the environment.
THEOREM OfflineEnds == Spec => []OfflineIsTemporary
<1>1. PreloadInv => OfflineIsTemporary
  BY DEF PreloadInv
<1> QED
  BY <1>1, PreloadInvariant, PTL

\* Only the first replica of a family goes to the Hub, and only if the check has not found
\* its weights.
THEOREM HubAskedOnce == Spec => []HubOnlyWhenNeeded
<1>1. PreloadInv => HubOnlyWhenNeeded
  BY DEF PreloadInv
<1> QED
  BY <1>1, PreloadInvariant, PTL

\* What the invariant says of a process that serves.
LEMMA ServingComplete == PreloadInv => ServesOnlyComplete
<1> SUFFICES ASSUME PreloadInv, proc = "serving"
             PROVE  /\ Ready
                    /\ \A f \in ToneFamilies \ settings.models : status[f] = "disabled"
                    /\ \A f \in Wanted, s \in 1 .. WORKERS :
                         /\ status[f] = "loaded" /\ Resolve(f, s) # 0
                         /\ \A g \in Wanted, r \in 1 .. WORKERS :
                              Resolve(f, s) = Resolve(g, r) => f = g /\ s = r
                    /\ \A f \in Families \ Wanted : status[f] = "disabled"
  BY DEF ServesOnlyComplete
<1>1. TypeOK /\ FamiliesKnown /\ EnginesApart
  BY DEF PreloadInv
<1>2. /\ settings.asr \in (SUBSET AsrFamilies) \ {{}}
      /\ settings.diarization \in SUBSET DiarizationFamilies
      /\ settings.tone \in SUBSET ToneFamilies
  BY <1>1 DEF TypeOK, Settings
<1>3. Wanted \in SUBSET Families
  BY <1>2, PreloadAssumption DEF Wanted, ToneFamiliesToPreload
<1>4. \A f \in Wanted : status[f] = "loaded"
  BY <1>1 DEF FamiliesKnown, Failed
<1>5. Passed = Families
  BY <1>1, PreloadTypes DEF FamiliesKnown, Passed, Families
<1>6. \A f \in Families \ Wanted : status[f] = "disabled"
  BY <1>1, <1>5 DEF FamiliesKnown
<1>7. Ready
  <2>1. PICK f \in settings.asr : f \in AsrFamilies /\ f \in Wanted
    BY <1>2 DEF Wanted
  <2> QED
    BY <1>4, <2>1 DEF Ready
<1>8. \A f \in ToneFamilies \ settings.models : f \in Families \ Wanted
  BY <1>2, PreloadAssumption DEF Wanted, ToneFamiliesToPreload
<1>9. \A f \in Wanted, s \in 1 .. WORKERS :
        s \in DOMAIN replicas[f] /\ Resolve(f, s) = replicas[f][s] /\ Resolve(f, s) \in 1 .. objects
  <2>1. SUFFICES ASSUME NEW f \in Wanted, NEW s \in 1 .. WORKERS
                 PROVE  /\ s \in DOMAIN replicas[f] /\ Resolve(f, s) = replicas[f][s]
                        /\ Resolve(f, s) \in 1 .. objects
    OBVIOUS
  <2>2. f \in Families /\ replicas[f] \in Seq(Nat) /\ Len(replicas[f]) = WORKERS
    BY <1>1, <1>3, <1>4, <2>1 DEF TypeOK, FamiliesKnown
  <2>3. s \in DOMAIN replicas[f]
    BY <2>1, <2>2
  <2> QED
    BY <1>1, <2>2, <2>3 DEF Resolve, EnginesApart
<1>10. \A f \in Wanted, s \in 1 .. WORKERS, g \in Wanted, r \in 1 .. WORKERS :
         Resolve(f, s) = Resolve(g, r) => f = g /\ s = r
  BY <1>1, <1>3, <1>9 DEF EnginesApart
<1>11. \A f \in Wanted, s \in 1 .. WORKERS : Resolve(f, s) # 0
  BY <1>1, <1>9, PreloadTypes
<1> QED
  BY <1>4, <1>6, <1>7, <1>8, <1>10, <1>11

\* A process that takes tasks has an engine of its own for every selected family and slot,
\* reports no family as unavailable, and is ready.
THEOREM ServesComplete == Spec => []ServesOnlyComplete
  BY ServingComplete, PreloadInvariant, PTL
=============================================================================
