--------------------------- MODULE EnginePreload ---------------------------
(***************************************************************************)
(* The preload of the engines (src/app/engines/cache.py, EngineCache) and  *)
(* the offline flag it sets for the Hugging Face libraries while it builds *)
(* a replica (src/app/engines/hf_offline.py), over failed starts, deaths   *)
(* and restarts of the process.  Everything happens in one thread, before  *)
(* the API is served.  What is built follows from the settings             *)
(* (src/app/config.py).  The libraries are external: what they read of the *)
(* flag, when they go to the Hub and what they leave on disk.              *)
(***************************************************************************)
EXTENDS Naturals, Sequences, FiniteSets

CONSTANTS Order,          \* the families, in the order preload takes them
          AsrFamilies, DiarizationFamilies, ToneFamilies,
          WORKERS,
          EnvReaders,     \* families whose adapter hands the variable on itself
          ForeignFolder,  \* families whose library names its folder differently
          MaxFaults       \* bound: deaths and failed constructors

Families == {Order[i] : i \in DOMAIN Order}

\* The names of the families (config.py:9) are all different: no tone layer is also a
\* recogniser or a diarizer.
ASSUME PreloadAssumption ==
  /\ Order \in Seq(Families)
  /\ Families = AsrFamilies \cup DiarizationFamilies \cup ToneFamilies
  /\ ToneFamilies \cap (AsrFamilies \cup DiarizationFamilies) = {}
  /\ AsrFamilies # {} /\ DiarizationFamilies # {}
  /\ EnvReaders \subseteq Families /\ ForeignFolder \subseteq Families
  /\ WORKERS \in Nat \ {0}
  /\ MaxFaults \in Nat

VARIABLES settings,   \* PRELOAD_ASR, PRELOAD_DIARIZATION, PRELOAD_TONE; the tone models named
          proc,       \* the life of the process
          userEnv,    \* HF_HUB_OFFLINE is set in the environment of the process
          env,        \* os.environ: HF_HUB_OFFLINE is set
          const,      \* HF_HUB_OFFLINE as the libraries hold it
          saved,      \* what the with-statement will restore
          at,         \* the position in Order
          step,       \* what is done for the next replica
          copies,     \* the replicas built of the family at hand
          replicas,   \* _asr, _diar, _tone_text, _tone_ser
          status,
          objects,    \* how many engines were constructed in this process
          disk,       \* the weights of each family under MODELS_DIR, see Partial
          asked,      \* history: constructors that went to the Hub
          faults

flagVars == <<env, const, saved>>
cacheVars == <<replicas, status>>
vars == <<settings, proc, userEnv, flagVars, at, step, copies, cacheVars, objects, disk, asked, faults>>

\* A list of families may not be empty (_normalize_family_list), that of the tone may
\* (_normalize_preload_tone).
Settings ==
  [asr : (SUBSET AsrFamilies) \ {{}}, diarization : (SUBSET DiarizationFamilies) \ {{}},
   tone : SUBSET ToneFamilies, models : SUBSET ToneFamilies]

\* A snapshot that an interrupted download has left incomplete.  The library that misses
\* a file of it, and may not go to the Hub, says so in its own words: with one of the
\* markers of hf_offline.py:19, or without any ("weights missing",
\* tests/test_hf_offline.py:63).
Partial == {"partial", "unmarked"}

TypeOK ==
  /\ settings \in Settings
  /\ proc \in {"down", "loading", "serving"}
  /\ userEnv \in BOOLEAN /\ env \in BOOLEAN /\ saved \in BOOLEAN
  /\ const \in BOOLEAN
  /\ at \in 1 .. Len(Order) + 1
  /\ step \in {"next", "offline", "online", "missed"}
  /\ copies \in Seq(Nat) /\ Len(copies) <= WORKERS
  /\ replicas \in [Families -> Seq(Nat)]
  /\ status \in [Families -> {"unavailable", "disabled", "loaded"}]
  /\ objects \in Nat
  /\ disk \in [Families -> Partial \cup {"none", "full"}]
  /\ asked \subseteq [family : Families, replica : Nat, cached : BOOLEAN]
  /\ faults \in 0 .. MaxFaults

\* The status a process begins with.
InitialStatus(f) == IF f \in ToneFamilies THEN "disabled" ELSE "unavailable"

\* The libraries are imported with the program (tone/text_engine.py:9), and read the
\* variable then.
Init ==
  /\ settings \in Settings
  /\ proc = "down"
  /\ userEnv \in BOOLEAN /\ env = userEnv /\ const = userEnv /\ saved = FALSE
  /\ at = 1 /\ step = "next" /\ copies = <<>>
  /\ replicas = [f \in Families |-> <<>>]
  /\ status = [f \in Families |-> InitialStatus(f)]
  /\ objects = 0
  /\ disk \in [Families -> {"none", "full"}]
  /\ asked = {} /\ faults = 0

----------------------------------------------------------------------------
(* The settings.                                                           *)

\* tone_families_to_preload: those listed, if their model is named.
ToneFamiliesToPreload == settings.tone \cap settings.models

\* The families preload builds, which are the required ones (_required_preload_engines).
Wanted == settings.asr \cup settings.diarization \cup ToneFamiliesToPreload

----------------------------------------------------------------------------
(* The flag.                                                               *)

\* Faulty variant: the libraries keep the value they were imported with.
SyncNothing(value) == UNCHANGED const

\* _sync_loaded_constants_from_env.
Sync(value) == const' = value

SetFlag(value) == env' = value /\ Sync(value)

\* with huggingface_offline(): entered.  The program never nests it.
EnterOffline == saved' = env /\ SetFlag(TRUE)

\* Faulty variant: the libraries are not told that it is over.
LeaveUnsynced == env' = saved /\ UNCHANGED <<const, saved>>

\* Left, on a return and on an exception.
LeaveOffline == SetFlag(saved) /\ UNCHANGED saved

\* ensure_hub_online: the variable is popped, for good.
EnsureHubOnline == SetFlag(FALSE) /\ UNCHANGED saved

\* Whether the constructor of family f asks the Hub.
GoesToHub(f) == ~const /\ ~(f \in EnvReaders /\ env)

----------------------------------------------------------------------------
(* One family: _preload_engine, _preload_tone_text, _preload_tone_ser.     *)

Loading == proc = "loading" /\ at <= Len(Order)

Family == Order[at]

Selected == Loading /\ Family \in Wanted

SkipFamily ==
  /\ Loading
  /\ Family \notin Wanted
  /\ status' = [status EXCEPT ![Family] = "disabled"]
  /\ at' = at + 1
  /\ UNCHANGED <<settings, proc, userEnv, flagVars, step, copies, replicas, objects, disk, asked, faults>>

\* hf_hub_model_cached: a snapshot directory under models--<id>, complete or not.
Cached(f) == disk[f] # "none" /\ f \notin ForeignFolder

\* Replica 0 of a family that is cached, and every other replica.
OfflineFirst == copies # <<>> \/ Cached(Family)

\* Faulty variant: one replica too many.
OneReplicaMore == Len(copies) <= WORKERS

MoreReplicas == Len(copies) < WORKERS

BeginReplica ==
  /\ Selected /\ step = "next" /\ MoreReplicas
  /\ IF OfflineFirst THEN EnterOffline /\ step' = "offline"
                     ELSE EnsureHubOnline /\ step' = "online"
  /\ UNCHANGED <<settings, proc, userEnv, at, copies, cacheVars, objects, disk, asked, faults>>

\* Replica 0 was not complete on disk: _replica_zero tries again, online.
RetryOnline ==
  /\ Selected /\ step = "missed"
  /\ EnsureHubOnline
  /\ step' = "online"
  /\ UNCHANGED <<settings, proc, userEnv, at, copies, cacheVars, objects, disk, asked, faults>>

InConstructor == Selected /\ step \in {"offline", "online"}

\* The constructor has returned or raised.
LeaveConstructor == IF step = "offline" THEN LeaveOffline ELSE UNCHANGED flagVars

\* A constructor that goes to the Hub is noted.
AskHub ==
  asked' = IF GoesToHub(Family)
             THEN asked \cup {[family |-> Family, replica |-> Len(copies),
                               cached |-> disk[Family] = "full"]}
             ELSE asked

Downloaded == [disk EXCEPT ![Family] = "full"]

\* An interrupted constructor leaves any part of the download behind.
Interrupted ==
  \/ UNCHANGED disk
  \/ /\ GoesToHub(Family) /\ disk[Family] # "full"
     /\ \E left \in Partial \cup {"full"} : disk' = [disk EXCEPT ![Family] = left]

\* Faulty variant: the slots share the engine of the first one.
SharedEngine == IF copies = <<>> THEN objects + 1 ELSE Head(copies)

\* factory() makes an engine of its own for each slot.
NewEngine == objects + 1

Construct ==
  /\ InConstructor
  /\ GoesToHub(Family) \/ disk[Family] = "full"
  /\ copies' = Append(copies, NewEngine)
  /\ objects' = objects + 1
  /\ step' = "next"
  /\ LeaveConstructor
  /\ AskHub
  /\ disk' = IF GoesToHub(Family) THEN Downloaded ELSE disk
  /\ UNCHANGED <<settings, proc, userEnv, at, cacheVars, faults>>

\* Faulty variant: no message of an exception is taken for missing files.
NeverMissingCache == FALSE

\* looks_like_missing_cache: the text of the exception has one of the markers.  A text
\* that is no cache miss for certain (out of memory, HF_TOKEN) is not of missing files:
\* ConstructorFails raises it.
LooksLikeMissingCache == disk[Family] \in {"none", "partial"}

\* The family is given up; the others are still tried.
GiveUp ==
  /\ replicas' = [replicas EXCEPT ![Family] = <<>>]
  /\ status' = [status EXCEPT ![Family] = "unavailable"]
  /\ at' = at + 1
  /\ copies' = <<>>
  /\ step' = "next"

\* The library may not go to the Hub and does not find all its files.  _replica_zero
\* tries again if it recognises the text, and raises it otherwise; so do the replicas
\* after it, whatever the text.
ConstructorMisses ==
  /\ InConstructor
  /\ ~GoesToHub(Family) /\ disk[Family] # "full"
  /\ LeaveConstructor
  /\ IF step = "offline" /\ copies = <<>> /\ LooksLikeMissingCache
       THEN step' = "missed" /\ UNCHANGED <<cacheVars, at, copies>>
       ELSE GiveUp
  /\ UNCHANGED <<settings, proc, userEnv, objects, disk, asked, faults>>

\* Anything else: out of memory, no network, in the middle of a download.
ConstructorFails ==
  /\ InConstructor
  /\ faults < MaxFaults
  /\ LeaveConstructor
  /\ GiveUp
  /\ AskHub
  /\ Interrupted
  /\ faults' = faults + 1
  /\ UNCHANGED <<settings, proc, userEnv, objects>>

FamilyLoaded ==
  /\ Selected /\ step = "next" /\ ~MoreReplicas
  /\ replicas' = [replicas EXCEPT ![Family] = copies]
  /\ status' = [status EXCEPT ![Family] = "loaded"]
  /\ at' = at + 1
  /\ copies' = <<>>
  /\ UNCHANGED <<settings, proc, userEnv, flagVars, step, objects, disk, asked, faults>>

----------------------------------------------------------------------------
(* The process.                                                            *)

Start ==
  /\ proc = "down"
  /\ proc' = "loading"
  /\ UNCHANGED <<settings, userEnv, flagVars, at, step, copies, cacheVars, objects, disk, asked, faults>>

Failed == {f \in Wanted : status[f] # "loaded"}

\* The lifespan goes on with the runner, and the API is ready.
Serve ==
  /\ proc = "loading" /\ at > Len(Order)
  /\ Failed = {}
  /\ proc' = "serving"
  /\ UNCHANGED <<settings, userEnv, flagVars, at, step, copies, cacheVars, objects, disk, asked, faults>>

\* The end of the process; the next one is fresh but for the disk.
EndProcess ==
  /\ proc' = "down"
  /\ env' = userEnv /\ const' = userEnv /\ saved' = FALSE
  /\ at' = 1 /\ step' = "next" /\ copies' = <<>>
  /\ replicas' = [f \in Families |-> <<>>]
  /\ status' = [f \in Families |-> InitialStatus(f)]
  /\ objects' = 0
  /\ UNCHANGED <<settings, userEnv>>

\* PreloadError.
Abort ==
  /\ proc = "loading" /\ at > Len(Order)
  /\ Failed # {}
  /\ EndProcess
  /\ UNCHANGED <<disk, asked, faults>>

\* A death, perhaps in the middle of a download.
Die ==
  /\ proc # "down" /\ faults < MaxFaults
  /\ EndProcess
  /\ IF InConstructor THEN AskHub /\ Interrupted ELSE UNCHANGED <<asked, disk>>
  /\ faults' = faults + 1

PreloadStep ==
  \/ SkipFamily \/ BeginReplica \/ RetryOnline \/ Construct \/ ConstructorMisses
  \/ FamilyLoaded \/ Start \/ Serve \/ Abort

Next == PreloadStep \/ ConstructorFails \/ Die

Spec == Init /\ [][Next]_vars

----------------------------------------------------------------------------
(* Properties.                                                             *)

\* _ready of prometheus_metrics.py: the runner was started and some ASR is loaded.
Ready == proc = "serving" /\ \E f \in AsrFamilies : status[f] = "loaded"

\* resolve_asr, resolve_diarization, resolve_tone_*: the engine of a worker slot.
Resolve(f, s) == IF s \in DOMAIN replicas[f] THEN replicas[f][s] ELSE 0

\* A process that takes tasks has an engine for every selected family and slot, no two
\* slots share one, no family is reported as unavailable (README.md:59), a tone engine
\* is there only if its model is named, and the process is ready for some ASR.
ServesOnlyComplete ==
  proc = "serving" =>
    /\ Ready
    /\ \A f \in ToneFamilies \ settings.models : status[f] = "disabled"
    /\ \A f \in Wanted, s \in 1 .. WORKERS :
         /\ status[f] = "loaded" /\ Resolve(f, s) # 0
         /\ \A g \in Wanted, r \in 1 .. WORKERS :
              Resolve(f, s) = Resolve(g, r) => f = g /\ s = r
    /\ \A f \in Families \ Wanted : status[f] = "disabled"

\* hf_offline.py:1: the flag is set for the time of a constructor only.  Outside of one
\* it is never left on if the user has not set it, whatever the constructor did, and
\* the imported libraries agree with the environment.
OfflineIsTemporary ==
  step \in {"next", "missed"} =>
    /\ env => userEnv
    /\ const = env

\* README.md:59: only the first replica of a family may go to the Hub, and only if its
\* weights are not there already - for the families whose folder the check knows.
HubOnlyWhenNeeded ==
  \A a \in asked : a.replica = 0 /\ (a.cached => a.family \in ForeignFolder)

\* Compose restarts the process (restart: always), the Hub answers, the settings (tokens,
\* names of models) are right, and deaths and failures end at some time.
FairSpec == Spec /\ WF_vars(PreloadStep)

\* An incomplete snapshot that is taken for the weights, and whose missing files nobody
\* recognises: replica 0 raises (cache.py:451) at every start, until someone removes it.
Stranded == \E f \in Wanted : Cached(f) /\ disk[f] = "unmarked"

\* Unless a download was interrupted in a way that strands the service, no failed start,
\* no death and no incomplete snapshot keeps it from starting in the end: replica 0 tells
\* missing files by the text of the exception and fetches the rest.
EventuallyServes == []~Stranded => <>[](proc = "serving")

----------------------------------------------------------------------------
(* The inductive invariant behind these properties.                        *)

\* The flag while a constructor runs, and what is put back after it.
FlagKnown ==
  /\ step = "offline" => env /\ const /\ (saved => userEnv)
  /\ step = "online" => ~env /\ ~const

\* Only the first replica is built online, and only if it was not found on disk.
StepKnown ==
  /\ step # "next" => Selected /\ Len(copies) < WORKERS
  /\ step \in {"online", "missed"} => copies = <<>>
  /\ step = "missed" => disk[Family] # "full"
  /\ step = "online" /\ disk[Family] = "full" => Family \in ForeignFolder

Passed == {Order[i] : i \in 1 .. at - 1}

\* A family that is reported as loaded has all its replicas, one that is not wanted is
\* disabled when preload has passed it.
FamiliesKnown ==
  /\ \A f \in Families : status[f] = "loaded" => Len(replicas[f]) = WORKERS
  /\ \A f \in Passed \ Wanted : status[f] = "disabled"
  /\ proc = "serving" => at = Len(Order) + 1 /\ Failed = {}

\* Every engine that was built is in one place.
EnginesApart ==
  /\ \A f \in Families : \A s \in DOMAIN replicas[f] :
       /\ replicas[f][s] \in 1 .. objects
       /\ \A g \in Families : \A r \in DOMAIN replicas[g] :
            replicas[f][s] = replicas[g][r] => f = g /\ s = r
       /\ \A r \in DOMAIN copies : replicas[f][s] # copies[r]
  /\ \A s \in DOMAIN copies :
       /\ copies[s] \in 1 .. objects
       /\ \A r \in DOMAIN copies : copies[s] = copies[r] => s = r

PreloadInv ==
  TypeOK /\ OfflineIsTemporary /\ FlagKnown /\ StepKnown /\ FamiliesKnown /\ EnginesApart
    /\ HubOnlyWhenNeeded
=============================================================================
