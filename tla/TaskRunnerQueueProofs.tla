----------------------- MODULE TaskRunnerQueueProofs -----------------------
(***************************************************************************)
(* That no slot and no wakeup is lost, that a queued task is always        *)
(* reached, and that submit keeps to WORKER_QUEUE_SIZE.                    *)
(***************************************************************************)
EXTENDS TaskRunnerRowProofs, FiniteSetTheorems

----------------------------------------------------------------------------
(* The elements of a sequence.                                             *)

\* The members of a queue with one more.
LEMMA ElementsAppend ==
  ASSUME NEW S, NEW s \in Seq(S), NEW x \in S
  PROVE  Elements(Append(s, x)) = Elements(s) \cup {x}
<1>1. \A y : y \in Elements(Append(s, x)) => y \in Elements(s) \cup {x}
  BY DEF Elements
<1>2. \A i \in DOMAIN s : i \in DOMAIN Append(s, x) /\ Append(s, x)[i] = s[i]
  OBVIOUS
<1>3. Len(s) + 1 \in DOMAIN Append(s, x) /\ Append(s, x)[Len(s) + 1] = x
  OBVIOUS
<1> QED
  BY <1>1, <1>2, <1>3 DEF Elements

\* The members of a queue without its head.
LEMMA ElementsTail ==
  ASSUME NEW S, NEW s \in Seq(S), s # <<>>
  PROVE  Elements(s) \subseteq {Head(s)} \cup Elements(Tail(s))
<1> SUFFICES ASSUME NEW i \in DOMAIN s
             PROVE  s[i] = Head(s) \/ s[i] \in Elements(Tail(s))
  BY DEF Elements
<1>1. CASE i = 1
  BY <1>1
<1>2. CASE i # 1
  <2>1. i - 1 \in DOMAIN Tail(s) /\ Tail(s)[i - 1] = s[i]
    BY <1>2
  <2> QED
    BY <2>1 DEF Elements
<1> QED
  BY <1>1, <1>2

\* The members of two queues in a row.
LEMMA ElementsConcat ==
  ASSUME NEW S, NEW s \in Seq(S), NEW q \in Seq(S)
  PROVE  Elements(s) \cup Elements(q) \subseteq Elements(s \o q)
<1>1. \A i \in DOMAIN s : i \in DOMAIN (s \o q) /\ (s \o q)[i] = s[i]
  OBVIOUS
<1>2. \A i \in DOMAIN q : Len(s) + i \in DOMAIN (s \o q) /\ (s \o q)[Len(s) + i] = q[i]
  OBVIOUS
<1> QED
  BY <1>1, <1>2 DEF Elements

----------------------------------------------------------------------------
(* What a step may do to the coroutines.                                   *)

\* A step of the coroutine of t, or the end of its thread.
JobMove(t) == JobStep(t) \/ JobFails(t) \/ ThreadReturns(t)

\* Only these steps make or move coroutines; a new process starts without any.
LEMMA SchedMoves ==
  ASSUME [Next]_vars
  PROVE  \/ /\ UNCHANGED <<job, ready, waiters, freeSlots, slot>>
            /\ proc' = "up" => proc = "up" \/ Serve
         \/ Dispatch
         \/ \E t \in Tasks : JobMove(t)
         \/ Stop \/ Exit \/ Crash
<1>1. CASE UNCHANGED vars
  BY <1>1 DEF vars, runnerVars, schedVars
<1>2. ASSUME NEW t \in Tasks, Post(t) \/ AnswerStep(t) \/ SubmitFails(t)
      PROVE  UNCHANGED <<job, ready, waiters, freeSlots, slot, proc>>
  BY <1>2 DEF Post, AnswerStep, WriteUpload, SubmitReject, SubmitBegin, Place, SubmitEnd,
     SubmitFails, schedVars
<1>3. ASSUME NEW t \in Tasks,
             \/ UNCHANGED runnerVars \/ Delete(t) \/ DeleteTmp(t) \/ Expire(t)
             \/ LoseUpload(t)
      PROVE  UNCHANGED <<job, ready, waiters, freeSlots, slot, proc>>
  BY <1>3 DEF runnerVars, schedVars, Delete, DeleteTmp, Expire, LoseUpload
<1>4. ASSUME NEW t \in Tasks,
             \/ RestoreInterrupted(t) \/ RestoreBump(t) \/ RestoreSettle(t)
             \/ RestoreCleanTmp(t) \/ RestoreMissing(t) \/ RestoreEnqueue(t)
      PROVE  UNCHANGED <<job, ready, waiters, freeSlots, slot, proc>>
  BY <1>4 DEF RestoreInterrupted, RestoreBump, RestoreSettle, RestoreCleanTmp,
     RestoreMissing, RestoreEnqueue, ContinueAt, schedVars
<1>5. CASE Purge \/ PurgeQueued \/ PurgeFinished \/ PurgeTmp \/ PurgeFails \/ TtlFails
           \/ ChangeToken \/ RestoreNextList \/ StopClean
  <2>1. UNCHANGED <<job, ready, waiters, freeSlots, slot, proc>>
    BY <1>5 DEF Purge, PurgeQueued, PurgeFinished, PurgeTmp, PurgeFails, TtlFails,
       ChangeToken, RestoreNextList, ContinueAt, StopClean, runnerVars, schedVars
  <2> QED
    BY <2>1
<1>6. CASE Start \/ StopClose \/ Serve
  BY <1>6 DEF Start, StopClose, Serve, schedVars
<1> QED
  BY <1>1, <1>2, <1>3, <1>4, <1>5, <1>6
     DEF Next, WorkerStep, SegmentStep, ProcessStep, StoreFault, JobMove

\* After a stop or a death there are no coroutines.
LEMMA SchedEnds ==
  ASSUME Stop \/ Exit \/ Crash
  PROVE  /\ waiters' = <<>> /\ freeSlots' = Slots /\ proc' # "up"
         /\ \A t \in Tasks : job'[t] = "none"
  BY DEF Stop, Exit, Crash, LoseMemory, AbandonJobs

\* Outside of serving nobody waits for a slot.
LEMMA NoWaitersBefore ==
  ASSUME TypeOK, SlotInv, proc # "up"
  PROVE  waiters = <<>>
<1>1. \A i \in DOMAIN waiters : waiters[i] \in Tasks /\ job[waiters[i]] = "waiting"
  BY SlotTypes DEF SlotInv, QueuePlaces
<1>2. DOMAIN waiters = {}
  BY <1>1 DEF SlotInv, JobsOnlyUp
<1> QED
  BY <1>2, SlotTypes

\* put_nowait, element by element: who is due now, and who is still suspended.
LEMMA PutSlotMoves ==
  ASSUME TypeOK, SlotInv, NEW t \in Tasks, NEW s, job[t] # "waiting", ready # <<>>,
         t = Head(ready), PutSlot(s, Tail(ready), Become(job, t, "none")),
         CoroutinesListed
  PROVE  /\ freeSlots' = freeSlots \cup {s}
         /\ job'[t] = "none"
         /\ CoroutinesListed'
         /\ \/ waiters = <<>> /\ waiters' = <<>> /\ \A u \in Tasks \ {t} : job'[u] = job[u]
            \/ \E w \in Tasks \ {t} : /\ job[w] = "waiting" /\ job'[w] = "woken"
                                      /\ \A u \in Tasks \ {t, w} : job'[u] = job[u]
<1> USE SlotTypes DEF Become
<1>1. \A u \in Elements(ready) : u # t => u \in Elements(Tail(ready))
  BY ElementsTail
<1>2. CASE waiters = <<>>
  <2>1. /\ freeSlots' = freeSlots \cup {s} /\ waiters' = <<>> /\ ready' = Tail(ready)
        /\ job' = [job EXCEPT ![t] = "none"]
    BY <1>2 DEF PutSlot
  <2>2. CoroutinesListed'
    BY <1>1, <1>2, <2>1 DEF CoroutinesListed
  <2> QED
    BY <1>2, <2>1, <2>2
<1>3. CASE waiters # <<>>
  <2> DEFINE w == Head(waiters)
  <2>1. /\ freeSlots' = freeSlots \cup {s} /\ waiters' = Tail(waiters)
        /\ ready' = Append(Tail(ready), w)
        /\ job' = [[job EXCEPT ![t] = "none"] EXCEPT ![w] = "woken"]
    BY <1>3 DEF PutSlot
  <2>2. w \in Tasks /\ w = waiters[1] /\ 1 \in DOMAIN waiters
    BY <1>3
  <2>3. job[w] = "waiting" /\ w # t
    BY <2>2 DEF SlotInv, QueuePlaces
  <2>4. job'[t] = "none" /\ job'[w] = "woken" /\ \A u \in Tasks \ {t, w} : job'[u] = job[u]
    BY <2>1, <2>2, <2>3
  <2>5. Elements(ready') = Elements(Tail(ready)) \cup {w}
    <3>1. Tail(ready) \in Seq(Tasks)
      OBVIOUS
    <3>2. \A q \in Seq(Tasks), x \in Tasks : Elements(Append(q, x)) = Elements(q) \cup {x}
      BY ElementsAppend
    <3>3. Elements(Append(Tail(ready), w)) = Elements(Tail(ready)) \cup {w}
      BY <2>2, <3>1, <3>2, Zenon
    <3> QED
      BY <2>1, <3>3
  <2>6. Elements(waiters) \subseteq {w} \cup Elements(waiters')
    BY <1>3, <2>1, ElementsTail
  <2>7. CoroutinesListed'
    BY <1>1, <2>1, <2>3, <2>4, <2>5, <2>6 DEF CoroutinesListed
  <2> QED
    BY <2>1, <2>2, <2>3, <2>4, <2>7
<1> QED
  BY <1>2, <1>3

\* The coroutine due next is the head of ready, and it is due.
LEMMA DueIsHead ==
  ASSUME NEW t \in Tasks, JobStep(t) \/ JobFails(t)
  PROVE  /\ proc = "up" /\ ready # <<>> /\ t = Head(ready)
         /\ job[t] \in {"start", "woken", "finish"}
  BY DEF JobStep, JobCancelled, JobWaits, JobDropped, JobRuns, JobFinishes, JobFails,
     AsksForSlot, Due, Scheduled

\* A coroutine is never lost: it is due, or in the line of getters.
LEMMA ListedStep ==
  ASSUME TypeOK, SlotInv, CoroutinesListed, [Next]_vars
  PROVE  CoroutinesListed'
<1> USE SlotTypes DEF CoroutinesListed
<1>1. CASE UNCHANGED <<job, ready, waiters>>
  BY <1>1
<1>2. CASE Dispatch
  <2>1. /\ waiters' = waiters /\ ready' = ready \o queue
        /\ \A t \in Tasks : \/ job'[t] = job[t]
                            \/ t \in Elements(queue) /\ job'[t] = "start"
    <3>1. \A t \in Tasks : (\E i \in DOMAIN queue : queue[i] = t) <=> t \in Elements(queue)
      BY DEF Elements
    <3>2. \A t \in Tasks : \/ job'[t] = job[t]
                           \/ (\E i \in DOMAIN queue : queue[i] = t) /\ job'[t] = "start"
      BY <1>2 DEF Dispatch
    <3>3. waiters' = waiters /\ ready' = ready \o queue
      BY <1>2 DEF Dispatch
    <3> QED
      BY <3>1, <3>2, <3>3
  <2>2. Elements(ready) \cup Elements(queue) \subseteq Elements(ready')
    BY <2>1, ElementsConcat
  <2> QED
    BY <2>1, <2>2
<1>3. ASSUME NEW t \in Tasks, JobCancelled(t) \/ JobRuns(t)
      PROVE  CoroutinesListed'
  <2>1. /\ waiters' = waiters /\ ready' = Tail(ready) /\ ready # <<>> /\ t = Head(ready)
        /\ job'[t] \in {"none", "inThread"} /\ \A u \in Tasks \ {t} : job'[u] = job[u]
    BY <1>3 DEF JobCancelled, JobRuns, AsksForSlot, Due, Become
  <2>2. Elements(ready) \subseteq {t} \cup Elements(ready')
    BY <2>1, ElementsTail
  <2> QED
    BY <2>1, <2>2
<1>4. ASSUME NEW t \in Tasks, JobWaits(t)
      PROVE  CoroutinesListed'
  <2>1. /\ waiters' = Append(waiters, t) /\ ready' = Tail(ready) /\ ready # <<>>
        /\ t = Head(ready)
        /\ job'[t] = "waiting" /\ \A u \in Tasks \ {t} : job'[u] = job[u]
    BY <1>4 DEF JobWaits, AsksForSlot, Due, Become
  <2>2. Elements(waiters') = Elements(waiters) \cup {t}
    BY <2>1, ElementsAppend
  <2> QED
    BY <2>1, <2>2, ElementsTail
<1>5. ASSUME NEW t \in Tasks, JobDropped(t) \/ JobFails(t) \/ JobFinishes(t)
      PROVE  CoroutinesListed'
  <2>1. \E s : PutSlot(s, Tail(ready), Become(job, t, "none"))
    BY <1>5 DEF JobDropped, JobFails, JobFinishes
  <2>2. ready # <<>> /\ t = Head(ready) /\ job[t] # "waiting"
    BY <1>5, DueIsHead DEF JobStep
  <2> QED
    BY <2>1, <2>2, PutSlotMoves
<1>6. ASSUME NEW t \in Tasks, ThreadReturns(t)
      PROVE  CoroutinesListed'
  <2>1. CASE job[t] = "inThread"
    <3>1. /\ waiters' = waiters /\ ready' = Append(ready, t) /\ job'[t] = "finish"
          /\ \A u \in Tasks \ {t} : job'[u] = job[u]
      BY <1>6, <2>1 DEF ThreadReturns, Become
    <3>2. Elements(ready') = Elements(ready) \cup {t}
      BY <3>1, ElementsAppend
    <3> QED
      BY <3>1, <3>2
  <2>2. CASE job[t] # "inThread"
    BY <1>6, <2>2 DEF ThreadReturns
  <2> QED
    BY <2>1, <2>2
<1>7. CASE Stop \/ Exit \/ Crash
  BY <1>7, SchedEnds
<1> QED
  BY <1>1, <1>2, <1>3, <1>4, <1>5, <1>6, <1>7, SchedMoves DEF JobMove, JobStep

----------------------------------------------------------------------------
(* Slots and wakeups.                                                      *)

\* SlotsKept, slot by slot.
LEMMA KeptBySlot ==
  ASSUME freeSlots \subseteq Slots, \A t \in Tasks : Holds(t) => slot[t] \in Slots
  PROVE  SlotsKept <=> \A s \in Slots \ freeSlots : \E t \in Tasks : Holds(t) /\ slot[t] = s
<1>1. \A s : s \in SlotsInUse <=> \E t \in Tasks : Holds(t) /\ slot[t] = s
  BY DEF SlotsInUse, Holds
<1> QED
  BY <1>1 DEF SlotsKept

\* Every way through _run_one gives the slot back, and once.
LEMMA KeptStep ==
  ASSUME TypeOK, TypeOK', SlotInv, SlotInv', CoroutinesListed, SlotsKept, [Next]_vars
  PROVE  SlotsKept'
<1> USE SlotTypes
<1>1. freeSlots \subseteq Slots /\ \A t \in Tasks : Holds(t) => slot[t] \in Slots
  BY DEF SlotInv, JobHasSlot, Holds
<1>2. \A s \in Slots \ freeSlots : \E t \in Tasks : Holds(t) /\ slot[t] = s
  BY <1>1, KeptBySlot
<1>3. freeSlots' \subseteq Slots /\ \A t \in Tasks : Holds(t)' => slot'[t] \in Slots
  BY DEF SlotInv, JobHasSlot, Holds, TypeOK, RunnerTypeOK
<1>4. SlotsKept' <=> \A s \in Slots \ freeSlots' : \E t \in Tasks : Holds(t)' /\ slot'[t] = s
  <2>1. \A s : s \in SlotsInUse' <=> \E t \in Tasks : Holds(t)' /\ slot'[t] = s
    BY DEF SlotsInUse, Holds
  <2> QED
    BY <1>3, <2>1 DEF SlotsKept
<1>5. ASSUME freeSlots \subseteq freeSlots',
             \A t \in Tasks : Holds(t) => \/ Holds(t)' /\ slot'[t] = slot[t]
                                          \/ slot[t] \in freeSlots'
      PROVE  SlotsKept'
  BY <1>2, <1>4, <1>5
<1>6. CASE UNCHANGED <<job, freeSlots, slot>>
  BY <1>5, <1>6 DEF Holds
<1>7. CASE Dispatch
  <2>1. \A t \in Tasks : Holds(t)' <=> Holds(t)
    BY <1>7 DEF Dispatch, SlotInv, QueuePlaces, Holds
  <2> QED
    BY <1>5, <1>7, <2>1 DEF Dispatch
<1>8. ASSUME NEW t \in Tasks, JobCancelled(t) \/ JobWaits(t)
      PROVE  SlotsKept'
  <2>1. \A u \in Tasks : Holds(u)' <=> Holds(u)
    BY <1>8 DEF JobCancelled, JobWaits, AsksForSlot, Due, Become, Holds
  <2> QED
    BY <1>5, <1>8, <2>1 DEF JobCancelled, JobWaits
<1>9. ASSUME NEW t \in Tasks, JobDropped(t) \/ JobFails(t) \/ JobFinishes(t)
      PROVE  SlotsKept'
  <2>1. PICK s : /\ PutSlot(s, Tail(ready), Become(job, t, "none"))
                 /\ \/ JobDropped(t) \/ JobFails(t)
                    \/ JobFinishes(t) /\ s = slot[t]
    BY <1>9 DEF JobDropped, JobFails, JobFinishes
  <2>2. ready # <<>> /\ t = Head(ready) /\ job[t] # "waiting"
    BY <1>9, DueIsHead DEF JobStep
  <2>3. /\ freeSlots' = freeSlots \cup {s}
        /\ \A u \in Tasks \ {t} : \/ job'[u] = job[u]
                                  \/ job[u] = "waiting" /\ job'[u] = "woken"
    BY <2>1, <2>2, PutSlotMoves
  <2>4. \A u \in Tasks \ {t} : Holds(u)' <=> Holds(u)
    BY <2>3 DEF Holds
  <2>5. \A u \in Tasks \ {t} : slot'[u] = slot[u]
    BY <1>9 DEF JobDropped, JobFails, JobFinishes, Become
  <2>6. Holds(t) => slot[t] \in freeSlots'
    <3>1. JobDropped(t) \/ JobFails(t) => ~Holds(t)
      BY DEF JobDropped, JobFails, AsksForSlot, Due, Holds
    <3> QED
      BY <1>9, <2>1, <2>3, <3>1
  <2> QED
    BY <1>5, <2>3, <2>4, <2>5, <2>6
<1>10. ASSUME NEW t \in Tasks, JobRuns(t)
       PROVE  SlotsKept'
  <2>1. PICK s \in freeSlots : freeSlots' = freeSlots \ {s} /\ slot' = [slot EXCEPT ![t] = s]
    BY <1>10 DEF JobRuns, TakeSlot, Become
  <2>2. job' = [job EXCEPT ![t] = "inThread"] /\ ~Holds(t)
    BY <1>10 DEF JobRuns, AsksForSlot, Due, Become, Holds
  <2>3. Holds(t)' /\ slot'[t] = s
    BY <2>1, <2>2 DEF Holds
  <2>4. \A u \in Tasks : Holds(u) => Holds(u)' /\ slot'[u] = slot[u]
    BY <2>1, <2>2 DEF Holds
  <2> QED
    BY <1>2, <1>4, <2>1, <2>3, <2>4
<1>11. ASSUME NEW t \in Tasks, ThreadReturns(t)
       PROVE  SlotsKept'
  <2>1. CASE job[t] = "inThread"
    <3>1. job' = [job EXCEPT ![t] = "finish"] /\ UNCHANGED <<slot, freeSlots>>
      BY <1>11, <2>1 DEF ThreadReturns, Become
    <3> QED
      BY <1>5, <3>1 DEF Holds
  <2>2. CASE job[t] # "inThread"
    <3>1. job' = job /\ slot' = [slot EXCEPT ![t] = NoSlot] /\ freeSlots' = freeSlots
          /\ thread[t] = "returned"
      BY <1>11, <2>2 DEF ThreadReturns, Become
    <3>2. ~Holds(t)
      BY <2>2, <3>1 DEF Holds, SlotInv, JobHasSlot
    <3> QED
      BY <1>5, <3>1, <3>2 DEF Holds
  <2> QED
    BY <2>1, <2>2
<1>12. CASE Stop \/ Exit \/ Crash
  BY <1>4, <1>12, SchedEnds
<1> QED
  BY <1>6, <1>7, <1>8, <1>9, <1>10, <1>11, <1>12, SchedMoves DEF JobMove, JobStep

Woken == {t \in Tasks : job[t] = "woken"}

\* The counts of NoLostWakeup are of finite sets.
LEMMA CountedSets ==
  ASSUME NEW F \in SUBSET Slots, NEW W \in SUBSET Tasks
  PROVE  /\ IsFiniteSet(F) /\ Cardinality(F) \in Nat
         /\ IsFiniteSet(W) /\ Cardinality(W) \in Nat
  BY RunnerAssumption, TasksAssumption, FS_Subset, FS_CardinalityType

\* A slot that comes back wakes a getter if there is one, a woken coroutine that leaves
\* takes a slot with it, and a coroutine suspends only when no slot is free.
LEMMA WakeupStep ==
  ASSUME TypeOK, TypeOK', SlotInv, CoroutinesListed, NoLostWakeup, [Next]_vars
  PROVE  NoLostWakeup'
<1> USE SlotTypes
<1>1. /\ IsFiniteSet(freeSlots) /\ Cardinality(freeSlots) \in Nat
      /\ IsFiniteSet(Woken) /\ Cardinality(Woken) \in Nat
  <2>1. freeSlots \in SUBSET Slots /\ Woken \in SUBSET Tasks
    BY DEF Woken
  <2> QED
    BY <2>1, CountedSets
<1>2. /\ IsFiniteSet(freeSlots') /\ Cardinality(freeSlots') \in Nat
      /\ IsFiniteSet(Woken') /\ Cardinality(Woken') \in Nat
  <2>1. freeSlots' \in SUBSET Slots /\ Woken' \in SUBSET Tasks
    BY DEF Woken, TypeOK, RunnerTypeOK
  <2> QED
    BY <2>1, CountedSets
<1>3. proc = "up" /\ waiters # <<>> => Cardinality(freeSlots) <= Cardinality(Woken)
  BY DEF NoLostWakeup, Woken
<1>4. (proc' = "up" /\ waiters' # <<>> => Cardinality(freeSlots') <= Cardinality(Woken'))
        => NoLostWakeup'
  BY DEF NoLostWakeup, Woken
<1>5. CASE UNCHANGED <<job, waiters, freeSlots>> /\ (proc' = "up" => proc = "up" \/ Serve)
  <2>1. Woken' = Woken
    BY <1>5 DEF Woken
  <2>2. proc' = "up" /\ waiters' # <<>> => proc = "up"
    BY <1>5, NoWaitersBefore
  <2> QED
    BY <1>3, <1>4, <1>5, <2>1, <2>2
<1>6. CASE Dispatch
  <2>1. UNCHANGED <<waiters, freeSlots, proc>>
    BY <1>6 DEF Dispatch
  <2>2. Woken' = Woken
    BY <1>6 DEF Dispatch, SlotInv, QueuePlaces, Woken
  <2> QED
    BY <1>3, <1>4, <2>1, <2>2
<1>7. ASSUME NEW t \in Tasks, JobCancelled(t)
      PROVE  NoLostWakeup'
  <2>1. UNCHANGED <<waiters, freeSlots, proc>>
    BY <1>7 DEF JobCancelled
  <2>2. Woken' = Woken
    BY <1>7 DEF JobCancelled, Due, Become, Woken
  <2> QED
    BY <1>3, <1>4, <2>1, <2>2
<1>8. ASSUME NEW t \in Tasks, JobWaits(t)
      PROVE  NoLostWakeup'
  <2>1. freeSlots' = {}
    BY <1>8 DEF JobWaits
  <2>2. Cardinality(freeSlots') = 0
    BY <2>1, FS_EmptySet
  <2> QED
    BY <1>2, <1>4, <2>2
<1>9. ASSUME NEW t \in Tasks, JobDropped(t) \/ JobFails(t) \/ JobFinishes(t)
      PROVE  NoLostWakeup'
  <2>1. PICK s : /\ PutSlot(s, Tail(ready), Become(job, t, "none"))
                 /\ s \in freeSlots \/ JobFinishes(t)
    BY <1>9 DEF JobDropped, JobFails, JobFinishes
  <2>2. proc = "up" /\ ready # <<>> /\ t = Head(ready) /\ job[t] # "waiting"
    BY <1>9, DueIsHead DEF JobStep
  <2>3. freeSlots' = freeSlots \cup {s}
    BY <2>1, <2>2, PutSlotMoves
  <2>4. \/ waiters' = <<>>
        \/ waiters # <<>> /\ \E w \in Tasks \ {t} :
             /\ job[w] = "waiting" /\ job'[w] = "woken" /\ job'[t] = "none"
             /\ \A u \in Tasks \ {t, w} : job'[u] = job[u]
    <3>1. waiters = <<>> \/ waiters # <<>>
      OBVIOUS
    <3>2. \/ waiters = <<>> /\ waiters' = <<>>
          \/ \E w \in Tasks \ {t} :
             /\ job[w] = "waiting" /\ job'[w] = "woken" /\ job'[t] = "none"
             /\ \A u \in Tasks \ {t, w} : job'[u] = job[u]
      BY <2>1, <2>2, PutSlotMoves
    <3>3. waiters = <<>> => \A w \in Tasks : job[w] # "waiting"
      BY DEF CoroutinesListed, Elements
    <3> QED
      BY <3>2, <3>3
  <2>5. CASE waiters' = <<>>
    BY <1>4, <2>5
  <2>6. ASSUME waiters # <<>>, NEW w \in Tasks \ {t},
               /\ job[w] = "waiting" /\ job'[w] = "woken" /\ job'[t] = "none"
               /\ \A u \in Tasks \ {t, w} : job'[u] = job[u]
        PROVE  NoLostWakeup'
    <3>1. Woken' = (Woken \ {t}) \cup {w} /\ w \notin Woken \ {t}
      BY <2>6 DEF Woken
    <3>2. IsFiniteSet(Woken \ {t})
          /\ Cardinality(Woken \ {t}) = IF t \in Woken THEN Cardinality(Woken) - 1
                                                       ELSE Cardinality(Woken)
      BY <1>1, FS_RemoveElement
    <3>3. Cardinality(Woken') = Cardinality(Woken \ {t}) + 1
      BY <3>1, <3>2, FS_AddElement
    <3>4. Cardinality(freeSlots) <= Cardinality(Woken)
      BY <1>3, <2>2, <2>6
    <3>5. CASE s \in freeSlots
      <4>1. freeSlots' = freeSlots
        BY <2>3, <3>5
      <4> QED
        BY <1>1, <1>4, <3>2, <3>3, <3>4, <4>1
    <3>6. CASE JobFinishes(t)
      <4>1. t \notin Woken
        BY <3>6 DEF JobFinishes, Due, Woken
      <4>2. Cardinality(freeSlots \cup {s}) = IF s \in freeSlots THEN Cardinality(freeSlots)
                                                             ELSE Cardinality(freeSlots) + 1
        BY <1>1, FS_AddElement
      <4> QED
        BY <1>1, <1>2, <1>4, <2>3, <3>2, <3>3, <3>4, <4>1, <4>2
    <3> QED
      BY <2>1, <3>5, <3>6
  <2> QED
    BY <2>4, <2>5, <2>6
<1>10. ASSUME NEW t \in Tasks, JobRuns(t)
       PROVE  NoLostWakeup'
  <2>1. PICK s \in freeSlots : freeSlots' = freeSlots \ {s}
    BY <1>10 DEF JobRuns, TakeSlot
  <2>2. proc = "up" /\ waiters' = waiters /\ job' = [job EXCEPT ![t] = "inThread"]
    BY <1>10 DEF JobRuns, AsksForSlot, Due, Scheduled, Become
  <2>3. Woken' = Woken \ {t}
    BY <2>2 DEF Woken
  <2>4. Cardinality(freeSlots') = Cardinality(freeSlots) - 1
    BY <1>1, <2>1, FS_RemoveElement
  <2>5. Cardinality(Woken \ {t}) = IF t \in Woken THEN Cardinality(Woken) - 1
                                                 ELSE Cardinality(Woken)
    BY <1>1, FS_RemoveElement
  <2> QED
    BY <1>1, <1>2, <1>3, <1>4, <2>2, <2>3, <2>4, <2>5
<1>11. ASSUME NEW t \in Tasks, ThreadReturns(t)
       PROVE  NoLostWakeup'
  <2>1. UNCHANGED <<waiters, freeSlots, proc>>
    BY <1>11 DEF ThreadReturns
  <2>2. Woken' = Woken
    BY <1>11 DEF ThreadReturns, Become, Woken
  <2> QED
    BY <1>3, <1>4, <2>1, <2>2
<1>12. CASE Stop \/ Exit \/ Crash
  BY <1>4, <1>12, SchedEnds
<1> QED
  BY <1>5, <1>6, <1>7, <1>8, <1>9, <1>10, <1>11, <1>12, SchedMoves DEF JobMove, JobStep

----------------------------------------------------------------------------
(* What a step may do to a row, a thread, the queue.                       *)

\* The life of the row of t, with the actions that move it.
LEMMA RowMoves ==
  ASSUME TypeOK, RetryInv, RowInv, [Next]_vars, NEW t \in Tasks
  PROVE  \/ rows'[t].status = rows[t].status
         \/ /\ rows[t].status = "none" /\ rows'[t].status = "queued"
            /\ ~Accepted(t) /\ Accepted(t)'
            /\ SubmitEnd(t) \/ (SubmitFails(t) /\ t \in abandoned')
         \/ rows[t].status = "queued" /\ rows'[t].status = "running" /\ MarkRunning(t)
         \/ /\ rows[t].status = "running" /\ rows'[t].status \in Finished
            /\ Infer(t) \/ MarkError(t) \/ RestoreInterrupted(t) \/ RestoreSettle(t)
         \/ rows[t].status = "running" /\ rows'[t].status = "queued" /\ RestoreSettle(t)
         \/ rows[t].status = "queued" /\ rows'[t].status = "error" /\ RestoreMissing(t)
         \/ /\ rows[t].status \in {"queued"} \cup Finished /\ rows'[t].status = "none"
            /\ Delete(t) \/ Expire(t) \/ PurgeQueued \/ PurgeFinished
<1> USE RetryTypes
<1>1. CASE UNCHANGED vars
  BY <1>1 DEF vars, storeVars
<1>2. ASSUME NEW u \in Tasks, SubmitEnd(u) \/ SubmitFails(u)
      PROVE  \/ rows'[t] = rows[t]
             \/ /\ u = t /\ rows[t].status = "none" /\ rows'[t].status = "queued"
                /\ ~Accepted(t) /\ Accepted(t)'
                /\ SubmitEnd(t) \/ (SubmitFails(t) /\ t \in abandoned')
  <2>1. ~Accepted(u) /\ rows[u].status = "none"
    BY <1>2 DEF SubmitEnd, SubmitFails, Accepted, RetryInv, RunsCounted, HasRow
  <2>2. \/ rows' = rows
        \/ /\ Touched(u, "queued", 0) /\ req' = Become(req, u, "accepted")
           /\ SubmitEnd(u) \/ (SubmitFails(u) /\ u \in abandoned')
    BY <1>2, Effects DEF SubmitEnd, SubmitFails, storeVars, TypeOK
  <2> QED
    BY <2>1, <2>2 DEF Touched, Become, Accepted
<1>3. ASSUME NEW u \in Tasks, Infer(u) \/ MarkError(u)
      PROVE  \/ rows'[t] = rows[t]
             \/ u = t /\ rows[t].status = "running" /\ rows'[t].status \in Finished
  <2>1. rows[u].status = "running" /\ HasRow(u)
    BY <1>3 DEF Infer, MarkError, AtStore, RowInv, WorkingIsRunning, Working, HasRow
  <2>2. rows' = rows \/ \E st \in Finished : Touched(u, st, rows[u].attempts)
    BY <1>3, <2>1, Effects DEF Infer, MarkError, Finished, storeVars, TypeOK
  <2> QED
    BY <2>1, <2>2 DEF Touched
<1>4. ASSUME NEW u \in Tasks, MarkRunning(u)
      PROVE  \/ rows'[t] = rows[t]
             \/ u = t /\ rows[t].status = "queued" /\ rows'[t].status = "running"
  <2>1. \/ rows' = rows
        \/ rows[u].status = "queued" /\ Touched(u, "running", rows[u].attempts)
    BY <1>4, Effects DEF MarkRunning, CanMarkRunning, storeVars, TypeOK
  <2> QED
    BY <2>1 DEF Touched
<1>5. ASSUME NEW u \in Tasks, RestoreInterrupted(u)
      PROVE  \/ rows'[t] = rows[t]
             \/ u = t /\ rows[t].status = "running" /\ rows'[t].status = "error"
  <2>1. rows[u].status = "running" /\ HasRow(u)
    BY <1>5 DEF RestoreInterrupted, Restoring, InSegment, RetryInv, RestoreListed, HasRow
  <2>2. Touched(u, "error", rows[u].attempts)
    BY <1>5, <2>1, Effects DEF RestoreInterrupted, TypeOK
  <2> QED
    BY <2>1, <2>2 DEF Touched
<1>6. ASSUME NEW u \in Tasks, RestoreBump(u)
      PROVE  rows'[t].status = rows[t].status
  <2>1. rows[u].status = "running" /\ HasRow(u)
    BY <1>6 DEF RestoreBump, Restoring, InSegment, RetryInv, RestoreListed, HasRow
  <2>2. Touched(u, rows[u].status, rows[u].attempts + 1)
    BY <1>6, <2>1, Effects DEF RestoreBump, TypeOK
  <2> QED
    BY <2>2 DEF Touched
<1>7. ASSUME NEW u \in Tasks, RestoreSettle(u)
      PROVE  \/ rows'[t] = rows[t]
             \/ u = t /\ rows[t].status = "running" /\ rows'[t].status \in {"queued", "error"}
  <2>1. rows[u].status = "running" /\ HasRow(u)
    BY <1>7 DEF RestoreSettle, InSegment, RowInv, RestoreClears, HasRow
  <2>2. \E st \in {"queued", "error"} : Touched(u, st, rows[u].attempts)
    BY <1>7, <2>1, Effects DEF RestoreSettle, TypeOK
  <2> QED
    BY <2>1, <2>2 DEF Touched
<1>8. ASSUME NEW u \in Tasks, RestoreMissing(u)
      PROVE  \/ rows'[t] = rows[t]
             \/ u = t /\ rows[t].status = "queued" /\ rows'[t].status = "error"
  <2>1. rows[u].status = "queued" /\ HasRow(u)
    BY <1>8 DEF RestoreMissing, Restoring, InSegment, RowInv, RestoreClears, QueuedListPC,
       HasRow
  <2>2. rows' = rows \/ Touched(u, "error", rows[u].attempts)
    BY <1>8, <2>1, Effects DEF RestoreMissing, storeVars, TypeOK
  <2> QED
    BY <2>1, <2>2 DEF Touched
<1>9. ASSUME PurgeQueued \/ PurgeFinished
      PROVE  \/ rows'[t] = rows[t]
             \/ rows[t].status \in {"queued"} \cup Finished /\ rows'[t].status = "none"
  BY <1>9 DEF PurgeQueued, PurgeFinished, delete_by_statuses, list_tasks, DeleteRows, NoRow
<1>10. ASSUME NEW u \in Tasks, Delete(u) \/ Expire(u)
       PROVE  \/ rows'[t] = rows[t]
              \/ /\ u = t /\ rows[t].status \in {"queued"} \cup Finished
                 /\ rows'[t].status = "none"
  <2>1. DeleteRows({u})
    BY <1>10 DEF Delete, Expire
  <2>2. rows[u].status \in {"queued"} \cup Finished
    BY <1>10 DEF Delete, Deletable, HasRow, Expire, Expirable, TaskRow, TaskStatus
  <2> QED
    BY <2>1, <2>2 DEF DeleteRows, NoRow
<1>11. ASSUME NEW u \in Tasks,
              \/ Post(u) \/ WriteUpload(u) \/ SubmitReject(u) \/ SubmitBegin(u) \/ Place(u)
              \/ JobStep(u) \/ JobFails(u) \/ ThreadReturns(u)
       PROVE  rows' = rows
  BY <1>11 DEF Post, WriteUpload, SubmitReject, SubmitBegin, Place, JobStep, JobCancelled,
     JobWaits, JobDropped, JobRuns, JobFinishes, JobFails, ThreadReturns, storeVars
<1>12. ASSUME NEW u \in Tasks,
              \/ Get(u) \/ CheckUpload(u) \/ PrepareWav(u) \/ Final(u) \/ CleanupTmp(u)
              \/ StoreGone(u) \/ StoreFails(u)
              \/ LoseUpload(u) \/ DeleteTmp(u) \/ RestoreCleanTmp(u) \/ RestoreEnqueue(u)
       PROVE  rows' = rows
  BY <1>12 DEF Get, CheckUpload, PrepareWav, Final, CleanupTmp, StoreGone, StoreFails,
     LoseUpload, DeleteTmp, RestoreCleanTmp, RestoreEnqueue, storeVars
<1>13. ASSUME \/ Dispatch \/ Purge \/ PurgeTmp \/ RestoreNextList \/ Serve \/ StopClean
              \/ StopClose \/ Start \/ Stop \/ Exit \/ Crash \/ PurgeFails \/ TtlFails
              \/ ChangeToken
       PROVE  rows' = rows
  BY <1>13 DEF Dispatch, Purge, PurgeTmp, RestoreNextList, Serve, StopClean, StopClose, close,
     Start, OpenStore, Stop, Exit, Crash, LoseMemory, PurgeFails, TtlFails, ChangeToken,
     SealsBroken, storeVars
<1>14. CASE \E u \in Tasks : Post(u) \/ AnswerStep(u) \/ JobStep(u) \/ WorkerStep(u)
                             \/ Delete(u) \/ Expire(u) \/ LoseUpload(u)
  BY <1>2, <1>3, <1>4, <1>10, <1>11, <1>12, <1>14 DEF AnswerStep, WorkerStep, ThreadStep
<1>15. CASE SegmentStep
  BY <1>5, <1>6, <1>7, <1>8, <1>9, <1>12, <1>13, <1>15 DEF SegmentStep, Finished
<1>16. CASE Dispatch \/ Purge \/ ProcessStep \/ StoreFault \/ ChangeToken
  BY <1>2, <1>11, <1>12, <1>13, <1>16 DEF ProcessStep, StoreFault
<1> QED
  BY <1>1, <1>14, <1>15, <1>16 DEF Next

----------------------------------------------------------------------------
(* Requests and deletions.                                                 *)

\* Who moves a request, and what ends the serving of the process.
LEMMA RequestMoves ==
  ASSUME SegmentsInPhase, [Next]_vars
  PROVE  \/ req' = req /\ (proc' = proc \/ proc # "up")
         \/ \E t \in Tasks : Post(t) \/ AnswerStep(t) \/ SubmitFails(t)
         \/ Stop \/ Exit \/ Crash
<1>1. CASE UNCHANGED vars
  BY <1>1 DEF vars, runnerVars
<1>2. ASSUME NEW t \in Tasks,
             \/ JobStep(t) \/ JobFails(t) \/ WorkerStep(t) \/ Delete(t) \/ Expire(t)
             \/ LoseUpload(t) \/ DeleteTmp(t)
             \/ StoreFails(t) /\ UNCHANGED runnerVars
      PROVE  req' = req /\ proc' = proc
  BY <1>2 DEF JobStep, JobCancelled, JobWaits, JobDropped, JobRuns, JobFinishes, JobFails,
     WorkerStep, ThreadReturns, Delete, Expire, LoseUpload, DeleteTmp, runnerVars
<1>3. ASSUME NEW t \in Tasks,
             \/ RestoreInterrupted(t) \/ RestoreBump(t) \/ RestoreSettle(t)
             \/ RestoreCleanTmp(t) \/ RestoreMissing(t) \/ RestoreEnqueue(t)
      PROVE  req' = req /\ proc' = proc
  BY <1>3 DEF RestoreInterrupted, RestoreBump, RestoreSettle, RestoreCleanTmp,
     RestoreMissing, RestoreEnqueue, ContinueAt
<1>4. CASE \/ Dispatch \/ Purge \/ PurgeQueued \/ PurgeFinished \/ PurgeTmp \/ PurgeFails
           \/ TtlFails \/ ChangeToken \/ RestoreNextList \/ StopClean
  <2>1. req' = req /\ proc' = proc
    BY <1>4 DEF Dispatch, Purge, PurgeQueued, PurgeFinished, PurgeTmp, PurgeFails, TtlFails,
       ChangeToken, RestoreNextList, ContinueAt, StopClean, runnerVars
  <2> QED
    BY <2>1
<1>5. ASSUME Start \/ Serve \/ StopClose
      PROVE  req' = req /\ proc # "up"
  BY <1>5 DEF Start, Serve, StopClose, InSegment, SegmentsInPhase, RestorePC
<1> QED
  BY <1>1, <1>2, <1>3, <1>4, <1>5 DEF Next, SegmentStep, ProcessStep, StoreFault

\* A request that was accepted stays so, over deaths too.
LEMMA AcceptedStays ==
  ASSUME TypeOK, SegmentsInPhase, [Next]_vars, NEW t \in Tasks, Accepted(t)
  PROVE  Accepted(t)'
<1> USE RetryTypes
<1>1. CASE req' = req
  BY <1>1 DEF Accepted
<1>2. ASSUME NEW u \in Tasks, Post(u) \/ AnswerStep(u) \/ SubmitFails(u)
      PROVE  Accepted(t)'
  BY <1>2 DEF Post, AnswerStep, WriteUpload, SubmitReject, SubmitBegin, Place, SubmitEnd,
     SubmitFails, Become, Accepted
<1>3. CASE Stop \/ Exit \/ Crash
  BY <1>3 DEF Stop, Exit, Crash, LoseMemory, InFlight, Accepted
<1> QED
  BY <1>1, <1>2, <1>3, RequestMoves

\* A task enters _cancelled in the segment that removes its row.
LEMMA CancelledMoves ==
  ASSUME TypeOK, [Next]_vars, NEW t \in cancelled'
  PROVE  \/ t \in cancelled
         \/ t \in Tasks /\ HasRow(t) /\ ~HasRow(t)'
<1> USE RetryTypes
<1>1. CASE UNCHANGED vars
  BY <1>1 DEF vars, runnerVars, otherVars
<1>2. ASSUME NEW u \in Tasks,
             \/ Post(u) \/ AnswerStep(u) \/ JobStep(u) \/ JobFails(u) \/ SubmitFails(u)
             \/ WorkerStep(u) \/ Expire(u) \/ LoseUpload(u) \/ DeleteTmp(u)
             \/ StoreFails(u) /\ UNCHANGED runnerVars
      PROVE  cancelled' = cancelled
  BY <1>2 DEF Post, AnswerStep, WriteUpload, SubmitReject, SubmitBegin, Place, SubmitEnd,
     JobStep, JobCancelled, JobWaits, JobDropped, JobRuns, JobFinishes, JobFails, SubmitFails,
     WorkerStep, ThreadReturns, Expire, LoseUpload, DeleteTmp, runnerVars, otherVars
<1>3. ASSUME NEW u \in Tasks,
             \/ RestoreInterrupted(u) \/ RestoreBump(u) \/ RestoreSettle(u)
             \/ RestoreCleanTmp(u) \/ RestoreMissing(u) \/ RestoreEnqueue(u)
      PROVE  cancelled' = cancelled
  BY <1>3 DEF RestoreInterrupted, RestoreBump, RestoreSettle, RestoreCleanTmp,
     RestoreMissing, RestoreEnqueue, ContinueAt, otherVars
<1>4. CASE \/ Dispatch \/ Purge \/ PurgeFinished \/ PurgeTmp \/ PurgeFails \/ TtlFails
           \/ ChangeToken \/ RestoreNextList \/ StopClean \/ Start \/ Serve \/ StopClose \/ Stop
  <2>1. cancelled' = cancelled
    BY <1>4 DEF Dispatch, Purge, PurgeFinished, PurgeTmp, PurgeFails, TtlFails, ChangeToken,
       RestoreNextList, ContinueAt, StopClean, Start, Serve, StopClose, Stop, runnerVars,
       otherVars
  <2> QED
    BY <2>1
<1>5. CASE Exit \/ Crash
  BY <1>5 DEF Exit, Crash, LoseMemory
<1>6. ASSUME NEW u \in Tasks, Delete(u), t \notin cancelled
      PROVE  t \in Tasks /\ HasRow(t) /\ ~HasRow(t)'
  <2>1. t = u /\ DeleteRows({u}) /\ HasRow(u)
    BY <1>6 DEF Delete, Deletable
  <2> QED
    BY <2>1 DEF DeleteRows, NoRow, HasRow
<1>7. ASSUME PurgeQueued, t \notin cancelled
      PROVE  t \in Tasks /\ HasRow(t) /\ ~HasRow(t)'
  <2>1. t \in list_tasks({"queued"}) /\ DeleteRows(list_tasks({"queued"}))
    BY <1>7 DEF PurgeQueued, delete_by_statuses
  <2> QED
    BY <2>1 DEF DeleteRows, NoRow, HasRow, list_tasks
<1> QED
  BY <1>1, <1>2, <1>3, <1>4, <1>5, <1>6, <1>7 DEF Next, SegmentStep, ProcessStep, StoreFault

\* The row of a task that is asked not to run does not come back.
LEMMA CancelledStep ==
  ASSUME TypeOK, RetryInv, RowInv, CancelledIsGone, [Next]_vars
  PROVE  CancelledIsGone'
<1> SUFFICES ASSUME NEW t \in cancelled'
             PROVE  Accepted(t)' /\ ~HasRow(t)'
  BY DEF CancelledIsGone
<1>1. SegmentsInPhase
  BY DEF RetryInv
<1>2. CASE t \in cancelled
  <2>1. t \in Tasks /\ Accepted(t) /\ rows[t].status = "none"
    BY <1>2 DEF CancelledIsGone, HasRow, TypeOK, RunnerTypeOK
  <2>2. rows'[t].status = "none"
    BY <2>1, RowMoves DEF Finished
  <2> QED
    BY <1>1, <2>1, <2>2, AcceptedStays DEF HasRow
<1>3. CASE t \in Tasks /\ HasRow(t) /\ ~HasRow(t)'
  <2>1. Accepted(t)
    BY <1>3 DEF RetryInv, RunsCounted
  <2> QED
    BY <1>1, <1>3, <2>1, AcceptedStays
<1> QED
  BY <1>2, <1>3, CancelledMoves

----------------------------------------------------------------------------
(* A queued row always has someone on the way to mark_running.             *)

\* What moves the event loop on within a segment, or the life of the process.
LEMMA LoopMoves ==
  ASSUME [Next]_vars
  PROVE  \/ UNCHANGED <<loop, proc>>
         \/ SegmentStep \/ ProcessStep \/ Purge \/ PurgeFails
         \/ \E t \in Tasks : Delete(t)
<1>1. CASE UNCHANGED vars
  BY <1>1 DEF vars, runnerVars
<1>2. ASSUME NEW u \in Tasks,
             \/ Post(u) \/ AnswerStep(u) \/ JobStep(u) \/ JobFails(u) \/ SubmitFails(u)
             \/ WorkerStep(u) \/ Expire(u) \/ LoseUpload(u)
             \/ StoreFails(u) /\ UNCHANGED runnerVars
      PROVE  UNCHANGED <<loop, proc>>
  BY <1>2 DEF Post, AnswerStep, WriteUpload, SubmitReject, SubmitBegin, Place, SubmitEnd,
     JobStep, JobCancelled, JobWaits, JobDropped, JobRuns, JobFinishes, JobFails, SubmitFails,
     WorkerStep, ThreadReturns, Expire, LoseUpload, runnerVars
<1>3. CASE Dispatch \/ TtlFails \/ ChangeToken
  <2>1. UNCHANGED <<loop, proc>>
    BY <1>3 DEF Dispatch, TtlFails, ChangeToken, runnerVars
  <2> QED
    BY <2>1
<1> QED
  BY <1>1, <1>2, <1>3 DEF Next, StoreFault

\* What moves _queue.
LEMMA QueueMoves ==
  ASSUME [Next]_vars
  PROVE  \/ queue' = queue
         \/ \E t \in Tasks : (SubmitEnd(t) \/ RestoreEnqueue(t)) /\ queue' = Append(queue, t)
         \/ Dispatch \/ Stop \/ Exit \/ Crash
<1>1. CASE UNCHANGED vars
  BY <1>1 DEF vars, runnerVars, schedVars
<1>2. ASSUME NEW u \in Tasks,
             \/ Post(u) \/ WriteUpload(u) \/ SubmitReject(u) \/ SubmitBegin(u) \/ Place(u)
             \/ JobStep(u) \/ JobFails(u) \/ SubmitFails(u) \/ Delete(u) \/ DeleteTmp(u)
             \/ WorkerStep(u) \/ Expire(u) \/ LoseUpload(u)
             \/ StoreFails(u) /\ UNCHANGED runnerVars
      PROVE  queue' = queue
  BY <1>2 DEF Post, WriteUpload, SubmitReject, SubmitBegin, Place,
     JobStep, JobCancelled, JobWaits, JobDropped, JobRuns, JobFinishes, JobFails, SubmitFails,
     Delete, DeleteTmp, WorkerStep, ThreadReturns, Expire, LoseUpload, runnerVars, schedVars
<1>3. ASSUME NEW u \in Tasks,
             \/ RestoreInterrupted(u) \/ RestoreBump(u) \/ RestoreSettle(u)
             \/ RestoreCleanTmp(u) \/ RestoreMissing(u)
      PROVE  queue' = queue
  BY <1>3 DEF RestoreInterrupted, RestoreBump, RestoreSettle, RestoreCleanTmp,
     RestoreMissing, ContinueAt, schedVars
<1>4. CASE \/ Purge \/ PurgeQueued \/ PurgeFinished \/ PurgeTmp \/ PurgeFails \/ TtlFails
           \/ ChangeToken \/ RestoreNextList \/ StopClean \/ Start \/ Serve \/ StopClose
  <2>1. queue' = queue
    BY <1>4 DEF Purge, PurgeQueued, PurgeFinished, PurgeTmp, PurgeFails, TtlFails, ChangeToken,
       RestoreNextList, ContinueAt, StopClean, Start, Serve, StopClose, runnerVars, schedVars
  <2> QED
    BY <2>1
<1>5. ASSUME NEW u \in Tasks, SubmitEnd(u) \/ RestoreEnqueue(u)
      PROVE  queue' = Append(queue, u)
  BY <1>5 DEF SubmitEnd, RestoreEnqueue
<1> QED
  BY <1>1, <1>2, <1>3, <1>4, <1>5 DEF Next, AnswerStep, SegmentStep, ProcessStep, StoreFault

\* What moves the thread of t.
LEMMA ThreadMoves ==
  ASSUME TypeOK, [Next]_vars, NEW t \in Tasks
  PROVE  \/ thread'[t] = thread[t]
         \/ (ThreadStep(t) \/ StoreFails(t)) /\ UNCHANGED runnerVars
         \/ ThreadReturns(t) \/ JobRuns(t) \/ Stop \/ Exit \/ Crash
<1> USE RetryTypes
<1>1. CASE UNCHANGED vars
  BY <1>1 DEF vars, threadVars
<1>2. ASSUME NEW u \in Tasks,
             \/ Post(u) \/ AnswerStep(u) \/ SubmitFails(u) \/ JobCancelled(u) \/ JobWaits(u)
             \/ JobDropped(u) \/ JobFinishes(u) \/ JobFails(u) \/ Delete(u) \/ DeleteTmp(u)
             \/ Expire(u) \/ LoseUpload(u)
      PROVE  thread' = thread
  BY <1>2 DEF Post, AnswerStep, WriteUpload, SubmitReject, SubmitBegin, Place, SubmitEnd,
     SubmitFails, JobCancelled, JobWaits, JobDropped, JobFinishes, JobFails, Delete, DeleteTmp,
     Expire, LoseUpload, threadVars
<1>3. ASSUME NEW u \in Tasks,
             \/ RestoreInterrupted(u) \/ RestoreBump(u) \/ RestoreSettle(u)
             \/ RestoreCleanTmp(u) \/ RestoreMissing(u) \/ RestoreEnqueue(u)
      PROVE  thread' = thread
  BY <1>3 DEF RestoreInterrupted, RestoreBump, RestoreSettle, RestoreCleanTmp,
     RestoreMissing, RestoreEnqueue, ContinueAt, threadVars
<1>4. CASE \/ Dispatch \/ Purge \/ PurgeQueued \/ PurgeFinished \/ PurgeTmp \/ PurgeFails
           \/ TtlFails \/ ChangeToken \/ RestoreNextList \/ StopClean \/ Start \/ Serve
           \/ StopClose
  <2>1. thread' = thread
    BY <1>4 DEF Dispatch, Purge, PurgeQueued, PurgeFinished, PurgeTmp, PurgeFails, TtlFails,
       ChangeToken, RestoreNextList, ContinueAt, StopClean, Start, Serve, StopClose, threadVars
  <2> QED
    BY <2>1
<1>5. ASSUME NEW u \in Tasks, u # t,
             ThreadStep(u) \/ StoreFails(u) \/ ThreadReturns(u) \/ JobRuns(u)
      PROVE  thread'[t] = thread[t]
  BY <1>5 DEF ThreadStep, Get, MarkRunning, CheckUpload, PrepareWav, Infer, MarkError, Final,
     CleanupTmp, StoreGone, StoreFails, ThreadReturns, JobRuns, Goto
<1> QED
  BY <1>1, <1>2, <1>3, <1>4, <1>5
     DEF Next, JobStep, WorkerStep, SegmentStep, ProcessStep, StoreFault

\* A task is given up for the rest of the life of the process.
LEMMA AbandonedGrows ==
  ASSUME [Next]_vars
  PROVE  abandoned \subseteq abandoned' \/ Exit \/ Crash
<1>1. CASE UNCHANGED vars
  BY <1>1 DEF vars, threadVars
<1>2. ASSUME NEW u \in Tasks,
             \/ Post(u) \/ AnswerStep(u) \/ SubmitFails(u) \/ JobStep(u) \/ JobFails(u)
             \/ ThreadReturns(u) \/ Delete(u) \/ DeleteTmp(u) \/ Expire(u) \/ LoseUpload(u)
      PROVE  abandoned \subseteq abandoned'
  BY <1>2 DEF Post, AnswerStep, WriteUpload, SubmitReject, SubmitBegin, Place, SubmitEnd,
     SubmitFails, JobStep, JobCancelled, JobWaits, JobDropped, JobRuns, JobFinishes, JobFails,
     ThreadReturns, Delete, DeleteTmp, Expire, LoseUpload, threadVars, historyVars
<1>3. ASSUME NEW u \in Tasks,
             \/ ThreadStep(u) \/ StoreFails(u)
             \/ RestoreInterrupted(u) \/ RestoreBump(u) \/ RestoreSettle(u)
             \/ RestoreCleanTmp(u) \/ RestoreMissing(u) \/ RestoreEnqueue(u)
      PROVE  abandoned \subseteq abandoned'
  BY <1>3 DEF ThreadStep, Get, MarkRunning, CheckUpload, PrepareWav, Infer, MarkError, Final,
     CleanupTmp, StoreGone, StoreFails, RestoreInterrupted, RestoreBump, RestoreSettle,
     RestoreCleanTmp, RestoreMissing, RestoreEnqueue, ContinueAt, threadVars, historyVars
<1>4. CASE \/ Dispatch \/ Purge \/ PurgeQueued \/ PurgeFinished \/ PurgeTmp \/ PurgeFails
           \/ TtlFails \/ ChangeToken \/ RestoreNextList \/ StopClean \/ Start \/ Serve
           \/ StopClose \/ Stop
  <2>1. abandoned \subseteq abandoned'
    BY <1>4 DEF Dispatch, Purge, PurgeQueued, PurgeFinished, PurgeTmp, PurgeFails, TtlFails,
       ChangeToken, RestoreNextList, ContinueAt, StopClean, Start, Serve, StopClose, Stop,
       threadVars, historyVars
  <2> QED
    BY <2>1
<1> QED
  BY <1>1, <1>2, <1>3, <1>4 DEF Next, WorkerStep, SegmentStep, ProcessStep, StoreFault

Unstarted == {"start", "waiting", "woken"}

\* What becomes of a coroutine that has not started its thread.
LEMMA UnstartedMoves ==
  ASSUME TypeOK, SlotInv, [Next]_vars, NEW t \in Tasks, job[t] \in Unstarted
  PROVE  \/ job'[t] \in Unstarted
         \/ JobRuns(t) \/ JobFails(t)
         \/ (JobCancelled(t) \/ JobDropped(t)) /\ NotWanted(t)
         \/ Stop \/ Exit \/ Crash
<1> USE RetryTypes, SlotTypes DEF Unstarted
<1>1. CASE job' = job
  BY <1>1
<1>2. CASE Dispatch
  BY <1>2 DEF Dispatch
<1>3. ASSUME NEW u \in Tasks, JobCancelled(u) \/ JobWaits(u) \/ JobRuns(u)
      PROVE  \/ job'[t] \in Unstarted
             \/ t = u /\ JobRuns(t)
             \/ t = u /\ JobCancelled(t) /\ NotWanted(t)
  BY <1>3 DEF JobCancelled, JobWaits, JobRuns, Become, NotWanted
<1>4. ASSUME NEW u \in Tasks, JobDropped(u) \/ JobFails(u) \/ JobFinishes(u)
      PROVE  \/ job'[t] \in Unstarted
             \/ t = u /\ JobFails(t)
             \/ t = u /\ JobDropped(t) /\ NotWanted(t)
  <2>1. /\ \E s : PutSlot(s, Tail(ready), Become(job, u, "none"))
        /\ UNCHANGED <<queue, req>>
    BY <1>4 DEF JobDropped, JobFails, JobFinishes
  <2>2. job[u] # "waiting"
    BY <1>4, DueIsHead DEF JobStep
  <2>3. \A v \in Tasks \ {u} : job'[v] = job[v] \/ job'[v] = "woken"
    BY <2>1, <2>2, PutSlotWakes DEF SlotInv
  <2>4. JobFinishes(u) => u # t
    BY DEF JobFinishes, Due
  <2> QED
    BY <1>4, <2>3, <2>4 DEF JobDropped
<1>5. ASSUME NEW u \in Tasks, ThreadReturns(u)
      PROVE  job'[t] = job[t]
  BY <1>5 DEF ThreadReturns, Become
<1> QED
  BY <1>1, <1>2, <1>3, <1>4, <1>5, SchedMoves DEF JobMove, JobStep

\* _queue keeps its entries until the dispatcher makes coroutines of them.
LEMMA EntriesKept ==
  ASSUME TypeOK, [Next]_vars, NEW t \in Elements(queue)
  PROVE  \/ t \in Elements(queue')
         \/ Dispatch /\ job'[t] = "start"
         \/ Stop \/ Exit \/ Crash
<1> USE SlotTypes
<1>1. CASE \E u \in Tasks : queue' = Append(queue, u)
  BY <1>1, ElementsAppend
<1>2. CASE Dispatch
  <2>1. PICK i \in DOMAIN queue : queue[i] = t
    BY DEF Elements
  <2>2. t \in Tasks
    BY <2>1
  <2> QED
    BY <1>2, <2>1, <2>2 DEF Dispatch
<1> QED
  BY <1>1, <1>2, QueueMoves

\* Someone is on the way to mark_running for t.
Reached(t) == t \in Elements(queue) \/ job[t] \in Unstarted \/ thread[t] \in {"get", "mark"}

\* While the runner serves, a queued row that keeps its status keeps its coroutine, or the
\* store fails for it.
LEMMA ReachedKept ==
  ASSUME TypeOK, RetryInv, SlotInv, RowInv, CancelledIsGone, [Next]_vars, NEW t \in Tasks,
         proc = "up", proc' = "up", rows[t].status = "queued", rows'[t].status = "queued",
         t \notin abandoned', Reached(t)
  PROVE  Reached(t)'
<1> USE RetryTypes, SlotTypes
<1>1. ~(Stop \/ Exit \/ Crash)
  BY DEF Stop, Exit, Crash, LoseMemory
<1>2. CASE t \in Elements(queue)
  BY <1>1, <1>2, EntriesKept DEF Reached, Unstarted
<1>3. CASE job[t] \in Unstarted
  <2>1. ~NotWanted(t)
    BY DEF NotWanted, HasRow, CancelledIsGone
  <2>2. ~JobFails(t)
    BY DEF JobFails
  <2>3. JobRuns(t) => thread'[t] = "get"
    BY DEF JobRuns, Goto
  <2> QED
    BY <1>1, <1>3, <2>1, <2>2, <2>3, UnstartedMoves DEF Reached
<1>4. CASE thread[t] \in {"get", "mark"}
  <2>1. ASSUME ThreadStep(t) \/ StoreFails(t)
        PROVE  thread'[t] = "mark"
    <3>1. HasRow(t) /\ storeOpen
      BY DEF HasRow, RowInv, StorePhases
    <3>2. ~MarkRunning(t)
      <4>1. CanMarkRunning(t)
        BY DEF CanMarkRunning
      <4>2. mark_running(t) => rows'[t].status = "running"
        BY Effects DEF TypeOK, Touched
      <4> QED
        BY <4>1, <4>2 DEF MarkRunning
    <3>3. ~StoreFails(t)
      BY DEF StoreFails
    <3>4. Get(t)
      BY <1>4, <2>1, <3>1, <3>2, <3>3 DEF ThreadStep, CheckUpload, PrepareWav, Infer, MarkError,
         Final, CleanupTmp, StoreGone, AtStore
    <3> QED
      BY <3>1, <3>4 DEF Get, Goto
  <2>2. ~ThreadReturns(t)
    BY <1>4 DEF ThreadReturns
  <2>3. JobRuns(t) => thread'[t] = "get"
    BY DEF JobRuns, Goto
  <2> QED
    BY <1>1, <1>4, <2>1, <2>2, <2>3, ThreadMoves DEF Reached
<1> QED
  BY <1>2, <1>3, <1>4 DEF Reached

\* The restore enqueues what it has listed, and it has listed every queued row.
LEMMA EnqueuedKept ==
  ASSUME TypeOK, RetryInv, RowInv, QueuedReached, [Next]_vars, NEW t \in Tasks,
         loop'.at = "restoreEnqueue", rows'[t].status = "queued"
  PROVE  t \in Elements(queue') \/ t \in loop'.todo
<1> USE RetryTypes, SlotTypes
<1>1. CASE UNCHANGED <<loop, proc>>
  <2>1. loop.at = "restoreEnqueue" /\ proc = "restoring"
    BY <1>1 DEF RetryInv, SegmentsInPhase, RestorePC
  <2>2. rows[t].status = "queued"
    BY <2>1, RowMoves DEF SubmitEnd, SubmitFails, RestoreSettle, Scheduled, InSegment, Finished
  <2>3. ~(Dispatch \/ Stop \/ Exit \/ Crash)
    BY <1>1, <2>1 DEF Dispatch, Stop, Scheduled, Exit, Crash, LoseMemory
  <2>4. t \in Elements(queue) => t \in Elements(queue')
    BY <2>3, EntriesKept
  <2> QED
    BY <1>1, <2>1, <2>2, <2>4 DEF QueuedReached
<1>2. ASSUME NEW u \in Tasks, RestoreEnqueue(u)
      PROVE  t \in Elements(queue') \/ t \in loop'.todo
  <2>1. /\ rows' = rows /\ queue' = Append(queue, u) /\ loop'.todo = loop.todo \ {u}
        /\ loop.at = "restoreEnqueue"
    BY <1>2 DEF RestoreEnqueue, InSegment, At, storeVars
  <2>2. Elements(queue') = Elements(queue) \cup {u}
    BY <2>1, ElementsAppend
  <2> QED
    BY <2>1, <2>2 DEF QueuedReached
<1>3. CASE RestoreNextList
  <2>1. rows' = rows /\ loop'.todo = list_tasks({"queued"})
    BY <1>3 DEF RestoreNextList, ContinueAt, At, RowsToEnqueue, storeVars
  <2> QED
    BY <2>1 DEF list_tasks
<1>4. ASSUME NEW u \in Tasks,
             \/ DeleteTmp(u) \/ RestoreInterrupted(u) \/ RestoreBump(u) \/ RestoreSettle(u)
             \/ RestoreCleanTmp(u) \/ RestoreMissing(u) \/ Delete(u)
      PROVE  FALSE
  BY <1>4 DEF DeleteTmp, RestoreInterrupted, RestoreBump, RestoreSettle, RestoreCleanTmp,
     RestoreMissing, ContinueAt, Delete, At, Idle
<1>5. ASSUME \/ Purge \/ PurgeQueued \/ PurgeFinished \/ PurgeTmp \/ PurgeFails \/ Serve
             \/ StopClean \/ StopClose \/ ProcessStep
      PROVE  FALSE
  BY <1>5 DEF Purge, PurgeQueued, PurgeFinished, PurgeTmp, PurgeFails, Serve, StopClean,
     StopClose, ProcessStep, Start, Stop, Exit, Crash, LoseMemory, At, Idle
<1> QED
  BY <1>1, <1>2, <1>3, <1>4, <1>5, LoopMoves DEF SegmentStep

\* A queued row is never stranded.
LEMMA ReachedStep ==
  ASSUME TypeOK, RetryInv, SlotInv, RowInv, CancelledIsGone, QueuedReached, [Next]_vars
  PROVE  QueuedReached'
<1> USE RetryTypes, SlotTypes
<1>1. ASSUME NEW t \in Tasks, rows'[t].status = "queued", proc' = "up", t \notin abandoned'
      PROVE  Reached(t)'
  <2>1. CASE Serve
    <3>1. /\ rows' = rows /\ queue' = queue /\ loop.at = "restoreEnqueue"
          /\ loop.todo = {}
      BY <2>1 DEF Serve, InSegment, storeVars, schedVars
    <3> QED
      BY <1>1, <3>1 DEF QueuedReached, Reached
  <2>2. CASE proc = "up"
    <3>1. abandoned \subseteq abandoned'
      BY <1>1, AbandonedGrows DEF Exit, Crash, LoseMemory
    <3>2. CASE rows[t].status = "queued"
      <4>1. Reached(t)
        BY <1>1, <2>2, <3>1, <3>2 DEF QueuedReached, Reached, Unstarted
      <4> QED
        BY <1>1, <2>2, <3>2, <4>1, ReachedKept
    <3>3. CASE rows[t].status # "queued"
      <4>1. ~RestoreSettle(t)
        BY <2>2 DEF RestoreSettle, InSegment, RetryInv, SegmentsInPhase, RestorePC
      <4>2. SubmitEnd(t)
        BY <1>1, <3>3, <4>1, RowMoves DEF Finished
      <4>3. queue' = Append(queue, t)
        BY <4>2 DEF SubmitEnd
      <4> QED
        BY <4>3, ElementsAppend DEF Reached
    <3> QED
      BY <3>2, <3>3
  <2>3. proc = "up" \/ Serve
    <3>1. ~ProcessStep
      BY <1>1 DEF ProcessStep, Start, Stop, Exit, Crash, LoseMemory
    <3>2. ~StopClose
      BY <1>1 DEF StopClose
    <3> QED
      BY <1>1, <3>1, <3>2, SchedMoves DEF ProcessStep, Dispatch, JobMove, JobStep, JobCancelled,
         JobWaits, JobDropped, JobRuns, JobFinishes, JobFails, ThreadReturns
  <2> QED
    BY <2>1, <2>2, <2>3
<1>2. ASSUME NEW t \in Tasks, rows'[t].status = "queued", loop'.at = "restoreEnqueue"
      PROVE  t \in Elements(queue') \/ t \in loop'.todo
  BY <1>2, EnqueuedKept
<1> QED
  BY <1>1, <1>2 DEF QueuedReached, Reached, Unstarted

----------------------------------------------------------------------------
(* The limit of the queue.                                                 *)

\* No step of a serving process queues a row, except the end of submit.
LEMMA QueuedShrinks ==
  ASSUME TypeOK, RetryInv, RowInv, [Next]_vars, proc = "up",
         \A t \in Tasks : ~(SubmitEnd(t) \/ SubmitFails(t))
  PROVE  count_queued' <= count_queued
<1> USE RetryTypes
<1>1. \A t \in Tasks : rows'[t].status = "queued" => rows[t].status = "queued"
  <2>1. \A t \in Tasks : ~RestoreSettle(t)
    BY DEF RestoreSettle, InSegment, RetryInv, SegmentsInPhase, RestorePC
  <2> QED
    BY <2>1, RowMoves DEF Finished
<1>2. list_tasks({"queued"})' \subseteq list_tasks({"queued"})
  BY <1>1 DEF list_tasks
<1>3. IsFiniteSet(list_tasks({"queued"}))
  BY TasksAssumption, FS_Subset DEF list_tasks
<1> QED
  BY <1>2, <1>3, FS_Subset DEF count_queued

\* create adds one row to those that count_queued counts.
LEMMA QueuedByOne ==
  ASSUME TypeOK, NEW t \in Tasks, rows[t].status # "queued", create(t)
  PROVE  count_queued' = count_queued + 1
<1>1. Touched(t, "queued", 0)
  BY Effects DEF TypeOK
<1>2. list_tasks({"queued"})' = list_tasks({"queued"}) \cup {t} /\ t \notin list_tasks({"queued"})
  BY <1>1 DEF Touched, list_tasks
<1>3. IsFiniteSet(list_tasks({"queued"}))
  BY TasksAssumption, FS_Subset DEF list_tasks
<1>4. Cardinality(list_tasks({"queued"}) \cup {t}) = Cardinality(list_tasks({"queued"})) + 1
  BY <1>2, <1>3, FS_AddElement
<1> QED
  BY <1>2, <1>4 DEF count_queued

\* The count is a number.
LEMMA QueuedCounted == count_queued \in Nat
<1>1. IsFiniteSet(list_tasks({"queued"}))
  BY TasksAssumption, FS_Subset DEF list_tasks
<1> QED
  BY <1>1, FS_CardinalityType DEF count_queued

\* Under the lock one request at a time counts the queue and then enters it.
LEMMA LimitStep ==
  ASSUME TypeOK, RetryInv, RowInv, LimitReserved, [Next]_vars
  PROVE  LimitReserved'
<1> USE RetryTypes
<1>1. SegmentsInPhase
  BY DEF RetryInv
<1>2. CASE Stop \/ Exit \/ Crash
  <2>1. \A t \in Tasks : ~InFlight(t)'
    BY <1>2 DEF Stop, Exit, Crash, LoseMemory, InFlight
  <2> QED
    BY <2>1 DEF LimitReserved, SubmitLocked, InFlight
<1>3. ASSUME NEW t \in Tasks, SubmitEnd(t) \/ SubmitFails(t)
      PROVE  LimitReserved'
  <2>1. /\ req[t] = "placed" /\ proc' = proc /\ proc = "up"
        /\ req' = [req EXCEPT ![t] = "accepted"] \/ req' = [req EXCEPT ![t] = "failed"]
    BY <1>3 DEF SubmitEnd, SubmitFails, Become, Scheduled
  <2>2. \A u \in Tasks : req'[u] \notin {"placing", "placed"}
    BY <2>1 DEF LimitReserved
  <2> QED
    BY <2>1, <2>2 DEF LimitReserved, InFlight, SubmitLocked
<1>4. ASSUME NEW t \in Tasks, SubmitBegin(t)
      PROVE  LimitReserved'
  <2>1. /\ ~SubmitLocked /\ count_queued < WORKER_QUEUE_SIZE /\ rows' = rows
        /\ req' = [req EXCEPT ![t] = "placing"] /\ proc' = proc /\ proc = "up"
    BY <1>4, QueuedCounted, RunnerAssumption
       DEF SubmitBegin, SubmitSeesFullQueue, QueueFull, Become, Scheduled, storeVars
  <2>2. count_queued' = count_queued
    BY <2>1 DEF count_queued, list_tasks
  <2> QED
    BY <2>1, <2>2 DEF LimitReserved, InFlight, SubmitLocked
<1>5. ASSUME \A u \in Tasks : ~(SubmitEnd(u) \/ SubmitFails(u)),
             SubmitLocked' => SubmitLocked, SubmitLocked => proc = "up",
             \A t \in Tasks : /\ InFlight(t)' => proc' = "up"
                              /\ req'[t] \in {"placing", "placed"}
                                   => req[t] \in {"placing", "placed"}
      PROVE  LimitReserved'
  <2>1. SubmitLocked' => count_queued' < WORKER_QUEUE_SIZE
    <3> SUFFICES ASSUME SubmitLocked'
                 PROVE  count_queued' < WORKER_QUEUE_SIZE
      OBVIOUS
    <3>1. count_queued' <= count_queued /\ count_queued < WORKER_QUEUE_SIZE
      BY <1>5, QueuedShrinks DEF LimitReserved
    <3>2. count_queued' \in Nat
      <4>1. IsFiniteSet(list_tasks({"queued"})')
        BY TasksAssumption, FS_Subset DEF list_tasks
      <4> QED
        BY <4>1, FS_CardinalityType DEF count_queued
    <3> QED
      BY <3>1, <3>2, QueuedCounted, RunnerAssumption
  <2> QED
    BY <1>5, <2>1 DEF LimitReserved
<1>6. ASSUME \A u \in Tasks : ~(SubmitEnd(u) \/ SubmitFails(u)),
             req' = req, proc' = proc \/ proc # "up"
      PROVE  LimitReserved'
  BY <1>5, <1>6 DEF LimitReserved, InFlight, SubmitLocked
<1>7. ASSUME NEW t \in Tasks,
             \/ Post(t) \/ WriteUpload(t) \/ SubmitReject(t) \/ Place(t),
             \A u \in Tasks : ~(SubmitEnd(u) \/ SubmitFails(u))
      PROVE  LimitReserved'
  <2>1. /\ proc' = proc
        /\ InFlight(t) \/ proc = "up"
        /\ req'[t] \in {"placing", "placed"} => req[t] \in {"placing", "placed"}
        /\ \A u \in Tasks \ {t} : req'[u] = req[u]
    BY <1>7 DEF Post, WriteUpload, SubmitReject, Place, Scheduled, Become, InFlight
  <2> QED
    BY <1>5, <1>7, <2>1 DEF LimitReserved, InFlight, SubmitLocked
<1> QED
  BY <1>1, <1>2, <1>3, <1>4, <1>6, <1>7, RequestMoves DEF AnswerStep

----------------------------------------------------------------------------

\* Every step keeps QueueInv.
LEMMA QueueStep ==
  ASSUME TypeOK, RetryInv, SlotInv, RowInv, QueueInv, TypeOK', SlotInv', [Next]_vars
  PROVE  QueueInv'
<1> USE DEF QueueInv
<1>1. CoroutinesListed'
  BY ListedStep
<1>2. CancelledIsGone'
  BY CancelledStep
<1>3. QueuedReached'
  BY ReachedStep
<1>4. SlotsKept'
  BY KeptStep
<1>5. NoLostWakeup'
  BY WakeupStep
<1>6. LimitReserved'
  BY LimitStep
<1> QED
  BY <1>1, <1>2, <1>3, <1>4, <1>5, <1>6

\* No coroutine, no request and no row at first; the pool is full.
LEMMA QueueInit ==
  ASSUME Init
  PROVE  QueueInv
<1>1. CoroutinesListed /\ CancelledIsGone /\ NoLostWakeup
  BY DEF Init, CoroutinesListed, CancelledIsGone, NoLostWakeup
<1>2. QueuedReached
  BY DEF Init, TaskStoreInit, NoRow, QueuedReached
<1>3. SlotsKept
  BY DEF Init, SlotsKept, SlotsInUse
<1>4. LimitReserved
  BY DEF Init, LimitReserved, InFlight, SubmitLocked
<1> QED
  BY <1>1, <1>2, <1>3, <1>4 DEF QueueInv

\* The invariants so far hold in every state.
LEMMA QueueInvariant == Spec => [](TypeOK /\ RetryInv /\ SlotInv /\ RowInv /\ QueueInv)
<1>1. TypeOK /\ RetryInv /\ SlotInv /\ RowInv /\ QueueInv /\ TypeOK' /\ SlotInv' /\ [Next]_vars
        => QueueInv'
  BY QueueStep
<1>2. Init => QueueInv
  BY QueueInit
<1> QED
  BY <1>1, <1>2, RowsInvariant, PTL DEF Spec

\* Slots are neither lost nor doubled, whichever way a coroutine leaves _run_one:
\* cancelled before it asks, dropped with the slot in hand, failing with it, or after its
\* thread.  While the runner serves, all of WORKERS slots are in the pool or with a coroutine.
THEOREM SlotsNeverLeak == Spec => []NoSlotLeak
<1>1. SlotInv /\ QueueInv => NoSlotLeak
  BY DEF SlotInv, SlotsDivided, Holds, QueueInv, SlotsKept, SlotsInUse, NoSlotLeak
<1> QED
  BY <1>1, QueueInvariant, PTL

\* No coroutine sleeps in _free_slots.get() beside a slot that nobody is coming for, for
\* any number of slots and getters.  The count needs both that waiters come only when no
\* slot is free and that each put_nowait wakes another coroutine, not one woken already.
THEOREM WakeupsNeverLost == Spec => []NoLostWakeup
<1>1. QueueInv => NoLostWakeup
  BY DEF QueueInv
<1> QED
  BY <1>1, QueueInvariant, PTL

\* A queued row of a runner that serves is in _queue, or has a coroutine that is listed and
\* not cancelled, or a thread before mark_running; a restart enqueues all that it finds.
THEOREM QueuedReachable == Spec => []QueuedIsReachable
<1>1. QueueInv => QueuedIsReachable
  <2> SUFFICES ASSUME QueueInv, NEW t \in Tasks \ abandoned, proc = "up",
                      rows[t].status = "queued"
               PROVE  /\ t \notin cancelled
                      /\ \/ t \in Elements(queue) \/ t \in Elements(waiters)
                         \/ t \in Elements(ready) \/ thread[t] \in {"get", "mark"}
    BY DEF QueuedIsReachable
  <2>1. t \notin cancelled
    BY DEF QueueInv, CancelledIsGone, HasRow
  <2>2. \/ t \in Elements(queue)
        \/ job[t] \in {"start", "waiting", "woken"}
        \/ thread[t] \in {"get", "mark"}
    BY DEF QueueInv, QueuedReached
  <2> QED
    BY <2>1, <2>2 DEF QueueInv, CoroutinesListed
<1> QED
  BY <1>1, QueueInvariant, PTL

\* The step that accepts a request finds room in the queue.
LEMMA AcceptedInRoom ==
  ASSUME TypeOK, RetryInv, RowInv, LimitReserved, [Next]_vars, NEW t \in Tasks,
         ~Accepted(t), Accepted(t)'
  PROVE  count_queued' <= WORKER_QUEUE_SIZE
<1> USE RetryTypes
<1>1. SegmentsInPhase
  BY DEF RetryInv
<1>2. ~(Stop \/ Exit \/ Crash)
  BY DEF Stop, Exit, Crash, LoseMemory, InFlight, Accepted
<1>3. \E u \in Tasks : Post(u) \/ AnswerStep(u) \/ SubmitFails(u)
  BY <1>1, <1>2, RequestMoves DEF Accepted
<1>4. create(t) /\ req[t] = "placed"
  BY <1>3 DEF Post, AnswerStep, WriteUpload, SubmitReject, SubmitBegin, Place,
     SubmitEnd, SubmitFails, Become, Accepted
<1>5. rows[t].status # "queued"
  BY DEF RetryInv, RunsCounted, HasRow
<1>6. count_queued' = count_queued + 1
  BY <1>4, <1>5, QueuedByOne
<1>7. count_queued < WORKER_QUEUE_SIZE
  BY <1>4 DEF LimitReserved, SubmitLocked
<1> QED
  BY <1>6, <1>7, QueuedCounted, RunnerAssumption

\* submit never takes the queue beyond WORKER_QUEUE_SIZE, for any number of requests at
\* once: the one that holds the lock has counted fewer, and until it enters its row the
\* count can only shrink.
THEOREM LimitKept == Spec => AcceptedWithinLimit
<1>1. TypeOK /\ RetryInv /\ RowInv /\ QueueInv /\ [Next]_vars
        => [\A t \in Tasks : ~Accepted(t) /\ Accepted(t)'
                               => count_queued' <= WORKER_QUEUE_SIZE]_vars
  BY AcceptedInRoom DEF QueueInv
<1> QED
  BY <1>1, QueueInvariant, PTL DEF Spec, AcceptedWithinLimit
=============================================================================
