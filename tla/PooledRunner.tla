---------------------------- MODULE PooledRunner ----------------------------
(***************************************************************************)
(* The task runner with the threads it really has.  asyncio.to_thread      *)
(* hands a call to the event loop's default executor, min(32, cpu + 4)     *)
(* threads for the whole process: the bodies of uploads (src/app/main.py), *)
(* place_upload under _submit_lock and the pipelines (src/app/queueing.py) *)
(* wait in one line for them, and nothing ties WORKERS to their number.    *)
(* TaskRunner gives every call a thread of its own; here a call has one    *)
(* only once its turn has come.                                            *)
(***************************************************************************)
EXTENDS TaskRunnerProps

CONSTANT PoolSize   \* the threads of the default executor

ASSUME PoolAssumption == PoolSize \in Nat \ {0}

VARIABLE executor   \* the calls (<<"write", t>>, <<"place", t>>, <<"run", t>>) that have not
                    \* returned, in the order they were handed over

pooledVars == <<vars, executor>>

\* A thread that has returned from a call takes the next one: the first PoolSize calls
\* have a thread.
AtWork(call) == \E i \in DOMAIN executor : i <= PoolSize /\ executor[i] = call

HandOver(call) == executor' = Append(executor, call)

\* Faulty variant: a call that has returned keeps its thread.
KeepThread(call) == AtWork(call) /\ executor' = executor

Return(call) ==
  /\ AtWork(call)
  /\ executor' = SelectSeq(executor, LAMBDA c : c # call)

----------------------------------------------------------------------------
(* The steps of TaskRunner that hand a call over or are made by a thread.  *)

PooledPost(t) == Post(t) /\ HandOver(<<"write", t>>)

PooledWriteUpload(t) == WriteUpload(t) /\ Return(<<"write", t>>)

\* The lock is held from here on, while the call may have to wait for a pipeline.
PooledSubmitBegin(t) == SubmitBegin(t) /\ HandOver(<<"place", t>>)

PooledPlace(t) == Place(t) /\ Return(<<"place", t>>)

PooledJobRuns(t) == JobRuns(t) /\ HandOver(<<"run", t>>)

PooledThreadStep(t) ==
  /\ ThreadStep(t) \/ (MayFail /\ StoreFails(t))
  /\ UNCHANGED runnerVars
  /\ IF thread'[t] = "returned"
       THEN Return(<<"run", t>>)
       ELSE AtWork(<<"run", t>>) /\ UNCHANGED executor

\* Of the calls that are withdrawn all that still stand in line are.
PooledStop ==
  /\ Stop
  /\ \A t \in NotPickedUp : AtWork(<<"run", t>>) \/ thread'[t] = "none"
  /\ executor' = SelectSeq(executor, LAMBDA c : thread'[c[2]] # "none")

PooledEnd == (Exit \/ Crash) /\ executor' = <<>>

\* What only the event loop does.
LoopStep ==
  /\ \/ \E t \in Tasks :
          \/ SubmitReject(t) \/ SubmitEnd(t) \/ SubmitFails(t)
          \/ JobCancelled(t) \/ JobWaits(t) \/ JobDropped(t) \/ JobFails(t) \/ JobFinishes(t)
          \/ ThreadReturns(t) \/ Delete(t) \/ Expire(t) \/ LoseUpload(t)
     \/ Dispatch \/ Purge \/ SegmentStep \/ Start
     \/ PurgeFails \/ TtlFails \/ ChangeToken
  /\ UNCHANGED executor

PooledInit == Init /\ executor = <<>>

PooledNext ==
  \/ \E t \in Tasks : \/ PooledPost(t) \/ PooledWriteUpload(t) \/ PooledSubmitBegin(t)
                      \/ PooledPlace(t) \/ PooledJobRuns(t) \/ PooledThreadStep(t)
  \/ PooledStop \/ PooledEnd \/ LoopStep

PooledSpec == PooledInit /\ [][PooledNext]_pooledVars

----------------------------------------------------------------------------
(* Fairness.  asyncio runs ready callbacks in order, so a coroutine that   *)
(* is due again and again gets its turn (SF: the segments of others come   *)
(* in between, and the lock or the line for a thread may be taken); a      *)
(* segment is not interrupted and the operating system runs threads that   *)
(* have a call (WF); ffmpeg and the engines return; the TTL loop wakes up  *)
(* every 30 s; Compose restarts the process (docker-compose.yml, restart:  *)
(* always).  No fault, no request and no death has to happen.  Where a     *)
(* process has only finitely many such steps, some one of them going on is *)
(* enough; a request may be repeated for ever, so each has its own.        *)

Quietly(A) == A /\ UNCHANGED executor

AnswerStepPooled(t) ==
  \/ PooledWriteUpload(t) \/ PooledSubmitBegin(t) \/ PooledPlace(t)
  \/ Quietly(SubmitReject(t) \/ SubmitEnd(t))

JobStepPooled(t) ==
  \/ PooledJobRuns(t)
  \/ Quietly(JobCancelled(t) \/ JobWaits(t) \/ JobDropped(t) \/ JobFinishes(t))

PooledFairness ==
  /\ \A t \in Tasks : SF_pooledVars(AnswerStepPooled(t))
  /\ WF_pooledVars(\E t \in Tasks : PooledThreadStep(t))
  /\ WF_pooledVars(\E t \in Tasks : Quietly(ThreadReturns(t)))
  /\ SF_pooledVars(\E t \in Tasks : JobStepPooled(t))
  /\ SF_pooledVars(\E t \in Tasks : Quietly(Expire(t)))
  /\ SF_pooledVars(Quietly(Dispatch))
  /\ WF_pooledVars(Quietly(SegmentStep))
  /\ WF_pooledVars(Quietly(Start) \/ (Exit /\ PooledEnd))

PooledFairSpec == PooledSpec /\ PooledFairness

\* Every accepted task is finished or removed in the end, through any deaths of the
\* process, any order in which coroutines and threads run, and with fewer threads than
\* WORKERS: neither the pipelines nor the slots they hold while they wait for a thread,
\* nor a submit that holds the lock meanwhile, block each other for ever.  A task whose
\* calls of the store fail waits for the next start.
Settles ==
  \A t \in Tasks : rows[t].status \in {"queued", "running"}
                     ~> rows[t].status \in Finished \cup {"none"} \/ t \in abandoned

\* Every request for a transcription is answered, although place_upload waits in one line
\* with the pipelines and the lock is held meanwhile.
RequestsAnswered ==
  \A t \in Tasks : InFlight(t) ~> ~InFlight(t)

\* A thread that finishes its row removes the task's files, unless the process ends or
\* stops first or the look at the row fails.
FinishedIsCleaned ==
  \A t \in Tasks : rows[t].status \in Finished /\ thread[t] = "final"
                     ~> tmp[t] = "none" \/ proc # "up" \/ t \in abandoned

\* Finished rows go away by themselves as long as _ttl_loop lives; one failed call of the
\* store ends it for the rest of the process.
HistoryExpires ==
  \A t \in Tasks : rows[t].status \in Finished ~> ~HasRow(t) \/ ~ttlLoop
=============================================================================
