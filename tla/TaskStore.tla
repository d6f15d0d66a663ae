----------------------------- MODULE TaskStore -----------------------------
(***************************************************************************)
(* The SQLite table of tasks (src/app/tasks.py, class TaskStore).  Every   *)
(* method of the class takes one lock, runs its statements on one          *)
(* connection and commits before it lets go, so each is one atomic step    *)
(* here.  A definition of this module says what a method does to the       *)
(* table; the modules that extend this one say who calls it, and when.     *)
(* A row keeps the columns the other components branch on; the timings and  *)
(* the checkpoints do not influence control, and of the transcript it      *)
(* matters only whether the present API_TOKEN opens it.                    *)
(***************************************************************************)
EXTENDS Naturals, FiniteSets, TaskIds

VARIABLES rows,         \* the table: the row of each task, NoRow if it has none
          clock,        \* the next creation timestamp
          storeOpen,    \* the connection is open
          unreadable    \* the rows with a transcript sealed under an earlier API_TOKEN

storeVars == <<rows, clock, storeOpen, unreadable>>

Finished == {"success", "error"}
TaskStatus == {"queued", "running"} \cup Finished
ErrorCode == {"interrupted", "process_killed", "missing_upload", "pipeline_error"}

NoRow == [status |-> "none", timestamp |-> 0, attempts |-> 0, error |-> "none"]

TaskRow == [status : TaskStatus \cup {"none"}, timestamp : Nat,
            attempts : Nat, error : ErrorCode \cup {"none"}]

TaskStoreTypeOK ==
  /\ rows \in [Tasks -> TaskRow]
  /\ clock \in Nat \ {0}
  /\ storeOpen \in BOOLEAN
  /\ unreadable \subseteq Tasks

TaskStoreInit ==
  /\ rows = [t \in Tasks |-> NoRow]
  /\ clock = 1
  /\ storeOpen = FALSE
  /\ unreadable = {}

----------------------------------------------------------------------------
(* The reading methods.                                                    *)

HasRow(t) == rows[t].status # "none"

list_tasks(statuses) == {t \in Tasks : rows[t].status \in statuses}

\* _row_to_record decrypts the transcript of every row a method returns: one row sealed
\* under another token and the whole call raises InvalidToken.
Readable(S) == S \cap unreadable = {}

count_queued == Cardinality(list_tasks({"queued"}))

\* The head of list_queued_fifo among the tasks S: the earliest timestamp.
OldestOf(S) == {t \in S : \A u \in S : rows[t].timestamp <= rows[u].timestamp}

----------------------------------------------------------------------------
(* The writing methods, as the table they leave behind.  An UPDATE of a    *)
(* task that has no row any more changes nothing.                          *)

SetRow(t, row) == [rows EXCEPT ![t] = row]

UpdateRow(t, row) == IF HasRow(t) THEN SetRow(t, row) ELSE rows

create(t) ==
  /\ rows' = SetRow(t, [status |-> "queued", timestamp |-> clock,
                        attempts |-> 0, error |-> "none"])
  /\ clock' = clock + 1
  /\ UNCHANGED <<storeOpen, unreadable>>

\* mark_running is a compare-and-set: whether it finds the row 'queued'.
CanMarkRunning(t) == rows[t].status = "queued"

mark_running(t) ==
  /\ rows' = SetRow(t, [rows[t] EXCEPT !.status = "running"])
  /\ UNCHANGED <<clock, storeOpen, unreadable>>

mark_success(t) ==
  /\ rows' = UpdateRow(t, [rows[t] EXCEPT !.status = "success", !.error = "none"])
  /\ UNCHANGED <<clock, storeOpen, unreadable>>

\* Faulty variant: the first and the third bound parameter swapped.
MarkErrorSwapped(t, code) ==
  /\ rows' = UpdateRow(t, [rows[t] EXCEPT !.status = code, !.error = "error"])
  /\ UNCHANGED <<clock, storeOpen, unreadable>>

mark_error(t, code) ==
  /\ rows' = UpdateRow(t, [rows[t] EXCEPT !.status = "error", !.error = code])
  /\ UNCHANGED <<clock, storeOpen, unreadable>>

bump_attempts(t) ==
  /\ rows' = UpdateRow(t, [rows[t] EXCEPT !.attempts = @ + 1])
  /\ UNCHANGED <<clock, storeOpen, unreadable>>

\* Faulty variant: the reset also clears the death counter.
ResetForgettingAttempts(t) ==
  /\ rows' = UpdateRow(t, [rows[t] EXCEPT !.status = "queued", !.error = "none",
                                          !.attempts = 0])
  /\ UNCHANGED <<clock, storeOpen, unreadable>>

reset_to_queued(t) ==
  /\ rows' = UpdateRow(t, [rows[t] EXCEPT !.status = "queued", !.error = "none"])
  /\ UNCHANGED <<clock, storeOpen, unreadable>>

\* DELETE ... WHERE: delete_by_statuses, delete_if_not_running and
\* purge_expired differ only in the rows S they select.
DeleteRows(S) ==
  /\ rows' = [t \in Tasks |-> IF t \in S THEN NoRow ELSE rows[t]]
  /\ unreadable' = unreadable \ S
  /\ UNCHANGED <<clock, storeOpen>>

delete_by_statuses(statuses) == DeleteRows(list_tasks(statuses))

\* Faulty variant: DELETE /tasks/{id} without its test for 'running'.
DeletesRunningToo(t) == HasRow(t)

\* delete_if_not_running finds a row it may remove.
Deletable(t) == HasRow(t) /\ rows[t].status # "running"

\* Faulty variant: purge_expired keeps the rows that ended in an error.
ExpirableIfSuccess(t) == rows[t].status = "success"

\* purge_expired may select the row, once its finished_at is old enough.
Expirable(t) == rows[t].status \in Finished

\* Outside of the program, between two processes: API_TOKEN is given a new value.
SealsBroken ==
  /\ unreadable' = list_tasks({"success"})
  /\ UNCHANGED <<rows, clock, storeOpen>>

OpenStore ==
  /\ storeOpen' = TRUE
  /\ UNCHANGED <<rows, clock, unreadable>>

close ==
  /\ storeOpen' = FALSE
  /\ UNCHANGED <<rows, clock, unreadable>>
============================================================================
