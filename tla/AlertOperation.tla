--------------------------- MODULE AlertOperation ---------------------------
(***************************************************************************)
(* Alert operations (send, silence, unsilence) that are recorded in        *)
(* alert_operations before Alertmanager is called: the WithRecord calls of *)
(* internal/alerting/application/service.go, the OperationManager and the  *)
(* ErrorHandler of infrastructure/resilience.go, the repository and the    *)
(* retry scheduler.                                                        *)
(*                                                                         *)
(* All requests are about one alert.  The check for duplicates compares    *)
(* user and type of operation: a key is such a pair.  No two steps of a    *)
(* request are in one transaction, so each is an action.                   *)
(***************************************************************************)
EXTENDS Naturals, FiniteSets

CONSTANTS Requests,
          Keys,
          KeyOf,       \* the key of each request
          Window,      \* rows the check for duplicates looks at: 5
          MaxRetries,  \* MaxRetries of an operation: 3
          Listed,      \* rows ProcessRetryQueue asks for: 100
          MaxFailures  \* bound: requests that meet an error of the database

ASSUME OperationAssumption == /\ KeyOf \in [Requests -> Keys]
                              /\ IsFiniteSet(Requests)
                              /\ Window \in Nat
                              /\ MaxRetries \in Nat \ {0}
                              /\ Listed \in Nat
                              /\ MaxFailures \in Nat

VARIABLES status,      \* the status of each request's row, "none" before it is created
          retries,     \* its retry_count
          nth,         \* its place among the rows by created_at, 0 before it is created
          created,     \* number of rows
          aged,        \* number of rows, the oldest ones, that are five minutes old
          pc,
          listed,      \* the operations the retry scheduler has still to enqueue
          tasks,       \* history: requests a retry task was put on the queue for
          dbFailed,    \* history: a database call failed for the request
          callFailed,  \* history: the call of Alertmanager returned an error
          before       \* history: the requests that had ended when each began

vars == <<status, retries, nth, created, aged, pc, listed, tasks, dbFailed, callFailed, before>>

rows == <<status, retries, nth, created>>
queue == <<listed, tasks>>
history == <<dbFailed, callFailed, before>>

Init == /\ status = [r \in Requests |-> "none"]
        /\ retries = [r \in Requests |-> 0]
        /\ nth = [r \in Requests |-> 0]
        /\ created = 0
        /\ aged = 0
        /\ pc = [r \in Requests |-> "idle"]
        /\ listed = {}
        /\ tasks = {}
        /\ dbFailed = {}
        /\ callFailed = {}
        /\ before = [r \in Requests |-> {}]

Ended == {r \in Requests : pc[r] = "done"}

Recent == {r \in Requests : nth[r] > aged}

\* The step of r from label "from" to label "to".
Step(r, from, to) == pc[r] = from /\ pc' = [pc EXCEPT ![r] = to]

\* A call of the database fails, on behalf of r.
Failing(r) == /\ Cardinality(dbFailed \union {r}) =< MaxFailures
              /\ dbFailed' = dbFailed \union {r}

-----------------------------------------------------------------------------
Begin(r) ==
    /\ Step(r, "idle", "lookup")
    /\ before' = [before EXCEPT ![r] = Ended]
    /\ UNCHANGED <<rows, aged, queue, dbFailed, callFailed>>

\* The newest rows of the alert, as GetByFingerprint returns them.
Newest == {r \in Requests : nth[r] > 0 /\ created < nth[r] + Window}

\* Mutant of Duplicates: only operations in progress count.
PendingDuplicates(r) == {q \in Newest \intersect Recent : KeyOf[q] = KeyOf[r] /\ status[q] = "pending"}

\* What makes r a duplicate.
Duplicates(r) == {q \in Newest \intersect Recent : KeyOf[q] = KeyOf[r] /\ status[q] # "failed"}

\* BeginOperation, the check: when the rows cannot be read it is passed.
Lookup(r) ==
    /\ \/ Step(r, "lookup", IF Duplicates(r) = {} THEN "create" ELSE "done") /\ UNCHANGED dbFailed
       \/ Step(r, "lookup", "create") /\ Failing(r)
    /\ UNCHANGED <<rows, aged, queue, callFailed, before>>

\* BeginOperation, the row.
Create(r) ==
    /\ \/ /\ Step(r, "create", "call")
          /\ status' = [status EXCEPT ![r] = "pending"]
          /\ created' = created + 1
          /\ nth' = [nth EXCEPT ![r] = created + 1]
          /\ UNCHANGED dbFailed
       \/ /\ Step(r, "create", "done")
          /\ Failing(r)
          /\ UNCHANGED <<status, created, nth>>
    /\ UNCHANGED <<retries, aged, queue, callFailed, before>>

\* The call of Alertmanager, which withRetry makes up to three times.
Call(r) ==
    /\ \/ Step(r, "call", "complete") /\ UNCHANGED callFailed
       \/ Step(r, "call", "fail") /\ callFailed' = callFailed \union {r}
    /\ UNCHANGED <<rows, aged, queue, dbFailed, before>>

\* CompleteOperation: its error is only logged, the caller is told of a success.
Complete(r) ==
    /\ Step(r, "complete", "done")
    /\ \/ status' = [status EXCEPT ![r] = "success"] /\ UNCHANGED dbFailed
       \/ Failing(r) /\ UNCHANGED status
    /\ UNCHANGED <<retries, nth, created, aged, queue, callFailed, before>>

\* HandleError, FailOperation: the row is read again, its retries are counted, its status
\* is set, and the first of these that fails ends it.  HandleError compensates an
\* operation whose retries are used up, which does nothing but log.
ReadRow(r) ==
    /\ \/ Step(r, "fail", IF retries[r] >= MaxRetries THEN "giveUp" ELSE "count") /\ UNCHANGED dbFailed
       \/ Step(r, "fail", "done") /\ Failing(r)
    /\ UNCHANGED <<rows, aged, queue, callFailed, before>>

\* Mutant of IncrementRetry: an error of the database is ignored.
IncrementIgnored(r) ==
    /\ Step(r, "count", "mark")
    /\ \/ retries' = [retries EXCEPT ![r] = @ + 1] /\ UNCHANGED dbFailed
       \/ Failing(r) /\ UNCHANGED retries
    /\ UNCHANGED <<status, nth, created, aged, queue, callFailed, before>>

IncrementRetry(r) ==
    /\ \/ /\ Step(r, "count", "mark")
          /\ retries' = [retries EXCEPT ![r] = @ + 1]
          /\ UNCHANGED dbFailed
       \/ /\ Step(r, "count", "done")
          /\ Failing(r)
          /\ UNCHANGED retries
    /\ UNCHANGED <<status, nth, created, aged, queue, callFailed, before>>

UpdateStatus(r) ==
    /\ \E outcome \in {<<"mark", "retrying">>, <<"giveUp", "failed">>} :
          /\ Step(r, outcome[1], "done")
          /\ \/ status' = [status EXCEPT ![r] = outcome[2]] /\ UNCHANGED dbFailed
             \/ Failing(r) /\ UNCHANGED status
    /\ UNCHANGED <<retries, nth, created, aged, queue, callFailed, before>>

Request(r) == \/ Lookup(r) \/ Create(r) \/ Call(r) \/ Complete(r)
              \/ ReadRow(r) \/ IncrementRetry(r) \/ UpdateStatus(r)

-----------------------------------------------------------------------------
Open == {r \in Requests : status[r] \in {"pending", "retrying"} /\ retries[r] < MaxRetries}

Older(r) == {q \in Open : nth[q] < nth[r]}

\* Mutant of ListPending: retries in progress are forgotten.
ListNew == {r \in Open : status[r] = "pending" /\ Cardinality(Older(r)) < Listed}

\* The oldest open operations, at most so many.
ListPending == {r \in Open : Cardinality(Older(r)) < Listed}

\* Mutant of ShouldRetry: any operation with retries left.
RetriesLeft(r) == retries[r] < MaxRetries

ShouldRetry(r) == retries[r] < MaxRetries /\ status[r] = "retrying"

\* ProcessRetryQueue: the ticker makes it list, and what is to be retried is decided by
\* the rows as they were listed; an error makes it wait for the next tick.
List ==
    /\ listed = {}
    /\ listed' = {r \in ListPending : ShouldRetry(r)}
    /\ UNCHANGED <<rows, aged, pc, tasks, history>>

\* enqueueRetryOperation: the error is discarded, and neither the row nor the number of
\* its retries changes.  Nobody handles the task, and the queue gives up on it.
Enqueue(r) ==
    /\ r \in listed
    /\ listed' = listed \ {r}
    /\ tasks' \in {tasks, tasks \union {r}}
    /\ UNCHANGED <<rows, aged, pc, history>>

-----------------------------------------------------------------------------
\* The oldest row that is not five minutes old becomes so.
Age ==
    /\ aged < created
    /\ aged' = aged + 1
    /\ UNCHANGED <<rows, pc, queue, history>>

\* The process dies under the requests it serves, and starts again.
Crash ==
    /\ \E r \in Requests : pc[r] \notin {"idle", "done", "dead"}
    /\ pc' = [r \in Requests |-> IF pc[r] \in {"idle", "done"} THEN pc[r] ELSE "dead"]
    /\ listed' = {}
    /\ UNCHANGED <<rows, aged, tasks, history>>

Next == \/ \E r \in Requests : Begin(r) \/ Request(r) \/ Enqueue(r)
        \/ List \/ Age \/ Crash

Spec == Init /\ [][Next]_vars

\* The ticker of the scheduler ticks and its list is gone through; an enqueue that is
\* tried again and again does not always fail.
Fairness == /\ WF_vars(List)
            /\ \A r \in Requests : WF_vars(Enqueue(r)) /\ SF_vars(Enqueue(r) /\ r \in tasks')

FairSpec == Spec /\ Fairness

-----------------------------------------------------------------------------
\* Type invariant.
TypeOK ==
    /\ status \in [Requests -> {"none", "pending", "retrying", "failed", "success"}]
    /\ retries \in [Requests -> Nat]
    /\ nth \in [Requests -> Nat]
    /\ created \in Nat
    /\ aged \in Nat
    /\ pc \in [Requests -> {"idle", "lookup", "create", "call", "complete", "fail", "count", "mark",
                            "giveUp", "done", "dead"}]
    /\ listed \subseteq Requests
    /\ tasks \subseteq Requests
    /\ dbFailed \subseteq Requests
    /\ callFailed \subseteq Requests
    /\ before \in [Requests -> SUBSET Requests]
    /\ \A r \in Requests : nth[r] = 0 <=> status[r] = "none"

\* A request that follows another of its key within five minutes is refused, unless the
\* rows could not be read or Window rows of the alert came between: two such
\* operations are recorded only if the requests overlapped (resilience.go:59-91).
SequentialRequestsOnce ==
    \A r, q \in Recent :
        /\ KeyOf[r] = KeyOf[q]
        /\ r \in before[q]
        /\ status[r] # "failed"
        => q \in dbFailed \/ nth[r] + Window < nth[q]

\* The retry queue holds only operations whose call of Alertmanager returned an error,
\* even when the success of another could not be recorded
\* (service.go:196-205, 397-412; resilience.go:207-209).
RetriedOnlyAfterError ==
    tasks \union listed \subseteq callFailed

\* What the row says of an operation that has ended is so, if every write to the database
\* succeeded; and whatever failed, a success was one and a retry is counted
\* (resilience.go:94-113).
StatusTellsOutcome ==
    \A r \in Requests :
        /\ status[r] = "success" => r \notin callFailed
        /\ status[r] = "retrying" => retries[r] = 1 /\ r \in callFailed
        /\ pc[r] = "done" /\ status[r] # "none" /\ r \notin dbFailed
           => status[r] = IF r \in callFailed THEN "retrying" ELSE "success"

\* While the scheduler runs, an operation to retry is put on the queue, unless Listed
\* older ones are open, which nothing ever closes (service.go:126-142, 397-412).
RetryingIsEnqueued ==
    \A r \in Requests :
        status[r] = "retrying" ~> r \in tasks \/ Cardinality(Older(r)) >= Listed
=============================================================================
