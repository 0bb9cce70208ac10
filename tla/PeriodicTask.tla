---------------------------- MODULE PeriodicTask ----------------------------
(***************************************************************************)
(* A task that refreshes something for ever: its handler does the work and *)
(* enqueues the task's successor.  "topology:refresh-service",             *)
(* "topology:refresh-network" (topology_service.go) and                    *)
(* "topology:precompute-impact" (impact_cache.go) on the queue of          *)
(* pkg/infra/queue.go, in a process that starts, shuts down and crashes    *)
(* as cmd/platform-api/app.go lets it.                                     *)
(*                                                                         *)
(* The tasks are in Redis and outlive the process.  asynq, which keeps     *)
(* them, is external: it delivers a task at least once, retries one that   *)
(* fails and archives one that fails too often.  A delay has no length     *)
(* here: a delayed task is a pending one.                                  *)
(***************************************************************************)
EXTENDS Naturals, FiniteSets

CONSTANTS Ids,         \* tasks that can be in Redis at a time
          MaxTries,    \* retries before a task is archived: 25
          MaxStarts,   \* bound: starts of the process
          MaxFailures  \* bound: calls of Redis that fail

ASSUME TaskAssumption == /\ IsFiniteSet(Ids)
                         /\ MaxTries \in Nat
                         /\ MaxStarts \in Nat
                         /\ MaxFailures \in Nat

VARIABLES phase,      \* of the process
          server,     \* the asynq server of the process
          task,       \* where each task is
          tries,      \* how often each was retried
          starts,     \* number of starts of the process
          failures,   \* number of failed calls of Redis
          enqueued,   \* history: first tasks of a start
          repeated,   \* history: tasks returned to Redis though a successor is there
          ended       \* history: tasks that came to an end without a successor

vars == <<phase, server, task, tries, starts, failures, enqueued, repeated, ended>>

history == <<enqueued, repeated, ended>>

Init == /\ phase = "down"
        /\ server = "off"
        /\ task = [i \in Ids |-> "none"]
        /\ tries = [i \in Ids |-> 0]
        /\ starts = 0
        /\ failures = 0
        /\ enqueued = 0
        /\ repeated = 0
        /\ ended = 0

\* The tasks whose work, and whose successor, is still to come.
Live == {i \in Ids : task[i] \in {"pending", "running", "leased"}}

Fails == failures < MaxFailures /\ failures' = failures + 1

\* Task i is new in Redis.
New(i) == /\ task[i] = "none"
          /\ tries' = [tries EXCEPT ![i] = 0]

-----------------------------------------------------------------------------
\* App.Run: the queue is started in a goroutine, while the services are being started.
StartProcess ==
    /\ phase = "down"
    /\ starts < MaxStarts
    /\ phase' = "starting"
    /\ starts' = starts + 1
    /\ UNCHANGED <<server, task, tries, failures, history>>

\* The goroutine: an error is only logged, and there is no other attempt.
StartServer ==
    /\ phase \in {"starting", "registered", "up"}
    /\ server = "off"
    /\ \/ server' = "on" /\ UNCHANGED failures
       \/ server' = "failed" /\ Fails
    /\ UNCHANGED <<phase, task, tries, starts, history>>

\* registerQueueHandlers, once Start has refreshed for the first time.
Register ==
    /\ phase = "starting"
    /\ phase' = "registered"
    /\ UNCHANGED <<server, task, tries, starts, failures, history>>

\* The end of Start, which enqueues a task whatever there is in Redis.
Enqueue ==
    /\ phase = "registered"
    /\ phase' = "up"
    /\ \/ /\ \E i \in Ids : New(i) /\ task' = [task EXCEPT ![i] = "pending"]
          /\ enqueued' = enqueued + 1
          /\ UNCHANGED failures
       \/ Fails /\ UNCHANGED <<task, tries, enqueued>>
    /\ UNCHANGED <<server, starts, repeated, ended>>

-----------------------------------------------------------------------------
Serving == server = "on" /\ phase \in {"starting", "registered", "up"}

\* A worker takes a task whose handler is registered.
Take(i) ==
    /\ Serving
    /\ phase # "starting"
    /\ task[i] = "pending"
    /\ task' = [task EXCEPT ![i] = "running"]
    /\ UNCHANGED <<phase, server, tries, starts, failures, history>>

\* Task i has failed: it is to be retried, or it is archived.
Retry(i) ==
    \/ /\ tries[i] < MaxTries
       /\ task' = [task EXCEPT ![i] = "pending"]
       /\ tries' = [tries EXCEPT ![i] = @ + 1]
       /\ UNCHANGED ended
    \/ /\ tries[i] >= MaxTries
       /\ task' = [task EXCEPT ![i] = "none"]
       /\ ended' = ended + 1
       /\ UNCHANGED tries

\* A worker takes a task whose handler is not there yet: the mux answers with an error.
TakeUnregistered(i) ==
    /\ Serving
    /\ phase = "starting"
    /\ task[i] = "pending"
    /\ Retry(i)
    /\ UNCHANGED <<phase, server, starts, failures, enqueued, repeated>>

\* Mutant of Follow: a handler does not enqueue a successor.
FollowNever(i) ==
    /\ task[i] = "running"
    /\ task' = [task EXCEPT ![i] = "followed"]
    /\ UNCHANGED <<phase, server, tries, starts, failures, history>>

\* The handler has done its work and enqueues the successor: an error is only logged.
Follow(i) ==
    /\ task[i] = "running"
    /\ \/ /\ \E j \in Ids : New(j) /\ task' = [task EXCEPT ![i] = "followed", ![j] = "pending"]
          /\ UNCHANGED <<failures, ended>>
       \/ /\ Fails
          /\ task' = [task EXCEPT ![i] = "followed"]
          /\ ended' = ended + 1
          /\ UNCHANGED tries
    /\ UNCHANGED <<phase, server, starts, enqueued, repeated>>

\* The handler has returned, and Redis is told that the task is done.
Acknowledge(i) ==
    /\ task[i] = "followed"
    /\ task' = [task EXCEPT ![i] = "none"]
    /\ UNCHANGED <<phase, server, tries, starts, failures, history>>

\* The handler takes longer than asynq allows: its context is cancelled, so that it does
\* not enqueue a successor any more, and the task has failed.
TimeOut(i) ==
    /\ task[i] = "running"
    /\ Retry(i)
    /\ UNCHANGED <<phase, server, starts, failures, enqueued, repeated>>

\* Mutant of Recover: leases are looked after only while the services are being started.
RecoverAtStart(i) ==
    /\ server = "on"
    /\ phase = "starting"
    /\ task[i] = "leased"
    /\ Retry(i)
    /\ UNCHANGED <<phase, server, starts, failures, enqueued, repeated>>

\* The lease of a task whose worker has died expires.
Recover(i) ==
    /\ server = "on"
    /\ task[i] = "leased"
    /\ Retry(i)
    /\ UNCHANGED <<phase, server, starts, failures, enqueued, repeated>>

-----------------------------------------------------------------------------
\* SIGTERM: the services are stopped, which does not stop their handlers, and the server
\* takes no more tasks.
Stop ==
    /\ phase = "up"
    /\ phase' = "stopping"
    /\ UNCHANGED <<server, task, tries, starts, failures, history>>

\* Mutant of Return: what a worker has in its hands is not returned.
ReturnNothing(s) ==
    /\ task' = [i \in Ids |-> IF task[i] \in {"running", "followed"} THEN "none" ELSE task[i]]
    /\ UNCHANGED repeated

\* The tasks in the hands of a worker are in the state s, from which they are delivered again.
Return(s) ==
    /\ task' = [i \in Ids |-> IF task[i] \in {"running", "followed"} THEN s ELSE task[i]]
    /\ repeated' = repeated + Cardinality({i \in Ids : task[i] = "followed"})

\* The process ends after a grace period; the server has returned what was not done.
Exit ==
    /\ phase = "stopping"
    /\ phase' = "down"
    /\ server' = "off"
    /\ Return("pending")
    /\ UNCHANGED <<tries, starts, failures, enqueued, ended>>

\* The process dies; the lease of the tasks it worked on has to expire.
Crash ==
    /\ phase # "down"
    /\ phase' = "down"
    /\ server' = "off"
    /\ Return("leased")
    /\ UNCHANGED <<tries, starts, failures, enqueued, ended>>

Work(i) == Take(i) \/ TakeUnregistered(i) \/ Follow(i) \/ Acknowledge(i) \/ TimeOut(i) \/ Recover(i)

Next == \/ StartProcess \/ StartServer \/ Register \/ Enqueue
        \/ \E i \in Ids : Work(i)
        \/ Stop \/ Exit \/ Crash

Spec == Init /\ [][Next]_vars

\* The server takes what is in Redis, handlers end, and leases expire.
Fairness == \A i \in Ids : /\ WF_vars(Take(i))
                           /\ WF_vars(Follow(i))
                           /\ WF_vars(Acknowledge(i))
                           /\ WF_vars(Recover(i))

FairSpec == Spec /\ Fairness

-----------------------------------------------------------------------------
\* Type invariant.
TypeOK ==
    /\ phase \in {"down", "starting", "registered", "up", "stopping"}
    /\ server \in {"off", "on", "failed"}
    /\ task \in [Ids -> {"none", "pending", "running", "followed", "leased"}]
    /\ tries \in [Ids -> 0 .. MaxTries]
    /\ starts \in 0 .. MaxStarts
    /\ failures \in 0 .. MaxFailures
    /\ enqueued \in Nat
    /\ repeated \in Nat
    /\ ended \in Nat
    /\ phase = "down" => server = "off"
    /\ \A i \in Ids : task[i] \in {"running", "followed"} => server = "on"

\* Each start adds a task that repeats itself for ever, and so does a worker that is
\* interrupted between the successor and the acknowledgement of its task; nothing but a
\* failure that is logged takes one away (topology_service.go:145, 171-180; app.go:71-73).
ChainsAccounted ==
    Cardinality(Live) + ended = enqueued + repeated

\* A service that has started has a task that refreshes it, whatever shutdowns and crashes
\* interrupted, unless a call of Redis failed or a task was archived (app.go:38-73).
NoSilentEnd ==
    phase = "up" => Live # {} \/ failures > 0 \/ ended > 0

\* While the process and its server are up, the handler runs again and again, unless the
\* last task came to an end (topology_service.go:171-180).
KeepsRefreshing ==
    <>[](phase = "up" /\ server = "on")
        => []<>(\E i \in Ids : task[i] = "running") \/ <>[](Live = {})

=============================================================================
