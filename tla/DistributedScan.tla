--------------------------- MODULE DistributedScan ---------------------------
(***************************************************************************)
(* The distributed scan of crates/cli/src/distributed.rs: coordinators     *)
(* push one task per target onto the Redis list temu:tasks, workers pop    *)
(* tasks, scan, and push results onto temu:results, and every coordinator  *)
(* pops results until it has counted as many as it has targets or its      *)
(* deadline has passed.  All coordinators share the two lists; a result of *)
(* another batch is pushed back to the tail.                               *)
(*                                                                         *)
(* One action is one Redis command (the commands of one process interleave *)
(* with those of the others) together with the local code up to the next   *)
(* command.  A failed command ends the process (`?`), as a crash does.     *)
(***************************************************************************)
EXTENDS Naturals, Sequences, FiniteSets

CONSTANTS
  Workers,       \* worker processes; a restarted worker has a new id
  Coordinators,  \* coordinator processes
  Size,          \* Size[c]: lines of c's target list
  BatchOf,       \* BatchOf[c]: "batch-<millis>" computed by c at its start
  RunOnce,       \* workers started with --once
  CanCrash,      \* processes that may die at any point
  CanExpire,     \* coordinators whose collect timeout may be reached
  CanStall,      \* workers that may be busy for longer than the heartbeat TTL
  NoTask, NoResult

\* A target list is never empty (load_target_list rejects it).
ASSUME SizeAssumption == Size \in [Coordinators -> Nat \ {0}]

ASSUME ProcessAssumption ==
  /\ RunOnce \subseteq Workers
  /\ CanStall \subseteq Workers
  /\ CanExpire \subseteq Coordinators
  /\ CanCrash \subseteq Workers \cup Coordinators

\* Two coordinators started in the same millisecond have the same batch id.
BatchIdsDistinct ==
  \A c, d \in Coordinators : BatchOf[c] = BatchOf[d] => c = d

\* DistributedScanTask: the owner and the index stand for the target.
Tasks == UNION {[owner : {c}, index : 1 .. Size[c]] : c \in Coordinators}

\* The task id "<batch_id>-<index>".
TaskId(t) == <<BatchOf[t.owner], t.index>>

TaskIds == {TaskId(t) : t \in Tasks}

\* DistributedScanResult: status Done always carries a scan result, Failed none.
Results == [task : Tasks, done : BOOLEAN]

ASSUME NullAssumption == NoTask \notin Tasks /\ NoResult \notin Results

VARIABLES
  tasks,       \* Redis list temu:tasks
  results,     \* Redis list temu:results
  status,      \* Redis keys temu:status:<task id>
  heartbeats,  \* workers whose temu:workers:<id> key has not expired
  wpc,         \* where each worker is in its loop
  task,        \* the task each worker has popped
  outcome,     \* whether that worker's scan returned Ok
  cpc,         \* where each coordinator is
  enqueued,    \* number of tasks each coordinator has pushed
  successful,  \* the Vec of scan results of each coordinator
  failures,    \* the keys of each coordinator's HashMap of failures
  held,        \* a result of another batch, popped and not yet pushed back
  expired      \* the deadline has passed

redis == <<tasks, results, status, heartbeats>>
workerVars == <<wpc, task, outcome>>
coordinatorVars == <<cpc, enqueued, successful, failures, held, expired>>
vars == <<redis, workerVars, coordinatorVars>>

RangeOf(s) == {s[i] : i \in 1 .. Len(s)}

-----------------------------------------------------------------------------
Init ==
  /\ tasks = <<>>
  /\ results = <<>>
  /\ status = [id \in TaskIds |-> "none"]
  /\ heartbeats = {}
  /\ wpc = [w \in Workers |-> "loop"]
  /\ task = [w \in Workers |-> NoTask]
  /\ outcome = [w \in Workers |-> FALSE]
  /\ cpc = [c \in Coordinators |-> "push"]
  /\ enqueued = [c \in Coordinators |-> 0]
  /\ successful = [c \in Coordinators |-> <<>>]
  /\ failures = [c \in Coordinators |-> {}]
  /\ held = [c \in Coordinators |-> NoResult]
  /\ expired = [c \in Coordinators |-> FALSE]

-----------------------------------------------------------------------------
(* The worker loop: run_worker_with_ports.                                 *)

MoveWorker(w, from, to) == wpc[w] = from /\ wpc' = [wpc EXCEPT ![w] = to]

\* Where a worker goes when an iteration of its loop is over.
LoopOrExit(w) == IF w \in RunOnce THEN "exit" ELSE "loop"

\* SETEX temu:workers:<id> 30.
HeartbeatWorker(w) ==
  /\ MoveWorker(w, "loop", "poll")
  /\ heartbeats' = heartbeats \cup {w}
  /\ UNCHANGED <<tasks, results, status, task, outcome, coordinatorVars>>

\* Faulty variant: the element is read but stays in the list.
PopTaskPeek(w) ==
  /\ MoveWorker(w, "poll", "claimed")
  /\ tasks # <<>>
  /\ task' = [task EXCEPT ![w] = Head(tasks)]
  /\ UNCHANGED <<tasks, results, status, heartbeats, outcome, coordinatorVars>>

\* BLPOP temu:tasks returns an element.
PopTask(w) ==
  /\ MoveWorker(w, "poll", "claimed")
  /\ tasks # <<>>
  /\ task' = [task EXCEPT ![w] = Head(tasks)]
  /\ tasks' = Tail(tasks)
  /\ UNCHANGED <<results, status, heartbeats, outcome, coordinatorVars>>

\* BLPOP temu:tasks returns nothing: the list was empty for 5 seconds.
PopTaskTimeout(w) ==
  /\ MoveWorker(w, "poll", LoopOrExit(w))
  /\ tasks = <<>>
  /\ UNCHANGED <<redis, task, outcome, coordinatorVars>>

MarkRunning(w) ==
  /\ MoveWorker(w, "claimed", "scanning")
  /\ status' = [status EXCEPT ![TaskId(task[w])] = "running"]
  /\ UNCHANGED <<tasks, results, heartbeats, task, outcome, coordinatorVars>>

\* Faulty variant: the final status is not written before the result is pushed.
MarkFinishedNoStatus(w) ==
  /\ MoveWorker(w, "scanning", "publish")
  /\ \E ok \in BOOLEAN : outcome' = [outcome EXCEPT ![w] = ok]
  /\ UNCHANGED <<redis, task, coordinatorVars>>

\* run_scan_with_ports returns Ok or Err; then SET temu:status:<id>.
MarkFinished(w) ==
  /\ MoveWorker(w, "scanning", "publish")
  /\ \E ok \in BOOLEAN :
       /\ outcome' = [outcome EXCEPT ![w] = ok]
       /\ status' = [status EXCEPT ![TaskId(task[w])] = IF ok THEN "done" ELSE "failed"]
  /\ UNCHANGED <<tasks, results, heartbeats, task, coordinatorVars>>

\* Faulty variant: the worker also puts the task back for another try.
PushResultAndRetry(w) ==
  /\ MoveWorker(w, "publish", LoopOrExit(w))
  /\ results' = Append(results, [task |-> task[w], done |-> outcome[w]])
  /\ tasks' = IF outcome[w] THEN tasks ELSE Append(tasks, task[w])
  /\ task' = [task EXCEPT ![w] = NoTask]
  /\ outcome' = [outcome EXCEPT ![w] = FALSE]
  /\ UNCHANGED <<status, heartbeats, coordinatorVars>>

PushResult(w) ==
  /\ MoveWorker(w, "publish", LoopOrExit(w))
  /\ results' = Append(results, [task |-> task[w], done |-> outcome[w]])
  /\ task' = [task EXCEPT ![w] = NoTask]
  /\ outcome' = [outcome EXCEPT ![w] = FALSE]
  /\ UNCHANGED <<tasks, status, heartbeats, coordinatorVars>>

\* The 30 second TTL runs out. A worker that waits in BLPOP renewed its key at
\* most 5 seconds ago; nothing renews it from the pop to the next iteration.
ExpireHeartbeat(w) ==
  /\ w \in heartbeats \cap CanStall
  /\ wpc[w] # "poll"
  /\ heartbeats' = heartbeats \ {w}
  /\ UNCHANGED <<tasks, results, status, workerVars, coordinatorVars>>

CrashWorker(w) ==
  /\ w \in CanCrash
  /\ wpc[w] \notin {"exit", "dead"}
  /\ wpc' = [wpc EXCEPT ![w] = "dead"]
  /\ UNCHANGED <<redis, task, outcome, coordinatorVars>>

-----------------------------------------------------------------------------
(* The coordinator: run_coordinator and enqueue_targets.                   *)

MoveCoordinator(c, from, to) == cpc[c] = from /\ cpc' = [cpc EXCEPT ![c] = to]

\* Faulty variant: the index of the task pushed last is used again.
NewTaskSameIndex(c) == [owner |-> c, index |-> enqueued[c]]

NewTask(c) == [owner |-> c, index |-> enqueued[c] + 1]

\* RPUSH temu:tasks, then (the next action) SET temu:status:<id> "queued".
PushTask(c) ==
  /\ MoveCoordinator(c, "push", "mark")
  /\ tasks' = Append(tasks, NewTask(c))
  /\ enqueued' = [enqueued EXCEPT ![c] = @ + 1]
  /\ UNCHANGED <<results, status, heartbeats, workerVars, successful, failures, held, expired>>

MarkQueued(c) ==
  /\ MoveCoordinator(c, "mark", IF enqueued[c] < Size[c] THEN "push" ELSE "collect")
  /\ status' = [status EXCEPT ![<<BatchOf[c], enqueued[c]>>] = "queued"]
  /\ UNCHANGED <<tasks, results, heartbeats, workerVars,
                 enqueued, successful, failures, held, expired>>

\* successful.len() + failures.len()
Counted(c) == Len(successful[c]) + Cardinality(failures[c])

\* Faulty variants: the loop ends one answer early; it has no deadline.
StopCollectingEarly(c) == Counted(c) + 1 >= Size[c] \/ expired[c]
StopCollectingNoDeadline(c) == Counted(c) >= Size[c]

\* The top of the collect loop: its condition, the dashboard, the deadline.
StopCollecting(c) == Counted(c) >= Size[c] \/ expired[c]

\* Faulty variant: a batch without one success is reported as a success.
FinishBatchAlwaysOk(c) ==
  /\ MoveCoordinator(c, "collect", "ok")
  /\ StopCollecting(c)
  /\ UNCHANGED <<redis, workerVars, enqueued, successful, failures, held, expired>>

\* After the loop: Err without one success, otherwise the aggregate of
\* what was collected, complete or not.
FinishBatch(c) ==
  /\ MoveCoordinator(c, "collect", IF successful[c] = <<>> THEN "err" ELSE "ok")
  /\ StopCollecting(c)
  /\ UNCHANGED <<redis, workerVars, enqueued, successful, failures, held, expired>>

\* Faulty variant: the batch id is not compared.
IsForeignNever(c, r) == FALSE

\* `result.batch_id != batch_id`
IsForeign(c, r) == BatchOf[r.task.owner] # BatchOf[c]

\* BLPOP temu:results returns a result of this batch.  (When it times out the
\* loop starts again: nothing changes.)
PopOwnResult(c) ==
  /\ cpc[c] = "collect"
  /\ ~StopCollecting(c)
  /\ results # <<>>
  /\ LET r == Head(results)
     IN  /\ ~IsForeign(c, r)
         /\ IF r.done
            THEN /\ successful' = [successful EXCEPT ![c] = Append(@, r.task)]
                 /\ UNCHANGED failures
            ELSE /\ failures' = [failures EXCEPT ![c] = @ \cup {TaskId(r.task)}]
                 /\ UNCHANGED successful
  /\ results' = Tail(results)
  /\ UNCHANGED <<tasks, status, heartbeats, workerVars, cpc, enqueued, held, expired>>

PopForeignResult(c) ==
  /\ MoveCoordinator(c, "collect", "pushback")
  /\ ~StopCollecting(c)
  /\ results # <<>>
  /\ IsForeign(c, Head(results))
  /\ held' = [held EXCEPT ![c] = Head(results)]
  /\ results' = Tail(results)
  /\ UNCHANGED <<tasks, status, heartbeats, workerVars,
                 enqueued, successful, failures, expired>>

\* Faulty variant: the foreign result is dropped.
PushBackNothing(c) ==
  /\ MoveCoordinator(c, "pushback", "sleep")
  /\ held' = [held EXCEPT ![c] = NoResult]
  /\ UNCHANGED <<redis, workerVars, enqueued, successful, failures, expired>>

\* Faulty variant: the foreign result goes back to the head (LPUSH).
PushBackToHead(c) ==
  /\ MoveCoordinator(c, "pushback", "sleep")
  /\ results' = <<held[c]>> \o results
  /\ held' = [held EXCEPT ![c] = NoResult]
  /\ UNCHANGED <<tasks, status, heartbeats, workerVars,
                 enqueued, successful, failures, expired>>

\* push_result of the foreign result.
PushBackResult(c) ==
  /\ MoveCoordinator(c, "pushback", "sleep")
  /\ results' = Append(results, held[c])
  /\ held' = [held EXCEPT ![c] = NoResult]
  /\ UNCHANGED <<tasks, status, heartbeats, workerVars,
                 enqueued, successful, failures, expired>>

\* After a sleep of 250 ms the loop starts again.
WakeUp(c) ==
  /\ MoveCoordinator(c, "sleep", "collect")
  /\ UNCHANGED <<redis, workerVars, enqueued, successful, failures, held, expired>>

\* The deadline is set when all tasks are queued.
PassDeadline(c) ==
  /\ c \in CanExpire
  /\ cpc[c] \in {"collect", "pushback", "sleep"}
  /\ ~expired[c]
  /\ expired' = [expired EXCEPT ![c] = TRUE]
  /\ UNCHANGED <<redis, workerVars, cpc, enqueued, successful, failures, held>>

CrashCoordinator(c) ==
  /\ c \in CanCrash
  /\ cpc[c] \notin {"ok", "err", "dead"}
  /\ cpc' = [cpc EXCEPT ![c] = "dead"]
  /\ UNCHANGED <<redis, workerVars, enqueued, successful, failures, held, expired>>

-----------------------------------------------------------------------------
WorkerStep(w) ==
  \/ HeartbeatWorker(w)
  \/ PopTask(w)
  \/ PopTaskTimeout(w)
  \/ MarkRunning(w)
  \/ MarkFinished(w)
  \/ PushResult(w)

CoordinatorStep(c) ==
  \/ PushTask(c)
  \/ MarkQueued(c)
  \/ FinishBatch(c)
  \/ PopOwnResult(c)
  \/ PopForeignResult(c)
  \/ PushBackResult(c)
  \/ WakeUp(c)

Next ==
  \/ \E w \in Workers : WorkerStep(w) \/ ExpireHeartbeat(w) \/ CrashWorker(w)
  \/ \E c \in Coordinators : CoordinatorStep(c) \/ PassDeadline(c) \/ CrashCoordinator(c)

Spec == Init /\ [][Next]_vars

(***************************************************************************)
(* Every process that has not crashed keeps running, and time passes.  A   *)
(* coordinator that time and again waits in BLPOP with one of its results  *)
(* at the head of temu:results gets one: Redis serves the client that has  *)
(* waited longest, and whoever pushed a foreign result back sleeps.        *)
(***************************************************************************)
Fairness ==
  /\ \A w \in Workers : WF_vars(WorkerStep(w))
  /\ \A c \in Coordinators :
       /\ WF_vars(CoordinatorStep(c))
       /\ SF_vars(PopOwnResult(c))
       /\ WF_vars(PassDeadline(c))

FairSpec == Spec /\ Fairness

-----------------------------------------------------------------------------
(* Where a task can be.                                                    *)

Pushed(t) == t.index <= enqueued[t.owner]
Queued(t) == \E i \in 1 .. Len(tasks) : tasks[i] = t
Claimed(t) == \E w \in Workers : task[w] = t
Reported(t) == \E i \in 1 .. Len(results) : results[i].task = t
Held(t) == \E c \in Coordinators : held[c] # NoResult /\ held[c].task = t
CountedBy(c, t) == t \in RangeOf(successful[c]) \/ TaskId(t) \in failures[c]
CountedAnywhere(t) == \E c \in Coordinators : CountedBy(c, t)

-----------------------------------------------------------------------------
(* Properties.                                                             *)

\* Type invariant of the Redis keys and of the local variables of the workers
\* and coordinators.
TypeOK ==
  /\ tasks \in Seq(Tasks)
  /\ results \in Seq(Results)
  /\ status \in [TaskIds -> {"none", "queued", "running", "done", "failed"}]
  /\ heartbeats \subseteq Workers
  /\ wpc \in [Workers -> {"loop", "poll", "claimed", "scanning", "publish",
                          "exit", "dead"}]
  /\ task \in [Workers -> Tasks \cup {NoTask}]
  /\ outcome \in [Workers -> BOOLEAN]
  /\ cpc \in [Coordinators -> {"push", "mark", "collect", "pushback", "sleep",
                               "ok", "err", "dead"}]
  /\ enqueued \in [Coordinators -> Nat]
  /\ \A c \in Coordinators : enqueued[c] <= Size[c]
  /\ successful \in [Coordinators -> Seq(Tasks)]
  /\ failures \in [Coordinators -> SUBSET TaskIds]
  /\ held \in [Coordinators -> Results \cup {NoResult}]
  /\ expired \in [Coordinators -> BOOLEAN]

\* No list and no process holds a task twice, and no two processes hold the
\* same one.
NoRepeats ==
  /\ \A i, j \in 1 .. Len(tasks) : tasks[i] = tasks[j] => i = j
  /\ \A i, j \in 1 .. Len(results) : results[i].task = results[j].task => i = j
  /\ \A w, x \in Workers : task[w] = task[x] /\ task[w] # NoTask => w = x
  /\ \A c, d \in Coordinators :
       /\ held[c] # NoResult /\ held[d] # NoResult /\ held[c].task = held[d].task
       => c = d
  /\ \A c \in Coordinators :
       /\ \A i, j \in 1 .. Len(successful[c]) : successful[c][i] = successful[c][j] => i = j
       /\ \A i \in 1 .. Len(successful[c]) : TaskId(successful[c][i]) \notin failures[c]

\* A task is in one kind of place at a time.
Exclusive ==
  \A t \in Tasks :
    /\ Queued(t) => ~Claimed(t) /\ ~Reported(t) /\ ~Held(t) /\ ~CountedAnywhere(t)
    /\ Claimed(t) => ~Reported(t) /\ ~Held(t) /\ ~CountedAnywhere(t)
    /\ Reported(t) => ~Held(t) /\ ~CountedAnywhere(t)
    /\ Held(t) => ~CountedAnywhere(t)

\* Workers, lists and coordinators race for the same task without ever scanning
\* or counting it twice: BLPOP hands each element to one client, and the code
\* pushes an element only while it holds it.
AtMostOnce == BatchIdsDistinct => NoRepeats /\ Exclusive

\* A pushed task is always somewhere: still queued, with the (possibly dead)
\* worker that popped it, among the results, with the (possibly dead)
\* coordinator that popped a foreign result, or counted.  So a result is lost
\* with a crashed process only; pushing a foreign result back loses nothing.
Conserved ==
  BatchIdsDistinct =>
    \A t \in Tasks :
      Pushed(t) <=> Queued(t) \/ Claimed(t) \/ Reported(t) \/ Held(t) \/ CountedAnywhere(t)

\* A coordinator counts only results of its own targets, although all batches
\* share one result list (the batch_id comparison of run_coordinator).
BatchIsolation ==
  BatchIdsDistinct =>
    \A c \in Coordinators, t \in Tasks : CountedBy(c, t) => t.owner = c

\* The loop condition only compares two lengths with the number of targets; a
\* coordinator that leaves the loop before its deadline has an answer for every
\* target all the same.
CompleteUnlessExpired ==
  BatchIdsDistinct =>
    \A c \in Coordinators :
      cpc[c] \in {"ok", "err"} /\ ~expired[c] =>
        \A t \in Tasks : t.owner = c => CountedBy(c, t)

\* Once a worker has marked a task done or failed, no worker sets its status
\* again: a finished task is never run a second time.
NoSecondRun ==
  [][BatchIdsDistinct =>
       \A id \in TaskIds : status[id] \in {"done", "failed"} =>
                              status'[id] \in {status[id], "queued"}]_status

\* Whoever sees a result of a task can rely on the worker having written the
\* final status before (set_task_status precedes push_result); only the
\* coordinator's own late "queued" may hide it.
ResultAfterStatus ==
  BatchIdsDistinct =>
    \A i \in 1 .. Len(results) :
      status[TaskId(results[i].task)] \in {"queued", IF results[i].done THEN "done" ELSE "failed"}

\* All targets of c are counted.
Complete(c) == cpc[c] \in {"ok", "err"} /\ \A t \in Tasks : t.owner = c => CountedBy(c, t)

\* A process died while it held a result or the task of c.
LostFor(c) ==
  \/ \E w \in Workers : wpc[w] = "dead" /\ task[w] # NoTask /\ task[w].owner = c
  \/ \E d \in Coordinators : cpc[d] = "dead" /\ held[d] # NoResult /\ held[d].task.owner = c

\* With a worker that keeps polling, a coordinator that is left alone counts every
\* target before its deadline: it passes over the results that dead coordinators
\* left in the list, and misses only what died with the process that held it.
LoneCoordinatorCounts ==
  \A c \in Coordinators :
    (<>(\A d \in Coordinators \ {c} : cpc[d] \in {"ok", "err", "dead"}))
      => <>(Complete(c) \/ cpc[c] = "dead" \/ expired[c] \/ LostFor(c))

\* Coordinators that share Redis all collect the results of their targets
\* (run_coordinator: "collected from workers"), without crashes and deadlines.
AllCoordinatorsCount == \A c \in Coordinators : <>Complete(c)

\* The collect timeout ends every coordinator that does not crash, whatever the
\* workers do.
CoordinatorsStop == \A c \in CanExpire : <>(cpc[c] \in {"ok", "err", "dead"})

-----------------------------------------------------------------------------
(* The promise to the user of the coordinators: see ScanBatch.             *)
Batch ==
  INSTANCE ScanBatch WITH
    answers <- [c \in Coordinators |->
                  {<<t, TRUE>> : t \in RangeOf(successful[c])} \cup
                  {<<t, FALSE>> : t \in {u \in Tasks : TaskId(u) \in failures[c]}}],
    verdict <- [c \in Coordinators |->
                  IF cpc[c] \in {"ok", "err", "dead"} THEN cpc[c] ELSE "open"],
    late <- expired

\* The coordinators implement ScanBatch when their batch ids differ (that is
\* the case in the run that checks this).
ImplementsScanBatch == Batch!Spec

=============================================================================
