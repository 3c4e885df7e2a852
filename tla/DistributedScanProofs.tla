------------------------ MODULE DistributedScanProofs ------------------------
(***************************************************************************)
(* Theorems about DistributedScan, for any number of workers, coordinators *)
(* and targets: a task is in one place and its batch's alone, what the     *)
(* status keys say of a task agrees with where its result is, and the      *)
(* coordinators implement ScanBatch, so that the comparison of two counts  *)
(* that ends the collect loop means that every target was answered.        *)
(***************************************************************************)
EXTENDS DistributedScan, FiniteSetTheorems, TLAPS

-----------------------------------------------------------------------------
(* Tasks and their ids.                                                    *)

\* What a task is made of, and that its id and its results are of their type.
LEMMA TaskFacts ==
  /\ \A t : t \in Tasks <=>
       /\ t = [owner |-> t.owner, index |-> t.index]
       /\ t.owner \in Coordinators
       /\ t.index \in 1 .. Size[t.owner]
  /\ \A c \in Coordinators : \A i : i \in 1 .. Size[c] => [owner |-> c, index |-> i] \in Tasks
  /\ \A t \in Tasks : TaskId(t) \in TaskIds
  /\ \A t \in Tasks, ok \in BOOLEAN : [task |-> t, done |-> ok] \in Results
PROOF
  <1>1. \A t : t \in Tasks <=> \E c \in Coordinators : t \in [owner : {c}, index : 1 .. Size[c]]
    BY DEF Tasks
  <1>2. \A c \in Coordinators : \A i : i \in 1 .. Size[c] => [owner |-> c, index |-> i] \in Tasks
    BY <1>1
  <1>3. \A t \in Tasks : TaskId(t) \in TaskIds
    BY DEF TaskIds
  <1>4. \A t \in Tasks, ok \in BOOLEAN : [task |-> t, done |-> ok] \in Results
    BY DEF Results
  <1>5. ASSUME NEW t
        PROVE  t \in Tasks <=> /\ t = [owner |-> t.owner, index |-> t.index]
                               /\ t.owner \in Coordinators
                               /\ t.index \in 1 .. Size[t.owner]
    <2>1. ASSUME t \in Tasks
          PROVE  /\ t = [owner |-> t.owner, index |-> t.index]
                 /\ t.owner \in Coordinators
                 /\ t.index \in 1 .. Size[t.owner]
      <3>1. PICK c \in Coordinators : t \in [owner : {c}, index : 1 .. Size[c]]
        BY <1>1, <2>1
      <3> QED
        BY <3>1
    <2>2. ASSUME t = [owner |-> t.owner, index |-> t.index],
                 t.owner \in Coordinators,
                 t.index \in 1 .. Size[t.owner]
          PROVE  t \in Tasks
      BY <1>2, <2>2
    <2> QED
      BY <2>1, <2>2
  <1> QED
    BY <1>2, <1>3, <1>4, <1>5

\* The head of a list that is not empty is one of its elements, and the rest is
\* a list of the same type.
LEMMA PopFacts ==
  ASSUME NEW S, NEW s \in Seq(S), s # <<>>
  PROVE  /\ Head(s) \in S /\ Head(s) = s[1]
         /\ Tail(s) \in Seq(S)
         /\ Len(s) \in Nat \ {0}
         /\ Len(Tail(s)) = Len(s) - 1
         /\ \A i \in 1 .. Len(Tail(s)) : Tail(s)[i] = s[i + 1]
  OBVIOUS

-----------------------------------------------------------------------------
(* Type correctness.                                                       *)

\* A worker that is past BLPOP holds a task, and a coordinator that is about to
\* push a result back holds one: the commands that follow use them.
Holding ==
  /\ \A w \in Workers : wpc[w] \in {"claimed", "scanning", "publish"} => task[w] \in Tasks
  /\ \A c \in Coordinators : cpc[c] = "pushback" => held[c] \in Results

\* A coordinator has pushed at least one task when it marks it, and has more to
\* push while it pushes.
Enqueueing ==
  \A c \in Coordinators :
    /\ cpc[c] = "push" => enqueued[c] < Size[c]
    /\ cpc[c] = "mark" => enqueued[c] > 0

TypeInv == TypeOK /\ Holding /\ Enqueueing

\* Initially the types are right.
LEMMA InitTypes == Init => TypeInv
PROOF
  <1> SUFFICES ASSUME Init PROVE TypeInv
    OBVIOUS
  <1>1. \A c \in Coordinators : Size[c] \in Nat \ {0}
    BY SizeAssumption
  <1>2. TypeOK
    BY <1>1 DEF Init, TypeOK
  <1>3. Holding /\ Enqueueing
    BY <1>1 DEF Init, Holding, Enqueueing
  <1> QED
    BY <1>2, <1>3 DEF TypeInv

\* A step of a worker keeps the types.
LEMMA WorkerTypeSteps ==
  ASSUME TypeInv, NEW w \in Workers, WorkerStep(w) \/ ExpireHeartbeat(w) \/ CrashWorker(w)
  PROVE  TypeInv'
PROOF
  <1> USE DEF TypeInv, TypeOK, Holding, Enqueueing, redis, workerVars, coordinatorVars
  <1>1. CASE HeartbeatWorker(w)
    BY <1>1 DEF HeartbeatWorker, MoveWorker
  <1>2. CASE PopTask(w)
    <2>1. Head(tasks) \in Tasks /\ Tail(tasks) \in Seq(Tasks)
      BY <1>2, PopFacts DEF PopTask
    <2> QED
      BY <1>2, <2>1 DEF PopTask, MoveWorker
  <1>3. CASE PopTaskTimeout(w)
    BY <1>3 DEF PopTaskTimeout, MoveWorker, LoopOrExit
  <1>4. CASE MarkRunning(w)
    <2>1. TaskId(task[w]) \in TaskIds
      BY <1>4, TaskFacts DEF MarkRunning, MoveWorker
    <2> QED
      BY <1>4, <2>1 DEF MarkRunning, MoveWorker
  <1>5. CASE MarkFinished(w)
    <2>1. TaskId(task[w]) \in TaskIds
      BY <1>5, TaskFacts DEF MarkFinished, MoveWorker
    <2> QED
      BY <1>5, <2>1 DEF MarkFinished, MoveWorker
  <1>6. CASE PushResult(w)
    <2>1. [task |-> task[w], done |-> outcome[w]] \in Results
      BY <1>6, TaskFacts DEF PushResult, MoveWorker
    <2> QED
      BY <1>6, <2>1 DEF PushResult, MoveWorker, LoopOrExit
  <1>7. CASE ExpireHeartbeat(w)
    BY <1>7 DEF ExpireHeartbeat
  <1>8. CASE CrashWorker(w)
    BY <1>8 DEF CrashWorker
  <1> QED
    BY <1>1, <1>2, <1>3, <1>4, <1>5, <1>6, <1>7, <1>8 DEF WorkerStep

\* A step of a coordinator keeps the types.
LEMMA CoordinatorTypeSteps ==
  ASSUME TypeInv, NEW c \in Coordinators,
         CoordinatorStep(c) \/ PassDeadline(c) \/ CrashCoordinator(c)
  PROVE  TypeInv'
PROOF
  <1> USE DEF TypeInv, TypeOK, Holding, Enqueueing, redis, workerVars, coordinatorVars
  <1>0. \A d \in Coordinators : Size[d] \in Nat \ {0}
    BY SizeAssumption
  <1>1. CASE PushTask(c)
    <2>1. enqueued[c] + 1 \in 1 .. Size[c]
      BY <1>0, <1>1 DEF PushTask, MoveCoordinator
    <2>2. NewTask(c) \in Tasks
      BY <2>1, TaskFacts DEF NewTask
    <2> QED
      BY <1>0, <1>1, <2>1, <2>2 DEF PushTask, MoveCoordinator
  <1>2. CASE MarkQueued(c)
    <2>1. enqueued[c] \in 1 .. Size[c]
      BY <1>0, <1>2 DEF MarkQueued, MoveCoordinator
    <2>2. [owner |-> c, index |-> enqueued[c]] \in Tasks
      BY <2>1, TaskFacts
    <2>3. <<BatchOf[c], enqueued[c]>> \in TaskIds
      BY <2>2, TaskFacts DEF TaskId
    <2> QED
      BY <1>0, <1>2, <2>1, <2>3 DEF MarkQueued, MoveCoordinator
  <1>3. CASE FinishBatch(c)
    BY <1>3 DEF FinishBatch, MoveCoordinator
  <1>4. CASE PopOwnResult(c)
    <2>1. Head(results) \in Results /\ Tail(results) \in Seq(Results)
      BY <1>4, PopFacts DEF PopOwnResult
    <2>2. Head(results).task \in Tasks /\ TaskId(Head(results).task) \in TaskIds
      BY <2>1, TaskFacts DEF Results
    <2>3. CASE Head(results).done
      <3>1. /\ successful' = [successful EXCEPT ![c] = Append(@, Head(results).task)]
            /\ failures' = failures
        BY <1>4, <2>3 DEF PopOwnResult
      <3>2. Append(successful[c], Head(results).task) \in Seq(Tasks)
        BY <2>2
      <3>3. successful' \in [Coordinators -> Seq(Tasks)]
        BY <3>1, <3>2
      <3> QED
        BY <1>4, <2>1, <3>1, <3>3 DEF PopOwnResult
    <2>4. CASE ~Head(results).done
      <3>1. /\ failures' = [failures EXCEPT ![c] = @ \cup {TaskId(Head(results).task)}]
            /\ successful' = successful
        BY <1>4, <2>4 DEF PopOwnResult
      <3>2. failures' \in [Coordinators -> SUBSET TaskIds]
        BY <2>2, <3>1
      <3> QED
        BY <1>4, <2>1, <3>1, <3>2 DEF PopOwnResult
    <2> QED
      BY <2>3, <2>4
  <1>5. CASE PopForeignResult(c)
    <2>1. Head(results) \in Results /\ Tail(results) \in Seq(Results)
      BY <1>5, PopFacts DEF PopForeignResult
    <2> QED
      BY <1>5, <2>1 DEF PopForeignResult, MoveCoordinator
  <1>6. CASE PushBackResult(c)
    BY <1>6 DEF PushBackResult, MoveCoordinator
  <1>7. CASE WakeUp(c)
    BY <1>7 DEF WakeUp, MoveCoordinator
  <1>8. CASE PassDeadline(c)
    BY <1>8 DEF PassDeadline
  <1>9. CASE CrashCoordinator(c)
    BY <1>9 DEF CrashCoordinator
  <1> QED
    BY <1>1, <1>2, <1>3, <1>4, <1>5, <1>6, <1>7, <1>8, <1>9 DEF CoordinatorStep

\* Every reachable state has the right types: no command is ever issued with a
\* task or a result that the process does not hold.
THEOREM TypeCorrect == Spec => []TypeInv
PROOF
  <1>1. Init => TypeInv
    BY InitTypes
  <1>2. TypeInv /\ [Next]_vars => TypeInv'
    <2> SUFFICES ASSUME TypeInv, [Next]_vars PROVE TypeInv'
      OBVIOUS
    <2>1. CASE Next
      BY <2>1, WorkerTypeSteps, CoordinatorTypeSteps DEF Next
    <2>2. CASE UNCHANGED vars
      BY <2>2 DEF TypeInv, TypeOK, Holding, Enqueueing,
                  vars, redis, workerVars, coordinatorVars
    <2> QED
      BY <2>1, <2>2
  <1> QED
    BY <1>1, <1>2, PTL DEF Spec

\* The type invariant of the run.
THEOREM TypeOKAlways == Spec => []TypeOK
PROOF
  <1>1. TypeInv => TypeOK
    BY DEF TypeInv
  <1> QED
    BY <1>1, TypeCorrect, PTL

-----------------------------------------------------------------------------
(* No task is scanned or counted twice, and none is lost from sight, when  *)
(* the batch ids differ.  A step moves at most one task from one kind of   *)
(* place to the next; the invariant says that every pushed task is in      *)
(* exactly one.                                                            *)

\* Who is between two tasks holds none.
Unladen ==
  /\ \A w \in Workers : wpc[w] \in {"loop", "poll", "exit"} => task[w] = NoTask
  /\ \A c \in Coordinators : cpc[c] \notin {"pushback", "dead"} => held[c] = NoResult

Isolated == \A c \in Coordinators, t \in Tasks : CountedBy(c, t) => t.owner = c

Located ==
  \A t \in Tasks :
    Pushed(t) <=> Queued(t) \/ Claimed(t) \/ Reported(t) \/ Held(t) \/ CountedAnywhere(t)

PlaceInv == Unladen /\ Isolated /\ NoRepeats /\ Exclusive /\ Located

placeVars == <<tasks, results, task, enqueued, successful, failures, held>>

\* With different batch ids, a task is known by its id.
LEMMA TaskIdInjective ==
  ASSUME BatchIdsDistinct
  PROVE  \A t, u \in Tasks : TaskId(t) = TaskId(u) => t = u
PROOF
  <1> SUFFICES ASSUME NEW t \in Tasks, NEW u \in Tasks, TaskId(t) = TaskId(u)
               PROVE  t = u
    OBVIOUS
  <1>1. t.owner \in Coordinators /\ u.owner \in Coordinators
    BY TaskFacts
  <1>2. BatchOf[t.owner] = BatchOf[u.owner] /\ t.index = u.index
    BY DEF TaskId
  <1>3. t.owner = u.owner
    BY <1>1, <1>2 DEF BatchIdsDistinct
  <1>4. /\ t = [owner |-> t.owner, index |-> t.index]
        /\ u = [owner |-> u.owner, index |-> u.index]
    BY TaskFacts
  <1> QED
    BY <1>2, <1>3, <1>4

\* The elements of a list after an element was appended.
LEMMA AppendFacts ==
  ASSUME NEW S, NEW s \in Seq(S), NEW e \in S
  PROVE  /\ Append(s, e) \in Seq(S)
         /\ Len(Append(s, e)) = Len(s) + 1 /\ Len(s) \in Nat
         /\ Append(s, e)[Len(s) + 1] = e
         /\ \A i \in 1 .. Len(s) : Append(s, e)[i] = s[i]
         /\ RangeOf(Append(s, e)) = RangeOf(s) \cup {e}
  BY DEF RangeOf

\* Initially nothing is pushed and nothing is anywhere.
LEMMA InitPlaces == Init => PlaceInv
PROOF
  <1> SUFFICES ASSUME Init PROVE PlaceInv
    OBVIOUS
  <1> USE DEF Init
  <1>1. \A t \in Tasks : /\ ~Queued(t) /\ ~Claimed(t) /\ ~Reported(t) /\ ~Held(t)
                         /\ ~CountedAnywhere(t)
    BY NullAssumption DEF Queued, Claimed, Reported, Held, CountedAnywhere, CountedBy, RangeOf
  <1>2. \A t \in Tasks : ~Pushed(t)
    BY TaskFacts, SizeAssumption DEF Pushed
  <1>3. Unladen
    BY DEF Unladen
  <1>4. Isolated
    BY DEF Isolated, CountedBy, RangeOf
  <1>5. NoRepeats
    BY DEF NoRepeats
  <1> QED
    BY <1>1, <1>2, <1>3, <1>4, <1>5 DEF PlaceInv, Exclusive, Located

\* A step that moves no task and changes no list keeps every task in its place.
LEMMA SamePlaces ==
  ASSUME PlaceInv, Unladen', UNCHANGED placeVars
  PROVE  PlaceInv'
PROOF
  <1>1. \A t \in Tasks : /\ Queued(t)' = Queued(t) /\ Claimed(t)' = Claimed(t)
                         /\ Reported(t)' = Reported(t) /\ Held(t)' = Held(t)
                         /\ CountedAnywhere(t)' = CountedAnywhere(t)
                         /\ Pushed(t)' = Pushed(t)
    BY DEF placeVars, Queued, Claimed, Reported, Held, CountedAnywhere, CountedBy, Pushed
  <1>2. Isolated' /\ NoRepeats'
    BY DEF PlaceInv, placeVars, Isolated, NoRepeats, CountedBy
  <1> QED
    BY <1>1, <1>2 DEF PlaceInv, Exclusive, Located

\* BLPOP temu:tasks: the head of the list becomes claimed.
LEMMA PopTaskPlaces ==
  ASSUME TypeInv, PlaceInv, NEW w \in Workers, PopTask(w)
  PROVE  PlaceInv'
PROOF
  <1> DEFINE t0 == Head(tasks)
  <1>1. /\ t0 \in Tasks /\ t0 = tasks[1] /\ tasks' = Tail(tasks)
        /\ Len(tasks) \in Nat \ {0} /\ Len(tasks') = Len(tasks) - 1
        /\ \A i \in 1 .. Len(tasks') : tasks'[i] = tasks[i + 1]
    BY PopFacts DEF PopTask, TypeInv, TypeOK
  <1>2. /\ task \in [Workers -> Tasks \cup {NoTask}] /\ task[w] = NoTask
        /\ task' = [task EXCEPT ![w] = t0]
    BY DEF PopTask, MoveWorker, TypeInv, TypeOK, PlaceInv, Unladen
  <1>3. \A i, j \in 1 .. Len(tasks) : tasks[i] = tasks[j] => i = j
    BY DEF PlaceInv, NoRepeats
  <1>4. \A t \in Tasks : Queued(t)' <=> Queued(t) /\ t # t0
    BY <1>1, <1>3 DEF Queued
  <1>5. \A t \in Tasks : Claimed(t)' <=> Claimed(t) \/ t = t0
    BY <1>1, <1>2, NullAssumption DEF Claimed
  <1>6. \A t \in Tasks : /\ Reported(t)' = Reported(t) /\ Held(t)' = Held(t)
                         /\ CountedAnywhere(t)' = CountedAnywhere(t)
                         /\ Pushed(t)' = Pushed(t)
    BY DEF PopTask, coordinatorVars, Reported, Held, CountedAnywhere, CountedBy, Pushed
  <1>7. Queued(t0) /\ ~Claimed(t0) /\ ~Reported(t0) /\ ~Held(t0) /\ ~CountedAnywhere(t0)
    BY <1>1 DEF PlaceInv, Exclusive, Queued
  <1>8. Exclusive' /\ Located'
    BY <1>1, <1>4, <1>5, <1>6, <1>7 DEF PlaceInv, Exclusive, Located
  <1>9. NoRepeats'
    <2>1. \A i, j \in 1 .. Len(tasks') : tasks'[i] = tasks'[j] => i = j
      BY <1>1, <1>3
    <2>2. \A x, y \in Workers : task'[x] = task'[y] /\ task'[x] # NoTask => x = y
      BY <1>2, <1>7 DEF PlaceInv, NoRepeats, Claimed
    <2> QED
      BY <2>1, <2>2 DEF PopTask, coordinatorVars, PlaceInv, NoRepeats
  <1>10. Unladen' /\ Isolated'
    BY <1>2 DEF PopTask, MoveWorker, coordinatorVars, PlaceInv, Unladen, Isolated, CountedBy,
                TypeInv, TypeOK
  <1> QED
    BY <1>8, <1>9, <1>10 DEF PlaceInv

\* RPUSH temu:results by a worker: the claimed task becomes reported.
LEMMA PushResultPlaces ==
  ASSUME TypeInv, PlaceInv, NEW w \in Workers, PushResult(w)
  PROVE  PlaceInv'
PROOF
  <1> DEFINE t0 == task[w]
             r0 == [task |-> t0, done |-> outcome[w]]
  <1>1. /\ t0 \in Tasks /\ r0 \in Results /\ r0.task = t0
        /\ results \in Seq(Results) /\ results' = Append(results, r0)
    BY TaskFacts DEF PushResult, MoveWorker, TypeInv, TypeOK, Holding
  <1>2. /\ task \in [Workers -> Tasks \cup {NoTask}]
        /\ task' = [task EXCEPT ![w] = NoTask]
    BY DEF PushResult, TypeInv, TypeOK
  <1>3. /\ Len(results) \in Nat /\ Len(results') = Len(results) + 1
        /\ results'[Len(results) + 1] = r0
        /\ \A i \in 1 .. Len(results) : results'[i] = results[i]
    BY <1>1, AppendFacts
  <1>4. \A x, y \in Workers : task[x] = task[y] /\ task[x] # NoTask => x = y
    BY DEF PlaceInv, NoRepeats
  <1>5. \A t \in Tasks : Claimed(t)' <=> Claimed(t) /\ t # t0
    BY <1>1, <1>2, <1>4, NullAssumption DEF Claimed
  <1>6. \A t \in Tasks : Reported(t)' <=> Reported(t) \/ t = t0
    BY <1>1, <1>3 DEF Reported
  <1>7. \A t \in Tasks : /\ Queued(t)' = Queued(t) /\ Held(t)' = Held(t)
                         /\ CountedAnywhere(t)' = CountedAnywhere(t)
                         /\ Pushed(t)' = Pushed(t)
    BY DEF PushResult, coordinatorVars, Queued, Held, CountedAnywhere, CountedBy, Pushed
  <1>8. /\ Claimed(t0) /\ ~Queued(t0) /\ ~Reported(t0) /\ ~Held(t0)
        /\ ~CountedAnywhere(t0)
    BY <1>1 DEF PlaceInv, Exclusive, Claimed
  <1>9. Exclusive' /\ Located'
    BY <1>1, <1>5, <1>6, <1>7, <1>8 DEF PlaceInv, Exclusive, Located
  <1>10. NoRepeats'
    <2>1. \A i \in 1 .. Len(results) : results[i].task # t0
      BY <1>8 DEF Reported
    <2>2. \A i, j \in 1 .. Len(results') : results'[i].task = results'[j].task => i = j
      BY <1>1, <1>3, <2>1 DEF PlaceInv, NoRepeats
    <2>3. \A x, y \in Workers : task'[x] = task'[y] /\ task'[x] # NoTask => x = y
      BY <1>2, <1>4
    <2> QED
      BY <2>2, <2>3 DEF PushResult, coordinatorVars, PlaceInv, NoRepeats
  <1>11. Unladen' /\ Isolated'
    BY <1>2 DEF PushResult, MoveWorker, coordinatorVars, PlaceInv, Unladen, Isolated,
                CountedBy, TypeInv, TypeOK
  <1> QED
    BY <1>9, <1>10, <1>11 DEF PlaceInv

\* RPUSH temu:tasks: a task that was nowhere is pushed and queued.
LEMMA PushTaskPlaces ==
  ASSUME TypeInv, PlaceInv, NEW c \in Coordinators, PushTask(c)
  PROVE  PlaceInv'
PROOF
  <1> DEFINE t0 == NewTask(c)
  <1>1. /\ enqueued \in [Coordinators -> Nat]
        /\ enqueued' = [enqueued EXCEPT ![c] = @ + 1]
        /\ enqueued[c] < Size[c] /\ Size[c] \in Nat
    BY SizeAssumption DEF PushTask, MoveCoordinator, TypeInv, TypeOK, Enqueueing
  <1>2. t0 \in Tasks /\ t0.owner = c /\ t0.index = enqueued[c] + 1
    BY <1>1, TaskFacts DEF NewTask
  <1>3. /\ tasks \in Seq(Tasks) /\ tasks' = Append(tasks, t0)
        /\ Len(tasks) \in Nat /\ Len(tasks') = Len(tasks) + 1
        /\ tasks'[Len(tasks) + 1] = t0
        /\ \A i \in 1 .. Len(tasks) : tasks'[i] = tasks[i]
    BY <1>2, AppendFacts DEF PushTask, TypeInv, TypeOK
  <1>4. \A t \in Tasks : Queued(t)' <=> Queued(t) \/ t = t0
    BY <1>2, <1>3 DEF Queued
  <1>5. \A t \in Tasks : Pushed(t)' <=> Pushed(t) \/ t = t0
    <2> SUFFICES ASSUME NEW t \in Tasks PROVE Pushed(t)' <=> Pushed(t) \/ t = t0
      OBVIOUS
    <2>1. /\ t = [owner |-> t.owner, index |-> t.index]
          /\ t.owner \in Coordinators /\ Size[t.owner] \in Nat
          /\ t.index \in 1 .. Size[t.owner]
      BY TaskFacts, SizeAssumption
    <2>2. CASE t.owner # c
      BY <1>1, <1>2, <2>1, <2>2 DEF Pushed
    <2>3. CASE t.owner = c
      <3>1. t = t0 <=> t.index = enqueued[c] + 1
        BY <2>1, <2>3 DEF NewTask
      <3> QED
        BY <1>1, <2>1, <2>3, <3>1 DEF Pushed
    <2> QED
      BY <2>2, <2>3
  <1>6. \A t \in Tasks : /\ Claimed(t)' = Claimed(t) /\ Reported(t)' = Reported(t)
                         /\ Held(t)' = Held(t)
                         /\ CountedAnywhere(t)' = CountedAnywhere(t)
    BY DEF PushTask, workerVars, Claimed, Reported, Held, CountedAnywhere, CountedBy
  <1>7. ~Pushed(t0)
    BY <1>1, <1>2 DEF Pushed
  <1>8. /\ ~Queued(t0) /\ ~Claimed(t0) /\ ~Reported(t0) /\ ~Held(t0)
        /\ ~CountedAnywhere(t0)
    BY <1>2, <1>7 DEF PlaceInv, Located
  <1>9. Exclusive' /\ Located'
    BY <1>2, <1>4, <1>5, <1>6, <1>8 DEF PlaceInv, Exclusive, Located
  <1>10. NoRepeats'
    <2>1. \A i \in 1 .. Len(tasks) : tasks[i] # t0
      BY <1>8 DEF Queued
    <2>2. \A i, j \in 1 .. Len(tasks') : tasks'[i] = tasks'[j] => i = j
      BY <1>3, <2>1 DEF PlaceInv, NoRepeats
    <2> QED
      BY <2>2 DEF PushTask, workerVars, PlaceInv, NoRepeats
  <1>11. Unladen' /\ Isolated'
    BY DEF PushTask, MoveCoordinator, workerVars, PlaceInv, Unladen, Isolated, CountedBy,
           TypeInv, TypeOK
  <1> QED
    BY <1>9, <1>10, <1>11 DEF PlaceInv

\* BLPOP temu:results, whoever does it: the task of the head is no longer reported.
LEMMA PopResultFacts ==
  ASSUME TypeInv, PlaceInv, results # <<>>, results' = Tail(results)
  PROVE  /\ Head(results) \in Results /\ Head(results).task \in Tasks
         /\ \A t \in Tasks : Reported(t)' <=> Reported(t) /\ t # Head(results).task
         /\ \A i, j \in 1 .. Len(results') : results'[i].task = results'[j].task => i = j
         /\ LET t0 == Head(results).task
            IN  /\ Reported(t0) /\ ~Queued(t0) /\ ~Claimed(t0) /\ ~Held(t0)
                /\ ~CountedAnywhere(t0)
PROOF
  <1> DEFINE t0 == Head(results).task
  <1>1. /\ Head(results) \in Results /\ Head(results) = results[1]
        /\ Len(results) \in Nat \ {0} /\ Len(results') = Len(results) - 1
        /\ \A i \in 1 .. Len(results') : results'[i] = results[i + 1]
    BY PopFacts DEF TypeInv, TypeOK
  <1>2. t0 \in Tasks
    BY <1>1 DEF Results
  <1>3. \A i, j \in 1 .. Len(results) : results[i].task = results[j].task => i = j
    BY DEF PlaceInv, NoRepeats
  <1>4. \A i, j \in 1 .. Len(results') : results'[i].task = results'[j].task => i = j
    BY <1>1, <1>3
  <1>5. \A t \in Tasks : Reported(t)' <=> Reported(t) /\ t # t0
    BY <1>1, <1>3 DEF Reported
  <1>6. Reported(t0)
    BY <1>1 DEF Reported
  <1>7. ~Queued(t0) /\ ~Claimed(t0) /\ ~Held(t0) /\ ~CountedAnywhere(t0)
    BY <1>2, <1>6 DEF PlaceInv, Exclusive
  <1> QED
    BY <1>1, <1>2, <1>4, <1>5, <1>6, <1>7

\* BLPOP temu:results by the coordinator of the batch: the task becomes counted,
\* and the coordinator is its owner.
LEMMA PopOwnResultPlaces ==
  ASSUME BatchIdsDistinct, TypeInv, PlaceInv, NEW c \in Coordinators, PopOwnResult(c)
  PROVE  PlaceInv'
PROOF
  <1> DEFINE r0 == Head(results)
             t0 == r0.task
  <1>1. results # <<>> /\ results' = Tail(results)
    BY DEF PopOwnResult
  <1>2. /\ r0 \in Results /\ t0 \in Tasks
        /\ \A t \in Tasks : Reported(t)' <=> Reported(t) /\ t # t0
        /\ \A i, j \in 1 .. Len(results') : results'[i].task = results'[j].task => i = j
        /\ Reported(t0) /\ ~Queued(t0) /\ ~Claimed(t0) /\ ~Held(t0) /\ ~CountedAnywhere(t0)
    BY <1>1, PopResultFacts
  <1>3. t0.owner = c
    BY <1>2, TaskFacts DEF PopOwnResult, IsForeign, BatchIdsDistinct
  <1>4. /\ successful \in [Coordinators -> Seq(Tasks)]
        /\ failures \in [Coordinators -> SUBSET TaskIds]
        /\ TaskId(t0) \in TaskIds
    BY <1>2, TaskFacts DEF TypeInv, TypeOK
  <1>5. \A d \in Coordinators, t \in Tasks :
          CountedBy(d, t)' <=> CountedBy(d, t) \/ (d = c /\ t = t0)
    <2>1. CASE r0.done
      <3>1. /\ successful' = [successful EXCEPT ![c] = Append(@, t0)]
            /\ failures' = failures
        BY <2>1 DEF PopOwnResult
      <3>2. RangeOf(Append(successful[c], t0)) = RangeOf(successful[c]) \cup {t0}
        BY <1>2, <1>4, AppendFacts
      <3>3. \A d \in Coordinators :
              RangeOf(successful[d])' = RangeOf(successful[d]) \cup (IF d = c THEN {t0} ELSE {})
        BY <1>4, <3>1, <3>2 DEF RangeOf
      <3> QED
        BY <3>1, <3>3 DEF CountedBy
    <2>2. CASE ~r0.done
      <3>1. /\ failures' = [failures EXCEPT ![c] = @ \cup {TaskId(t0)}]
            /\ successful' = successful
        BY <2>2 DEF PopOwnResult
      <3>2. \A d \in Coordinators :
              failures'[d] = failures[d] \cup (IF d = c THEN {TaskId(t0)} ELSE {})
        BY <1>4, <3>1
      <3>3. \A t \in Tasks : TaskId(t) = TaskId(t0) <=> t = t0
        BY <1>2, TaskIdInjective
      <3> QED
        BY <3>1, <3>2, <3>3 DEF CountedBy
    <2> QED
      BY <2>1, <2>2
  <1>6. \A t \in Tasks : CountedAnywhere(t)' <=> CountedAnywhere(t) \/ t = t0
    BY <1>5 DEF CountedAnywhere
  <1>7. \A t \in Tasks : /\ Queued(t)' = Queued(t) /\ Claimed(t)' = Claimed(t)
                         /\ Held(t)' = Held(t) /\ Pushed(t)' = Pushed(t)
    BY DEF PopOwnResult, workerVars, Queued, Claimed, Held, Pushed
  <1>8. Exclusive' /\ Located'
    BY <1>2, <1>6, <1>7 DEF PlaceInv, Exclusive, Located
  <1>9. NoRepeats'
    <2>1. ~CountedBy(c, t0)
      BY <1>2 DEF CountedAnywhere
    <2>2. ASSUME NEW d \in Coordinators
          PROVE  /\ \A i, j \in 1 .. Len(successful'[d]) :
                      successful'[d][i] = successful'[d][j] => i = j
                 /\ \A i \in 1 .. Len(successful'[d]) :
                      TaskId(successful'[d][i]) \notin failures'[d]
      <3>0. /\ \A i, j \in 1 .. Len(successful[d]) : successful[d][i] = successful[d][j] => i = j
            /\ \A i \in 1 .. Len(successful[d]) : TaskId(successful[d][i]) \notin failures[d]
        BY DEF PlaceInv, NoRepeats
      <3>1. CASE d # c
        <4>1. successful'[d] = successful[d] /\ failures'[d] = failures[d]
          BY <1>4, <3>1 DEF PopOwnResult
        <4> QED
          BY <3>0, <4>1
      <3>2. CASE d = c /\ r0.done
        <4>1. /\ successful'[d] = Append(successful[d], t0)
              /\ failures'[d] = failures[d]
          BY <1>4, <3>2 DEF PopOwnResult
        <4>2. /\ \A i \in 1 .. Len(successful[d]) : successful[d][i] # t0
              /\ TaskId(t0) \notin failures[d]
          BY <2>1, <3>2 DEF CountedBy, RangeOf
        <4>3. /\ Len(successful'[d]) = Len(successful[d]) + 1 /\ Len(successful[d]) \in Nat
              /\ successful'[d][Len(successful[d]) + 1] = t0
              /\ \A i \in 1 .. Len(successful[d]) : successful'[d][i] = successful[d][i]
          BY <1>2, <1>4, <4>1, AppendFacts
        <4> QED
          BY <3>0, <4>1, <4>2, <4>3
      <3>3. CASE d = c /\ ~r0.done
        <4>1. /\ successful'[d] = successful[d]
              /\ failures'[d] = failures[d] \cup {TaskId(t0)}
          BY <1>4, <3>3 DEF PopOwnResult
        <4>2. \A i \in 1 .. Len(successful[d]) : successful[d][i] \in Tasks /\ successful[d][i] # t0
          BY <1>4, <2>1, <3>3 DEF CountedBy, RangeOf
        <4>3. \A i \in 1 .. Len(successful[d]) : TaskId(successful[d][i]) # TaskId(t0)
          BY <1>2, <4>2, TaskIdInjective
        <4> QED
          BY <3>0, <4>1, <4>3
      <3> QED
        BY <3>1, <3>2, <3>3
    <2> QED
      BY <1>2, <2>2 DEF PopOwnResult, workerVars, PlaceInv, NoRepeats
  <1>10. Isolated'
    BY <1>3, <1>5 DEF PlaceInv, Isolated
  <1>11. Unladen'
    BY DEF PopOwnResult, workerVars, PlaceInv, Unladen
  <1> QED
    BY <1>8, <1>9, <1>10, <1>11 DEF PlaceInv

\* BLPOP temu:results by the coordinator of another batch: the task is held.
LEMMA PopForeignResultPlaces ==
  ASSUME TypeInv, PlaceInv, NEW c \in Coordinators, PopForeignResult(c)
  PROVE  PlaceInv'
PROOF
  <1> DEFINE r0 == Head(results)
             t0 == r0.task
  <1>1. results # <<>> /\ results' = Tail(results)
    BY DEF PopForeignResult
  <1>2. /\ r0 \in Results /\ t0 \in Tasks
        /\ \A t \in Tasks : Reported(t)' <=> Reported(t) /\ t # t0
        /\ \A i, j \in 1 .. Len(results') : results'[i].task = results'[j].task => i = j
        /\ Reported(t0) /\ ~Queued(t0) /\ ~Claimed(t0) /\ ~Held(t0) /\ ~CountedAnywhere(t0)
    BY <1>1, PopResultFacts
  <1>3. /\ held \in [Coordinators -> Results \cup {NoResult}] /\ held[c] = NoResult
        /\ held' = [held EXCEPT ![c] = r0] /\ r0 # NoResult
    BY <1>2, NullAssumption
       DEF PopForeignResult, MoveCoordinator, TypeInv, TypeOK, PlaceInv, Unladen
  <1>4. \A t \in Tasks : Held(t)' <=> Held(t) \/ t = t0
    BY <1>2, <1>3 DEF Held
  <1>5. \A t \in Tasks : /\ Queued(t)' = Queued(t) /\ Claimed(t)' = Claimed(t)
                         /\ CountedAnywhere(t)' = CountedAnywhere(t)
                         /\ Pushed(t)' = Pushed(t)
    BY DEF PopForeignResult, workerVars, Queued, Claimed, CountedAnywhere, CountedBy, Pushed
  <1>6. Exclusive' /\ Located'
    BY <1>2, <1>4, <1>5 DEF PlaceInv, Exclusive, Located
  <1>7. NoRepeats'
    <2>1. \A d, e \in Coordinators :
            held'[d] # NoResult /\ held'[e] # NoResult /\ held'[d].task = held'[e].task => d = e
      BY <1>2, <1>3 DEF PlaceInv, NoRepeats, Held
    <2> QED
      BY <1>2, <2>1 DEF PopForeignResult, workerVars, PlaceInv, NoRepeats
  <1>8. Unladen' /\ Isolated'
    BY <1>3 DEF PopForeignResult, MoveCoordinator, workerVars, PlaceInv, Unladen, Isolated,
                CountedBy, TypeInv, TypeOK
  <1> QED
    BY <1>6, <1>7, <1>8 DEF PlaceInv

\* RPUSH temu:results by a coordinator: the task it holds is reported again.
LEMMA PushBackResultPlaces ==
  ASSUME TypeInv, PlaceInv, NEW c \in Coordinators, PushBackResult(c)
  PROVE  PlaceInv'
PROOF
  <1> DEFINE r0 == held[c]
             t0 == r0.task
  <1>1. /\ r0 \in Results /\ t0 \in Tasks /\ r0 # NoResult
        /\ results \in Seq(Results) /\ results' = Append(results, r0)
    BY NullAssumption
       DEF PushBackResult, MoveCoordinator, TypeInv, TypeOK, Holding, Results
  <1>2. /\ held \in [Coordinators -> Results \cup {NoResult}]
        /\ held' = [held EXCEPT ![c] = NoResult]
    BY DEF PushBackResult, TypeInv, TypeOK
  <1>3. /\ Len(results) \in Nat /\ Len(results') = Len(results) + 1
        /\ results'[Len(results) + 1] = r0
        /\ \A i \in 1 .. Len(results) : results'[i] = results[i]
    BY <1>1, AppendFacts
  <1>4. \A d, e \in Coordinators :
          held[d] # NoResult /\ held[e] # NoResult /\ held[d].task = held[e].task => d = e
    BY DEF PlaceInv, NoRepeats
  <1>5. \A t \in Tasks : Held(t)' <=> Held(t) /\ t # t0
    BY <1>1, <1>2, <1>4 DEF Held
  <1>6. \A t \in Tasks : Reported(t)' <=> Reported(t) \/ t = t0
    BY <1>1, <1>3 DEF Reported
  <1>7. \A t \in Tasks : /\ Queued(t)' = Queued(t) /\ Claimed(t)' = Claimed(t)
                         /\ CountedAnywhere(t)' = CountedAnywhere(t)
                         /\ Pushed(t)' = Pushed(t)
    BY DEF PushBackResult, workerVars, Queued, Claimed, CountedAnywhere, CountedBy, Pushed
  <1>8. Held(t0) /\ ~Queued(t0) /\ ~Claimed(t0) /\ ~Reported(t0) /\ ~CountedAnywhere(t0)
    BY <1>1 DEF PlaceInv, Exclusive, Held
  <1>9. Exclusive' /\ Located'
    BY <1>1, <1>5, <1>6, <1>7, <1>8 DEF PlaceInv, Exclusive, Located
  <1>10. NoRepeats'
    <2>1. \A i \in 1 .. Len(results) : results[i].task # t0
      BY <1>8 DEF Reported
    <2>2. \A i, j \in 1 .. Len(results') : results'[i].task = results'[j].task => i = j
      BY <1>1, <1>3, <2>1 DEF PlaceInv, NoRepeats
    <2>3. \A d, e \in Coordinators :
            held'[d] # NoResult /\ held'[e] # NoResult /\ held'[d].task = held'[e].task => d = e
      BY <1>2, <1>4
    <2> QED
      BY <2>2, <2>3 DEF PushBackResult, workerVars, PlaceInv, NoRepeats
  <1>11. Unladen' /\ Isolated'
    BY <1>2 DEF PushBackResult, MoveCoordinator, workerVars, PlaceInv, Unladen, Isolated,
                CountedBy, TypeInv, TypeOK
  <1> QED
    BY <1>9, <1>10, <1>11 DEF PlaceInv

\* Every other step moves no task.
LEMMA OtherPlaces ==
  ASSUME TypeInv, PlaceInv,
         \/ \E w \in Workers :
              \/ HeartbeatWorker(w) \/ PopTaskTimeout(w) \/ MarkRunning(w) \/ MarkFinished(w)
              \/ ExpireHeartbeat(w) \/ CrashWorker(w)
         \/ \E c \in Coordinators :
              \/ MarkQueued(c) \/ FinishBatch(c) \/ WakeUp(c)
              \/ PassDeadline(c) \/ CrashCoordinator(c)
         \/ UNCHANGED vars
  PROVE  PlaceInv'
PROOF
  <1> USE DEF TypeInv, TypeOK, PlaceInv, Unladen, placeVars, redis, workerVars, coordinatorVars
  <1>1. ASSUME NEW w \in Workers,
               \/ HeartbeatWorker(w) \/ PopTaskTimeout(w) \/ MarkRunning(w) \/ MarkFinished(w)
               \/ ExpireHeartbeat(w) \/ CrashWorker(w)
        PROVE  Unladen' /\ UNCHANGED placeVars
    <2>1. CASE HeartbeatWorker(w)
      BY <2>1 DEF HeartbeatWorker, MoveWorker
    <2>2. CASE PopTaskTimeout(w)
      BY <2>2 DEF PopTaskTimeout, MoveWorker, LoopOrExit
    <2>3. CASE MarkRunning(w)
      BY <2>3 DEF MarkRunning, MoveWorker
    <2>4. CASE MarkFinished(w)
      BY <2>4 DEF MarkFinished, MoveWorker
    <2>5. CASE ExpireHeartbeat(w)
      BY <2>5 DEF ExpireHeartbeat
    <2>6. CASE CrashWorker(w)
      BY <2>6 DEF CrashWorker
    <2> QED
      BY <1>1, <2>1, <2>2, <2>3, <2>4, <2>5, <2>6
  <1>2. ASSUME NEW c \in Coordinators,
               \/ MarkQueued(c) \/ FinishBatch(c) \/ WakeUp(c)
               \/ PassDeadline(c) \/ CrashCoordinator(c)
        PROVE  Unladen' /\ UNCHANGED placeVars
    <2>1. CASE MarkQueued(c)
      BY <2>1 DEF MarkQueued, MoveCoordinator
    <2>2. CASE FinishBatch(c)
      BY <2>2 DEF FinishBatch, MoveCoordinator
    <2>3. CASE WakeUp(c)
      BY <2>3 DEF WakeUp, MoveCoordinator
    <2>4. CASE PassDeadline(c)
      BY <2>4 DEF PassDeadline
    <2>5. CASE CrashCoordinator(c)
      BY <2>5 DEF CrashCoordinator
    <2> QED
      BY <1>2, <2>1, <2>2, <2>3, <2>4, <2>5
  <1>3. CASE UNCHANGED vars
    BY <1>3, SamePlaces DEF vars
  <1> QED
    BY <1>1, <1>2, <1>3, SamePlaces

\* The places are right in every reachable state.
LEMMA PlacesCorrect == ASSUME BatchIdsDistinct PROVE Spec => []PlaceInv
PROOF
  <1>1. Init => PlaceInv
    BY InitPlaces
  <1>2. TypeInv /\ PlaceInv /\ [Next]_vars => PlaceInv'
    <2> SUFFICES ASSUME TypeInv, PlaceInv, [Next]_vars PROVE PlaceInv'
      OBVIOUS
    <2>1. ASSUME NEW w \in Workers, WorkerStep(w) \/ ExpireHeartbeat(w) \/ CrashWorker(w)
          PROVE  PlaceInv'
      BY <2>1, PopTaskPlaces, PushResultPlaces, OtherPlaces DEF WorkerStep
    <2>2. ASSUME NEW c \in Coordinators,
                 CoordinatorStep(c) \/ PassDeadline(c) \/ CrashCoordinator(c)
          PROVE  PlaceInv'
      BY <2>2, PushTaskPlaces, PopOwnResultPlaces, PopForeignResultPlaces,
         PushBackResultPlaces, OtherPlaces DEF CoordinatorStep
    <2>3. CASE UNCHANGED vars
      BY <2>3, OtherPlaces
    <2> QED
      BY <2>1, <2>2, <2>3 DEF Next
  <1> QED
    BY <1>1, <1>2, TypeCorrect, PTL DEF Spec

\* The invariants of the runs that follow from the places.
Delivery == AtMostOnce /\ Conserved /\ BatchIsolation

LEMMA DeliveryCorrect == Spec => []Delivery
PROOF
  <1>1. CASE BatchIdsDistinct
    <2>1. PlaceInv => Delivery
      BY DEF PlaceInv, Delivery, AtMostOnce, Conserved, BatchIsolation, Located, Isolated
    <2> QED
      BY <1>1, <2>1, PlacesCorrect, PTL
  <1>2. CASE ~BatchIdsDistinct
    <2>1. Delivery
      BY <1>2 DEF Delivery, AtMostOnce, Conserved, BatchIsolation
    <2> QED
      BY <2>1, PTL
  <1> QED
    BY <1>1, <1>2

\* No task is scanned or counted twice, however workers and coordinators race for
\* the two Redis lists.
THEOREM AtMostOnceAlways == Spec => []AtMostOnce
PROOF
  <1>1. Delivery => AtMostOnce
    BY DEF Delivery
  <1> QED
    BY <1>1, DeliveryCorrect, PTL

\* A pushed task or its result is always in a list, with a process, or counted.
THEOREM ConservedAlways == Spec => []Conserved
PROOF
  <1>1. Delivery => Conserved
    BY DEF Delivery
  <1> QED
    BY <1>1, DeliveryCorrect, PTL

\* A coordinator counts results of its own targets only.
THEOREM BatchIsolationAlways == Spec => []BatchIsolation
PROOF
  <1>1. Delivery => BatchIsolation
    BY DEF Delivery
  <1> QED
    BY <1>1, DeliveryCorrect, PTL

-----------------------------------------------------------------------------
(* The status keys.                                                        *)

Final(ok) == IF ok THEN "done" ELSE "failed"

\* The status of a task follows it from place to place; only the coordinator's
\* own "queued" may be written at any time.
StatusInv ==
  /\ \A t \in Tasks :
       ~Pushed(t) \/ Queued(t) => status[TaskId(t)] \in {"none", "queued"}
  /\ \A w \in Workers :
       /\ wpc[w] \in {"claimed", "scanning"} =>
            status[TaskId(task[w])] \in {"none", "queued", "running"}
       /\ wpc[w] = "publish" => status[TaskId(task[w])] \in {"queued", Final(outcome[w])}
  /\ \A i \in 1 .. Len(results) :
       status[TaskId(results[i].task)] \in {"queued", Final(results[i].done)}
  /\ \A c \in Coordinators :
       held[c] # NoResult =>
         status[TaskId(held[c].task)] \in {"queued", Final(held[c].done)}

\* What a command does to the status of the task with one id.
SetStatus(id, s) == status' = [status EXCEPT ![id] = s]

\* What StatusInv says of the head of a list.
LEMMA HeadStatus ==
  ASSUME TypeInv, StatusInv
  PROVE  /\ tasks # <<>> => status[TaskId(Head(tasks))] \in {"none", "queued"}
         /\ results # <<>> =>
              status[TaskId(Head(results).task)] \in {"queued", Final(Head(results).done)}
PROOF
  <1>1. ASSUME tasks # <<>>
        PROVE  status[TaskId(Head(tasks))] \in {"none", "queued"}
    <2>1. Head(tasks) \in Tasks /\ Head(tasks) = tasks[1] /\ Len(tasks) \in Nat \ {0}
      BY <1>1, PopFacts DEF TypeInv, TypeOK
    <2>2. Queued(Head(tasks))
      BY <2>1 DEF Queued
    <2> QED
      BY <2>1, <2>2 DEF StatusInv
  <1>2. ASSUME results # <<>>
        PROVE  status[TaskId(Head(results).task)] \in {"queued", Final(Head(results).done)}
    <2>1. Head(results) = results[1] /\ Len(results) \in Nat \ {0}
      BY <1>2, PopFacts DEF TypeInv, TypeOK
    <2> QED
      BY <2>1 DEF StatusInv
  <1> QED
    BY <1>1, <1>2

\* Every result is one of a task.
LEMMA ResultTasks ==
  ASSUME TypeInv
  PROVE  /\ \A i \in 1 .. Len(results) : results[i] \in Results /\ results[i].task \in Tasks
         /\ \A c \in Coordinators : held[c] # NoResult => held[c].task \in Tasks
PROOF
  <1>1. \A r \in Results : r.task \in Tasks
    BY DEF Results
  <1>2. \A i \in 1 .. Len(results) : results[i] \in Results
    BY DEF TypeInv, TypeOK
  <1>3. \A c \in Coordinators : held[c] # NoResult => held[c] \in Results
    BY DEF TypeInv, TypeOK
  <1> QED
    BY <1>1, <1>2, <1>3

\* Initially no task is pushed, and no status is set.
LEMMA InitStatus == Init => StatusInv
PROOF
  <1> SUFFICES ASSUME Init PROVE StatusInv
    OBVIOUS
  <1>1. \A t \in Tasks : status[TaskId(t)] = "none"
    BY TaskFacts DEF Init
  <1> QED
    BY <1>1 DEF Init, StatusInv

\* The worker marks the task it holds, which is nowhere else.
LEMMA MarkStatus ==
  ASSUME BatchIdsDistinct, TypeInv, PlaceInv, StatusInv, NEW w \in Workers,
         MarkRunning(w) \/ MarkFinished(w)
  PROVE  StatusInv'
PROOF
  <1> DEFINE t0 == task[w]
  <1>1. /\ t0 \in Tasks /\ t0 # NoTask
        /\ wpc \in [Workers -> {"loop", "poll", "claimed", "scanning", "publish", "exit", "dead"}]
        /\ outcome \in [Workers -> BOOLEAN]
        /\ status \in [TaskIds -> {"none", "queued", "running", "done", "failed"}]
        /\ results \in Seq(Results)
        /\ held \in [Coordinators -> Results \cup {NoResult}]
        /\ UNCHANGED <<tasks, results, task, enqueued, held>>
    BY NullAssumption DEF MarkRunning, MarkFinished, MoveWorker, coordinatorVars,
                          TypeInv, TypeOK, Holding
  <1>2. \A t \in Tasks : TaskId(t) = TaskId(t0) <=> t = t0
    BY <1>1, TaskIdInjective
  <1>3. PICK s \in {"running", "done", "failed"} :
          /\ SetStatus(TaskId(t0), s)
          /\ \A x \in Workers \ {w} : wpc'[x] = wpc[x] /\ outcome'[x] = outcome[x]
          /\ \/ wpc'[w] = "scanning" /\ s = "running"
             \/ wpc'[w] = "publish" /\ s = Final(outcome'[w])
    <2>1. CASE MarkRunning(w)
      BY <1>1, <2>1 DEF MarkRunning, MoveWorker, SetStatus
    <2>2. CASE MarkFinished(w)
      BY <1>1, <2>2 DEF MarkFinished, MoveWorker, SetStatus, Final
    <2> QED
      BY <2>1, <2>2
  <1>4. /\ \A t \in Tasks : t # t0 => status'[TaskId(t)] = status[TaskId(t)]
        /\ status'[TaskId(t0)] = s
    BY <1>1, <1>2, <1>3, TaskFacts DEF SetStatus
  <1>5. /\ Claimed(t0) /\ ~Queued(t0) /\ ~Reported(t0) /\ ~Held(t0) /\ Pushed(t0)
        /\ \A x \in Workers \ {w} : task[x] # t0
    BY <1>1 DEF PlaceInv, Exclusive, Located, NoRepeats, Claimed
  <1>6. \A t \in Tasks :
          (~Pushed(t) \/ Queued(t))' => status'[TaskId(t)] \in {"none", "queued"}
    BY <1>1, <1>4, <1>5 DEF StatusInv, Pushed, Queued
  <1>7. \A x \in Workers :
          /\ wpc'[x] \in {"claimed", "scanning"} =>
               status'[TaskId(task'[x])] \in {"none", "queued", "running"}
          /\ wpc'[x] = "publish" => status'[TaskId(task'[x])] \in {"queued", Final(outcome'[x])}
    <2>1. ASSUME NEW x \in Workers, x # w, wpc[x] \in {"claimed", "scanning", "publish"}
          PROVE  status'[TaskId(task'[x])] = status[TaskId(task[x])]
      BY <1>1, <1>4, <1>5, <2>1 DEF TypeInv, Holding
    <2> QED
      BY <1>1, <1>3, <1>4, <2>1 DEF StatusInv
  <1>8. \A i \in 1 .. Len(results') :
          status'[TaskId(results'[i].task)] \in {"queued", Final(results'[i].done)}
    <2>1. \A i \in 1 .. Len(results) : results[i].task \in Tasks /\ results[i].task # t0
      BY <1>5, ResultTasks DEF Reported
    <2> QED
      BY <1>1, <1>4, <2>1 DEF StatusInv
  <1>9. \A c \in Coordinators :
          held'[c] # NoResult =>
            status'[TaskId(held'[c].task)] \in {"queued", Final(held'[c].done)}
    <2>1. \A c \in Coordinators :
            held[c] # NoResult => held[c].task \in Tasks /\ held[c].task # t0
      BY <1>5, ResultTasks DEF Held
    <2> QED
      BY <1>1, <1>4, <2>1 DEF StatusInv
  <1> QED
    BY <1>6, <1>7, <1>8, <1>9 DEF StatusInv

\* The other steps of a worker move a task with the status it has.
LEMMA WorkerStatus ==
  ASSUME TypeInv, PlaceInv, StatusInv, NEW w \in Workers,
         \/ HeartbeatWorker(w) \/ PopTask(w) \/ PopTaskTimeout(w) \/ PushResult(w)
         \/ ExpireHeartbeat(w) \/ CrashWorker(w)
  PROVE  StatusInv'
PROOF
  <1>0. /\ wpc \in [Workers -> {"loop", "poll", "claimed", "scanning", "publish", "exit", "dead"}]
        /\ task \in [Workers -> Tasks \cup {NoTask}]
        /\ outcome \in [Workers -> BOOLEAN]
        /\ results \in Seq(Results)
    BY DEF TypeInv, TypeOK
  <1>1. CASE PopTask(w)
    <2>1. /\ tasks # <<>> /\ UNCHANGED <<status, results, outcome, held, enqueued>>
          /\ tasks' = Tail(tasks)
          /\ wpc' = [wpc EXCEPT ![w] = "claimed"]
          /\ task' = [task EXCEPT ![w] = Head(tasks)]
      BY <1>1 DEF PopTask, MoveWorker, coordinatorVars
    <2>2. status[TaskId(Head(tasks))] \in {"none", "queued"}
      BY <2>1, HeadStatus
    <2>3. \A t : Queued(t)' => Queued(t)
      <3>1. /\ Len(tasks) \in Nat \ {0} /\ Len(tasks') = Len(tasks) - 1
            /\ \A i \in 1 .. Len(tasks') : tasks'[i] = tasks[i + 1]
        BY <2>1, PopFacts DEF TypeInv, TypeOK
      <3> QED
        BY <3>1 DEF Queued
    <2>4. \A t \in Tasks : (~Pushed(t) \/ Queued(t))' => ~Pushed(t) \/ Queued(t)
      BY <2>1, <2>3 DEF Pushed
    <2>5. \A x \in Workers \ {w} : wpc'[x] = wpc[x] /\ task'[x] = task[x]
      BY <1>0, <2>1
    <2>6. wpc'[w] = "claimed" /\ task'[w] = Head(tasks)
      BY <1>0, <2>1
    <2> QED
      BY <2>1, <2>2, <2>4, <2>5, <2>6 DEF StatusInv
  <1>2. CASE PushResult(w)
    <2> DEFINE r0 == [task |-> task[w], done |-> outcome[w]]
    <2>1. /\ wpc[w] = "publish" /\ UNCHANGED <<status, tasks, held, enqueued>>
          /\ wpc' = [wpc EXCEPT ![w] = LoopOrExit(w)]
          /\ task' = [task EXCEPT ![w] = NoTask]
          /\ outcome' = [outcome EXCEPT ![w] = FALSE]
          /\ results' = Append(results, r0)
      BY <1>2 DEF PushResult, MoveWorker, coordinatorVars
    <2>2. r0 \in Results
      BY <1>0, <2>1, TaskFacts DEF TypeInv, Holding
    <2>3. /\ Len(results') = Len(results) + 1 /\ Len(results) \in Nat
          /\ results'[Len(results) + 1] = r0
          /\ \A i \in 1 .. Len(results) : results'[i] = results[i]
      BY <1>0, <2>1, <2>2, AppendFacts
    <2>4. status[TaskId(r0.task)] \in {"queued", Final(r0.done)}
      BY <2>1 DEF StatusInv
    <2>5. \A i \in 1 .. Len(results') :
            status[TaskId(results'[i].task)] \in {"queued", Final(results'[i].done)}
      BY <2>3, <2>4 DEF StatusInv
    <2>6. /\ \A x \in Workers \ {w} : /\ wpc'[x] = wpc[x] /\ task'[x] = task[x]
                                      /\ outcome'[x] = outcome[x]
          /\ wpc'[w] \notin {"claimed", "scanning", "publish"}
      BY <1>0, <2>1 DEF LoopOrExit
    <2>7. \A t \in Tasks : (~Pushed(t) \/ Queued(t))' => ~Pushed(t) \/ Queued(t)
      BY <2>1 DEF Pushed, Queued
    <2> QED
      BY <2>1, <2>5, <2>6, <2>7 DEF StatusInv
  <1>3. CASE HeartbeatWorker(w) \/ PopTaskTimeout(w) \/ ExpireHeartbeat(w) \/ CrashWorker(w)
    <2>1. /\ UNCHANGED <<status, tasks, results, task, outcome, held, enqueued>>
          /\ \A x \in Workers : wpc'[x] = wpc[x]
                                  \/ wpc'[x] \notin {"claimed", "scanning", "publish"}
      BY <1>0, <1>3 DEF HeartbeatWorker, PopTaskTimeout, ExpireHeartbeat, CrashWorker, MoveWorker,
                        LoopOrExit, redis, workerVars, coordinatorVars
    <2>2. \A t \in Tasks : (~Pushed(t) \/ Queued(t))' => ~Pushed(t) \/ Queued(t)
      BY <2>1 DEF Pushed, Queued
    <2> QED
      BY <2>1, <2>2 DEF StatusInv
  <1> QED
    BY <1>1, <1>2, <1>3

\* A coordinator pushes a task that has no status yet, may say "queued" at any
\* time, and moves a result with the status it has.
LEMMA CoordinatorStatus ==
  ASSUME BatchIdsDistinct, TypeInv, PlaceInv, StatusInv, NEW c \in Coordinators,
         CoordinatorStep(c) \/ PassDeadline(c) \/ CrashCoordinator(c)
  PROVE  StatusInv'
PROOF
  <1>0. /\ results \in Seq(Results) /\ tasks \in Seq(Tasks)
        /\ held \in [Coordinators -> Results \cup {NoResult}]
        /\ enqueued \in [Coordinators -> Nat]
        /\ status \in [TaskIds -> {"none", "queued", "running", "done", "failed"}]
    BY DEF TypeInv, TypeOK
  <1>1. CASE PushTask(c)
    <2>1. /\ tasks' = Append(tasks, NewTask(c))
          /\ enqueued' = [enqueued EXCEPT ![c] = @ + 1]
          /\ cpc[c] = "push"
          /\ UNCHANGED <<status, results, wpc, task, outcome, held>>
      BY <1>1 DEF PushTask, MoveCoordinator, workerVars
    <2>a. enqueued[c] < Size[c] /\ enqueued[c] \in Nat /\ Size[c] \in Nat
      BY <1>0, <2>1, SizeAssumption DEF TypeInv, Enqueueing
    <2>2. enqueued[c] + 1 \in 1 .. Size[c]
      BY <2>a
    <2>3. NewTask(c) \in Tasks /\ ~Pushed(NewTask(c))
      BY <1>0, <2>2, TaskFacts DEF NewTask, Pushed
    <2>4. /\ Len(tasks') = Len(tasks) + 1 /\ Len(tasks) \in Nat
          /\ tasks'[Len(tasks) + 1] = NewTask(c)
          /\ \A i \in 1 .. Len(tasks) : tasks'[i] = tasks[i]
      BY <1>0, <2>1, <2>3, AppendFacts
    <2>5. \A t \in Tasks : Queued(t)' => Queued(t) \/ t = NewTask(c)
      BY <2>4 DEF Queued
    <2>6. \A t \in Tasks : ~Pushed(t)' => ~Pushed(t)
      BY <1>0, <2>1, TaskFacts DEF Pushed
    <2>7. \A t \in Tasks : (~Pushed(t) \/ Queued(t))' => ~Pushed(t) \/ Queued(t)
      BY <2>3, <2>5, <2>6
    <2> QED
      BY <2>1, <2>7 DEF StatusInv
  <1>2. CASE MarkQueued(c)
    <2>1. /\ UNCHANGED <<tasks, results, enqueued, wpc, task, outcome, held>>
          /\ SetStatus(<<BatchOf[c], enqueued[c]>>, "queued")
      BY <1>2 DEF MarkQueued, workerVars, SetStatus
    <2>2. \A t \in Tasks : status'[TaskId(t)] \in {"queued", status[TaskId(t)]}
      BY <1>0, <2>1, TaskFacts DEF SetStatus
    <2>3. \A t \in Tasks : (~Pushed(t) \/ Queued(t))' => ~Pushed(t) \/ Queued(t)
      BY <2>1 DEF Pushed, Queued
    <2>4. \A i \in 1 .. Len(results) : results[i].task \in Tasks
      BY ResultTasks
    <2>5. \A d \in Coordinators : held[d] # NoResult => held[d].task \in Tasks
      BY ResultTasks
    <2>6. \A w \in Workers : wpc[w] \in {"claimed", "scanning", "publish"} => task[w] \in Tasks
      BY DEF TypeInv, Holding
    <2>7. /\ \A t \in Tasks :
               (~Pushed(t) \/ Queued(t))' => status'[TaskId(t)] \in {"none", "queued"}
          /\ \A i \in 1 .. Len(results) :
               status'[TaskId(results[i].task)] \in {"queued", Final(results[i].done)}
      BY <2>2, <2>3, <2>4 DEF StatusInv
    <2>8. \A w \in Workers :
            /\ wpc[w] \in {"claimed", "scanning"} =>
                 status'[TaskId(task[w])] \in {"none", "queued", "running"}
            /\ wpc[w] = "publish" => status'[TaskId(task[w])] \in {"queued", Final(outcome[w])}
      BY <2>2, <2>6 DEF StatusInv
    <2>9. \A d \in Coordinators :
            held[d] # NoResult =>
              status'[TaskId(held[d].task)] \in {"queued", Final(held[d].done)}
      BY <2>2, <2>5 DEF StatusInv
    <2> QED
      BY <2>1, <2>7, <2>8, <2>9 DEF StatusInv
  <1>3. CASE PopOwnResult(c) \/ PopForeignResult(c)
    <2>1. /\ results # <<>> /\ results' = Tail(results)
          /\ UNCHANGED <<tasks, status, enqueued, wpc, task, outcome>>
          /\ held' = held \/ held' = [held EXCEPT ![c] = Head(results)]
      BY <1>3 DEF PopOwnResult, PopForeignResult, workerVars
    <2>2. /\ Len(results) \in Nat \ {0} /\ Len(results') = Len(results) - 1
          /\ \A i \in 1 .. Len(results') : results'[i] = results[i + 1]
      BY <1>0, <2>1, PopFacts
    <2>3. \A i \in 1 .. Len(results') :
            status[TaskId(results'[i].task)] \in {"queued", Final(results'[i].done)}
      BY <2>2 DEF StatusInv
    <2>4. status[TaskId(Head(results).task)] \in {"queued", Final(Head(results).done)}
      BY <2>1, HeadStatus
    <2>5. \A d \in Coordinators :
            held'[d] # NoResult =>
              status[TaskId(held'[d].task)] \in {"queued", Final(held'[d].done)}
      BY <1>0, <2>1, <2>4 DEF StatusInv
    <2>6. \A t \in Tasks : (~Pushed(t) \/ Queued(t))' => ~Pushed(t) \/ Queued(t)
      BY <2>1 DEF Pushed, Queued
    <2> QED
      BY <2>1, <2>3, <2>5, <2>6 DEF StatusInv
  <1>4. CASE PushBackResult(c)
    <2>1. /\ results' = Append(results, held[c]) /\ held' = [held EXCEPT ![c] = NoResult]
          /\ held[c] \in Results
          /\ UNCHANGED <<tasks, status, enqueued, wpc, task, outcome>>
      BY <1>4 DEF PushBackResult, MoveCoordinator, workerVars, TypeInv, Holding
    <2>2. /\ Len(results') = Len(results) + 1 /\ Len(results) \in Nat
          /\ results'[Len(results) + 1] = held[c]
          /\ \A i \in 1 .. Len(results) : results'[i] = results[i]
      BY <1>0, <2>1, AppendFacts
    <2>3. status[TaskId(held[c].task)] \in {"queued", Final(held[c].done)}
      BY <2>1, NullAssumption DEF StatusInv
    <2>4. \A i \in 1 .. Len(results') :
            status[TaskId(results'[i].task)] \in {"queued", Final(results'[i].done)}
      BY <2>2, <2>3 DEF StatusInv
    <2>5. \A d \in Coordinators : held'[d] = NoResult \/ held'[d] = held[d]
      BY <1>0, <2>1
    <2>6. \A t \in Tasks : (~Pushed(t) \/ Queued(t))' => ~Pushed(t) \/ Queued(t)
      BY <2>1 DEF Pushed, Queued
    <2> QED
      BY <2>1, <2>4, <2>5, <2>6 DEF StatusInv
  <1>5. CASE FinishBatch(c) \/ WakeUp(c) \/ PassDeadline(c) \/ CrashCoordinator(c)
    <2>1. UNCHANGED <<tasks, results, status, enqueued, wpc, task, outcome, held>>
      BY <1>5 DEF FinishBatch, WakeUp, PassDeadline, CrashCoordinator, redis, workerVars
    <2>2. \A t \in Tasks : (~Pushed(t) \/ Queued(t))' => ~Pushed(t) \/ Queued(t)
      BY <2>1 DEF Pushed, Queued
    <2> QED
      BY <2>1, <2>2 DEF StatusInv
  <1> QED
    BY <1>1, <1>2, <1>3, <1>4, <1>5 DEF CoordinatorStep

\* The status keys agree with the places in every reachable state.
LEMMA StatusCorrect == ASSUME BatchIdsDistinct PROVE Spec => []StatusInv
PROOF
  <1>1. Init => StatusInv
    BY InitStatus
  <1>2. TypeInv /\ PlaceInv /\ StatusInv /\ [Next]_vars => StatusInv'
    <2> SUFFICES ASSUME TypeInv, PlaceInv, StatusInv, [Next]_vars PROVE StatusInv'
      OBVIOUS
    <2>1. ASSUME NEW w \in Workers, WorkerStep(w) \/ ExpireHeartbeat(w) \/ CrashWorker(w)
          PROVE  StatusInv'
      BY <2>1, MarkStatus, WorkerStatus DEF WorkerStep
    <2>2. ASSUME NEW c \in Coordinators,
                 CoordinatorStep(c) \/ PassDeadline(c) \/ CrashCoordinator(c)
          PROVE  StatusInv'
      BY <2>2, CoordinatorStatus
    <2>3. CASE UNCHANGED vars
      BY <2>3 DEF vars, redis, workerVars, coordinatorVars, StatusInv, Pushed, Queued
    <2> QED
      BY <2>1, <2>2, <2>3 DEF Next
  <1> QED
    BY <1>1, <1>2, TypeCorrect, PlacesCorrect, PTL DEF Spec

\* Whoever sees a result can rely on the final status, for any number of workers
\* and coordinators.
THEOREM ResultAfterStatusAlways == Spec => []ResultAfterStatus
PROOF
  <1>1. CASE BatchIdsDistinct
    <2>1. StatusInv => ResultAfterStatus
      BY DEF StatusInv, ResultAfterStatus, Final
    <2> QED
      BY <1>1, <2>1, StatusCorrect, PTL
  <1>2. CASE ~BatchIdsDistinct
    <2>1. ResultAfterStatus
      BY <1>2 DEF ResultAfterStatus
    <2> QED
      BY <2>1, PTL
  <1> QED
    BY <1>1, <1>2

\* A task that was marked done or failed is not run again.
THEOREM NoSecondRunAlways == Spec => NoSecondRun
PROOF
  <1>1. CASE BatchIdsDistinct
    <2>1. TypeInv /\ StatusInv /\ [Next]_vars =>
            [BatchIdsDistinct =>
               \A id \in TaskIds : status[id] \in {"done", "failed"} =>
                                      status'[id] \in {status[id], "queued"}]_status
      <3> SUFFICES ASSUME TypeInv, StatusInv, [Next]_vars, NEW id \in TaskIds,
                          status[id] \in {"done", "failed"}
                   PROVE  status'[id] \in {status[id], "queued"}
        OBVIOUS
      <3>0. status \in [TaskIds -> {"none", "queued", "running", "done", "failed"}]
        BY DEF TypeInv, TypeOK
      <3>1. ASSUME NEW w \in Workers, MarkRunning(w) \/ MarkFinished(w)
            PROVE  status'[id] = status[id]
        <4>1. TaskId(task[w]) # id
          BY <3>1 DEF MarkRunning, MarkFinished, MoveWorker, StatusInv
        <4> QED
          BY <3>0, <3>1, <4>1 DEF MarkRunning, MarkFinished
      <3>2. ASSUME NEW c \in Coordinators, MarkQueued(c)
            PROVE  status'[id] \in {status[id], "queued"}
        BY <3>0, <3>2 DEF MarkQueued
      <3>3. CASE status' = status
        BY <3>3
      <3>4. ASSUME NEW w \in Workers, WorkerStep(w) \/ ExpireHeartbeat(w) \/ CrashWorker(w)
            PROVE  status' = status \/ MarkRunning(w) \/ MarkFinished(w)
        BY <3>4 DEF WorkerStep, HeartbeatWorker, PopTask, PopTaskTimeout, PushResult,
                    ExpireHeartbeat, CrashWorker, redis
      <3>5. ASSUME NEW c \in Coordinators,
                   CoordinatorStep(c) \/ PassDeadline(c) \/ CrashCoordinator(c)
            PROVE  status' = status \/ MarkQueued(c)
        BY <3>5 DEF CoordinatorStep, PushTask, FinishBatch, PopOwnResult, PopForeignResult,
                    PushBackResult, WakeUp, PassDeadline, CrashCoordinator, redis
      <3>6. CASE UNCHANGED vars
        BY <3>6 DEF vars, redis
      <3> QED
        BY <3>1, <3>2, <3>3, <3>4, <3>5, <3>6 DEF Next
    <2> QED
      BY <1>1, <2>1, TypeCorrect, StatusCorrect, PTL DEF Spec, NoSecondRun
  <1>2. CASE ~BatchIdsDistinct
    <2>1. [Next]_vars =>
            [BatchIdsDistinct =>
               \A id \in TaskIds : status[id] \in {"done", "failed"} =>
                                      status'[id] \in {status[id], "queued"}]_status
      BY <1>2
    <2> QED
      BY <2>1, PTL DEF Spec, NoSecondRun
  <1> QED
    BY <1>1, <1>2

-----------------------------------------------------------------------------
(* What a coordinator has counted.                                         *)

\* The task of coordinator c with index i, and the indices it has an answer for.
TaskOf(c, i) == [owner |-> c, index |-> i]

Counts(c) == {i \in 1 .. Size[c] : CountedBy(c, TaskOf(c, i))}

\* The two lengths that the collect loop adds up are the number of targets that
\* were answered, and a coordinator that ended in time has them all.
CountInv ==
  /\ \A c \in Coordinators :
       /\ IsFiniteSet(failures[c])
       /\ Counted(c) = Cardinality(Counts(c))
  /\ \A c \in Coordinators :
       cpc[c] \in {"ok", "err"} /\ ~expired[c] => Counts(c) = 1 .. Size[c]

\* The indices of a list, and a set of them that is as large as the list.
LEMMA CountsFacts ==
  ASSUME NEW c \in Coordinators
  PROVE  /\ Size[c] \in Nat
         /\ IsFiniteSet(Counts(c)) /\ Cardinality(Counts(c)) \in Nat
         /\ Cardinality(Counts(c)) >= Size[c] => Counts(c) = 1 .. Size[c]
PROOF
  <1>1. Size[c] \in Nat
    BY SizeAssumption
  <1>2. IsFiniteSet(1 .. Size[c]) /\ Cardinality(1 .. Size[c]) = Size[c]
    BY <1>1, FS_Interval
  <1>3. Counts(c) \subseteq 1 .. Size[c]
    BY DEF Counts
  <1>4. /\ IsFiniteSet(Counts(c)) /\ Cardinality(Counts(c)) <= Size[c]
        /\ Cardinality(Counts(c)) = Size[c] => Counts(c) = 1 .. Size[c]
    BY <1>2, <1>3, FS_Subset
  <1>5. Cardinality(Counts(c)) \in Nat
    BY <1>4, FS_CardinalityType
  <1> QED
    BY <1>1, <1>4, <1>5

\* The targets of a coordinator, and which of them it has counted.
LEMMA CountedTasks ==
  ASSUME NEW c \in Coordinators
  PROVE  /\ \A i \in 1 .. Size[c] : TaskOf(c, i) \in Tasks
         /\ \A t \in Tasks : t.owner = c => t.index \in 1 .. Size[c] /\ t = TaskOf(c, t.index)
         /\ Counts(c) = 1 .. Size[c] <=> \A t \in Tasks : t.owner = c => CountedBy(c, t)
PROOF
  <1>1. \A i \in 1 .. Size[c] : TaskOf(c, i) \in Tasks /\ TaskOf(c, i).owner = c
    BY TaskFacts DEF TaskOf
  <1>2. \A t \in Tasks : t.owner = c => t.index \in 1 .. Size[c] /\ t = TaskOf(c, t.index)
    BY TaskFacts DEF TaskOf
  <1> QED
    BY <1>1, <1>2 DEF Counts

\* Initially nothing is counted.
LEMMA InitCounts == Init => CountInv
PROOF
  <1> SUFFICES ASSUME Init, NEW c \in Coordinators
               PROVE  /\ IsFiniteSet(failures[c])
                      /\ Counted(c) = Cardinality(Counts(c))
                      /\ cpc[c] \notin {"ok", "err"}
    BY DEF CountInv
  <1>1. successful[c] = <<>> /\ failures[c] = {} /\ cpc[c] = "push"
    BY DEF Init
  <1>2. Counts(c) = {}
    BY <1>1 DEF Counts, CountedBy, RangeOf
  <1>3. IsFiniteSet({}) /\ Cardinality({}) = 0
    BY FS_EmptySet
  <1> QED
    BY <1>1, <1>2, <1>3 DEF Counted

\* The answer that BLPOP hands to the coordinator of its batch is one more answer.
LEMMA PopOwnFacts ==
  ASSUME BatchIdsDistinct, TypeInv, PlaceInv, NEW c \in Coordinators, PopOwnResult(c)
  PROVE  LET r0 == Head(results)
             t0 == r0.task
         IN  /\ r0.done \in BOOLEAN /\ t0 \in Tasks /\ t0.owner = c
             /\ ~CountedBy(c, t0)
             /\ \/ /\ r0.done
                   /\ successful' = [successful EXCEPT ![c] = Append(@, t0)]
                   /\ failures' = failures
                \/ /\ ~r0.done
                   /\ failures' = [failures EXCEPT ![c] = @ \cup {TaskId(t0)}]
                   /\ successful' = successful
             /\ \A d \in Coordinators :
                  RangeOf(successful'[d])
                    = RangeOf(successful[d]) \cup (IF d = c /\ r0.done THEN {t0} ELSE {})
             /\ \A d \in Coordinators :
                  failures'[d] = failures[d] \cup (IF d = c /\ ~r0.done THEN {TaskId(t0)} ELSE {})
             /\ \A d \in Coordinators, t \in Tasks :
                  CountedBy(d, t)' <=> CountedBy(d, t) \/ (d = c /\ t = t0)
PROOF
  <1> DEFINE r0 == Head(results)
             t0 == r0.task
  <1>1. results # <<>> /\ results' = Tail(results)
    BY DEF PopOwnResult
  <1>2. r0 \in Results /\ t0 \in Tasks /\ ~CountedAnywhere(t0)
    BY <1>1, PopResultFacts
  <1>3. r0.done \in BOOLEAN
    BY <1>2 DEF Results
  <1>4. t0.owner = c
    BY <1>2, TaskFacts DEF PopOwnResult, IsForeign, BatchIdsDistinct
  <1>5. ~CountedBy(c, t0)
    BY <1>2 DEF CountedAnywhere
  <1>6. /\ successful \in [Coordinators -> Seq(Tasks)]
        /\ failures \in [Coordinators -> SUBSET TaskIds]
    BY DEF TypeInv, TypeOK
  <1>7. \/ /\ r0.done
           /\ successful' = [successful EXCEPT ![c] = Append(@, t0)]
           /\ failures' = failures
        \/ /\ ~r0.done
           /\ failures' = [failures EXCEPT ![c] = @ \cup {TaskId(t0)}]
           /\ successful' = successful
    BY DEF PopOwnResult
  <1>8. RangeOf(Append(successful[c], t0)) = RangeOf(successful[c]) \cup {t0}
    BY <1>2, <1>6, AppendFacts
  <1>9. \A d \in Coordinators :
          /\ RangeOf(successful'[d])
               = RangeOf(successful[d]) \cup (IF d = c /\ r0.done THEN {t0} ELSE {})
          /\ failures'[d] = failures[d] \cup (IF d = c /\ ~r0.done THEN {TaskId(t0)} ELSE {})
    <2>1. CASE r0.done
      BY <1>6, <1>7, <1>8, <2>1
    <2>2. CASE ~r0.done
      BY <1>6, <1>7, <2>2
    <2> QED
      BY <2>1, <2>2
  <1>10. \A t \in Tasks : TaskId(t) = TaskId(t0) <=> t = t0
    BY <1>2, TaskIdInjective
  <1>11. \A d \in Coordinators, t \in Tasks :
           CountedBy(d, t)' <=> CountedBy(d, t) \/ (d = c /\ t = t0)
    BY <1>9, <1>10 DEF CountedBy
  <1> QED
    BY <1>2, <1>3, <1>4, <1>5, <1>7, <1>9, <1>11

\* Counting one more answer adds one to the number of targets answered.
LEMMA PopOwnCounts ==
  ASSUME BatchIdsDistinct, TypeInv, PlaceInv, CountInv, NEW c \in Coordinators, PopOwnResult(c)
  PROVE  CountInv'
PROOF
  <1> DEFINE r0 == Head(results)
             t0 == r0.task
  <1>1. /\ r0.done \in BOOLEAN /\ t0 \in Tasks /\ t0.owner = c /\ ~CountedBy(c, t0)
        /\ \A d \in Coordinators, t \in Tasks :
             CountedBy(d, t)' <=> CountedBy(d, t) \/ (d = c /\ t = t0)
        /\ \/ /\ r0.done
              /\ successful' = [successful EXCEPT ![c] = Append(@, t0)]
              /\ failures' = failures
           \/ /\ ~r0.done
              /\ failures' = [failures EXCEPT ![c] = @ \cup {TaskId(t0)}]
              /\ successful' = successful
    BY PopOwnFacts
  <1>2. /\ successful \in [Coordinators -> Seq(Tasks)]
        /\ failures \in [Coordinators -> SUBSET TaskIds]
        /\ cpc[c] = "collect" /\ UNCHANGED <<cpc, expired>>
    BY DEF PopOwnResult, TypeInv, TypeOK
  <1>3. ASSUME NEW d \in Coordinators, d # c
        PROVE  /\ Counts(d)' = Counts(d)
               /\ successful'[d] = successful[d] /\ failures'[d] = failures[d]
    <2>1. \A i \in 1 .. Size[d] : CountedBy(d, TaskOf(d, i))' <=> CountedBy(d, TaskOf(d, i))
      BY <1>1, <1>3, CountedTasks
    <2>2. Counts(d)' = Counts(d)
      BY <2>1 DEF Counts
    <2> QED
      BY <1>1, <1>2, <1>3, <2>2
  <1>4. /\ t0.index \in 1 .. Size[c] /\ t0 = TaskOf(c, t0.index)
        /\ \A i \in 1 .. Size[c] : TaskOf(c, i) \in Tasks
        /\ \A i \in 1 .. Size[c] : TaskOf(c, i) = t0 <=> i = t0.index
    BY <1>1, CountedTasks DEF TaskOf
  <1>5. t0.index \notin Counts(c) /\ Counts(c)' = Counts(c) \cup {t0.index}
    <2>1. \A i \in 1 .. Size[c] :
            CountedBy(c, TaskOf(c, i))' <=> CountedBy(c, TaskOf(c, i)) \/ i = t0.index
      BY <1>1, <1>4
    <2>2. Counts(c)' = Counts(c) \cup {t0.index}
      BY <1>4, <2>1 DEF Counts
    <2> QED
      BY <1>1, <1>4, <2>2 DEF Counts
  <1>6. Cardinality(Counts(c)') = Cardinality(Counts(c)) + 1
    BY <1>5, CountsFacts, FS_AddElement
  <1>7. IsFiniteSet(failures'[c]) /\ Counted(c)' = Counted(c) + 1
    <2>1. /\ IsFiniteSet(failures[c]) /\ Cardinality(failures[c]) \in Nat
          /\ Len(successful[c]) \in Nat
      BY <1>2, FS_CardinalityType DEF CountInv
    <2>2. CASE r0.done
      <3>1. successful'[c] = Append(successful[c], t0) /\ failures'[c] = failures[c]
        BY <1>1, <1>2, <2>2
      <3>2. Len(successful'[c]) = Len(successful[c]) + 1
        BY <1>1, <1>2, <3>1, AppendFacts
      <3> QED
        BY <2>1, <3>1, <3>2 DEF Counted
    <2>3. CASE ~r0.done
      <3>1. /\ failures'[c] = failures[c] \cup {TaskId(t0)} /\ successful'[c] = successful[c]
            /\ TaskId(t0) \notin failures[c]
        BY <1>1, <1>2, <2>3 DEF CountedBy
      <3>2. /\ IsFiniteSet(failures'[c])
            /\ Cardinality(failures'[c]) = Cardinality(failures[c]) + 1
        BY <2>1, <3>1, FS_AddElement
      <3> QED
        BY <2>1, <3>1, <3>2 DEF Counted
    <2> QED
      BY <1>1, <2>2, <2>3
  <1>8. \A d \in Coordinators :
          IsFiniteSet(failures'[d]) /\ Counted(d)' = Cardinality(Counts(d)')
    <2>1. ASSUME NEW d \in Coordinators, d # c
          PROVE  IsFiniteSet(failures'[d]) /\ Counted(d)' = Cardinality(Counts(d)')
      BY <1>3, <2>1 DEF CountInv, Counted
    <2>2. IsFiniteSet(failures'[c]) /\ Counted(c)' = Cardinality(Counts(c)')
      BY <1>6, <1>7 DEF CountInv
    <2> QED
      BY <2>1, <2>2
  <1>9. \A d \in Coordinators :
          cpc'[d] \in {"ok", "err"} /\ ~expired'[d] => Counts(d)' = 1 .. Size[d]
    <2>1. ASSUME NEW d \in Coordinators, cpc'[d] \in {"ok", "err"}, ~expired'[d]
          PROVE  Counts(d)' = 1 .. Size[d]
      <3>1. d # c /\ Counts(d) = 1 .. Size[d]
        BY <1>2, <2>1 DEF CountInv
      <3> QED
        BY <1>3, <3>1
    <2> QED
      BY <2>1
  <1> QED
    BY <1>8, <1>9 DEF CountInv

\* No other step counts anything, and the loop ends with all answers or late.
LEMMA OtherCounts ==
  ASSUME TypeInv, CountInv, UNCHANGED <<successful, failures>>,
         \A c \in Coordinators :
           \/ cpc'[c] \notin {"ok", "err"}
           \/ cpc'[c] = cpc[c] /\ (expired[c] => expired'[c])
           \/ StopCollecting(c) /\ expired' = expired
  PROVE  CountInv'
PROOF
  <1>1. \A c \in Coordinators : Counted(c)' = Counted(c) /\ Counts(c)' = Counts(c)
    BY DEF Counted, Counts, CountedBy
  <1>2. ASSUME NEW c \in Coordinators, cpc'[c] \in {"ok", "err"}, ~expired'[c]
        PROVE  Counts(c) = 1 .. Size[c]
    <2>1. CASE cpc'[c] = cpc[c] /\ (expired[c] => expired'[c])
      BY <1>2, <2>1 DEF CountInv
    <2>2. CASE StopCollecting(c) /\ expired' = expired
      <3>1. Counted(c) >= Size[c]
        BY <1>2, <2>2 DEF StopCollecting
      <3> QED
        BY <3>1, CountsFacts DEF CountInv
    <2> QED
      BY <1>2, <2>1, <2>2
  <1>3. \A c \in Coordinators :
          IsFiniteSet(failures'[c]) /\ Counted(c)' = Cardinality(Counts(c)')
    BY <1>1 DEF CountInv
  <1> QED
    BY <1>1, <1>2, <1>3 DEF CountInv

\* What the steps that count nothing do to the places of the coordinators.
LEMMA QuietSteps ==
  ASSUME TypeInv, [Next]_vars, \A c \in Coordinators : ~PopOwnResult(c)
  PROVE  /\ UNCHANGED <<successful, failures>>
         /\ \/ UNCHANGED <<cpc, expired>>
            \/ \E c \in Coordinators :
                 \/ FinishBatch(c)
                 \/ PassDeadline(c)
                 \/ CrashCoordinator(c)
                 \/ /\ expired' = expired
                    /\ \E s \in {"push", "mark", "collect", "pushback", "sleep"} :
                         cpc' = [cpc EXCEPT ![c] = s]
                    /\ cpc[c] \in {"push", "mark", "collect", "pushback", "sleep"}
PROOF
  <1>1. ASSUME NEW w \in Workers, WorkerStep(w) \/ ExpireHeartbeat(w) \/ CrashWorker(w)
        PROVE  UNCHANGED coordinatorVars
    BY <1>1 DEF WorkerStep, HeartbeatWorker, PopTask, PopTaskTimeout, MarkRunning, MarkFinished,
                PushResult, ExpireHeartbeat, CrashWorker
  <1>2. ASSUME NEW c \in Coordinators,
               \/ PushTask(c) \/ MarkQueued(c) \/ PopForeignResult(c)
               \/ PushBackResult(c) \/ WakeUp(c)
        PROVE  /\ UNCHANGED <<successful, failures, expired>>
               /\ \E s \in {"push", "mark", "collect", "pushback", "sleep"} :
                    cpc' = [cpc EXCEPT ![c] = s]
               /\ cpc[c] \in {"push", "mark", "collect", "pushback", "sleep"}
    BY <1>2 DEF PushTask, MarkQueued, PopForeignResult, PushBackResult, WakeUp, MoveCoordinator
  <1>3. ASSUME NEW c \in Coordinators, FinishBatch(c) \/ PassDeadline(c) \/ CrashCoordinator(c)
        PROVE  UNCHANGED <<successful, failures>>
    BY <1>3 DEF FinishBatch, PassDeadline, CrashCoordinator
  <1>4. CASE UNCHANGED vars
    BY <1>4 DEF vars, coordinatorVars
  <1>5. ASSUME NEW w \in Workers, WorkerStep(w) \/ ExpireHeartbeat(w) \/ CrashWorker(w)
        PROVE  UNCHANGED <<successful, failures, cpc, expired>>
    BY <1>1, <1>5 DEF coordinatorVars
  <1> QED
    BY <1>2, <1>3, <1>4, <1>5 DEF Next, CoordinatorStep

\* The counts are right in every reachable state.
LEMMA CountsCorrect == ASSUME BatchIdsDistinct PROVE Spec => []CountInv
PROOF
  <1>1. TypeInv /\ PlaceInv /\ CountInv /\ [Next]_vars => CountInv'
    <2> SUFFICES ASSUME TypeInv, PlaceInv, CountInv, [Next]_vars PROVE CountInv'
      OBVIOUS
    <2>1. CASE \E c \in Coordinators : PopOwnResult(c)
      BY <2>1, PopOwnCounts
    <2>2. CASE \A c \in Coordinators : ~PopOwnResult(c)
      <3>0. /\ cpc \in [Coordinators -> {"push", "mark", "collect", "pushback", "sleep",
                                          "ok", "err", "dead"}]
            /\ expired \in [Coordinators -> BOOLEAN]
        BY DEF TypeInv, TypeOK
      <3>1. \A c \in Coordinators :
              \/ cpc'[c] \notin {"ok", "err"}
              \/ cpc'[c] = cpc[c] /\ (expired[c] => expired'[c])
              \/ StopCollecting(c) /\ expired' = expired
        BY <2>2, <3>0, QuietSteps
           DEF FinishBatch, PassDeadline, CrashCoordinator, MoveCoordinator
      <3> QED
        BY <2>2, <3>1, QuietSteps, OtherCounts
    <2> QED
      BY <2>1, <2>2
  <1> QED
    BY <1>1, InitCounts, TypeCorrect, PlacesCorrect, PTL DEF Spec

\* A coordinator that leaves its loop before the deadline has an answer for every
\* target, although the loop only compares two counts.
THEOREM CompleteUnlessExpiredAlways == Spec => []CompleteUnlessExpired
PROOF
  <1>1. CASE BatchIdsDistinct
    <2>1. CountInv => CompleteUnlessExpired
      BY CountedTasks DEF CountInv, CompleteUnlessExpired
    <2> QED
      BY <1>1, <2>1, CountsCorrect, PTL
  <1>2. CASE ~BatchIdsDistinct
    <2>1. CompleteUnlessExpired
      BY <1>2 DEF CompleteUnlessExpired
    <2> QED
      BY <2>1, PTL
  <1> QED
    BY <1>1, <1>2

-----------------------------------------------------------------------------
(* The refinement.                                                         *)

\* What the refinement mapping of Batch makes of the state of a coordinator.
AnswersOf(c) ==
  {<<t, TRUE>> : t \in RangeOf(successful[c])} \cup
  {<<t, FALSE>> : t \in {u \in Tasks : TaskId(u) \in failures[c]}}

VerdictOf(c) == IF cpc[c] \in {"ok", "err", "dead"} THEN cpc[c] ELSE "open"

\* The answers of a coordinator in terms of its list and its map.
LEMMA AnswerFacts ==
  ASSUME TypeInv, PlaceInv, NEW c \in Coordinators
  PROVE  /\ \A t : <<t, TRUE>> \in AnswersOf(c) <=> t \in RangeOf(successful[c])
         /\ \A t : <<t, FALSE>> \in AnswersOf(c) <=> t \in Tasks /\ TaskId(t) \in failures[c]
         /\ \A t \in Tasks :
              CountedBy(c, t) <=> \E ok \in BOOLEAN : <<t, ok>> \in AnswersOf(c)
         /\ Batch!Targets(c) = {t \in Tasks : t.owner = c}
         /\ RangeOf(successful[c]) \subseteq Batch!Targets(c)
PROOF
  <1>1. \A t : <<t, TRUE>> \in AnswersOf(c) <=> t \in RangeOf(successful[c])
    BY DEF AnswersOf
  <1>2. \A t : <<t, FALSE>> \in AnswersOf(c) <=> t \in Tasks /\ TaskId(t) \in failures[c]
    BY DEF AnswersOf
  <1>3. \A t \in Tasks : CountedBy(c, t) <=> \E ok \in BOOLEAN : <<t, ok>> \in AnswersOf(c)
    BY <1>1, <1>2 DEF CountedBy
  <1>4. Batch!Targets(c) = {t \in Tasks : t.owner = c}
    <2>1. \A t : t \in Batch!Targets(c) <=>
                  /\ t = [owner |-> t.owner, index |-> t.index]
                  /\ t.owner = c /\ t.index \in 1 .. Size[c]
      BY DEF Batch!Targets
    <2>2. \A t : t \in Batch!Targets(c) <=> t \in Tasks /\ t.owner = c
      BY <2>1, TaskFacts
    <2> QED
      BY <2>2
  <1>5. RangeOf(successful[c]) \subseteq Tasks
    BY DEF TypeInv, TypeOK, RangeOf
  <1>6. RangeOf(successful[c]) \subseteq Batch!Targets(c)
    BY <1>4, <1>5 DEF PlaceInv, Isolated, CountedBy
  <1> QED
    BY <1>1, <1>2, <1>3, <1>4, <1>6

\* Counting a result answers one more target.
LEMMA PopOwnAnswers ==
  ASSUME BatchIdsDistinct, TypeInv, PlaceInv, NEW c \in Coordinators, PopOwnResult(c)
  PROVE  Batch!Answer(c)
PROOF
  <1> DEFINE r0 == Head(results)
             t0 == r0.task
  <1>1. /\ r0.done \in BOOLEAN /\ t0 \in Tasks /\ t0.owner = c /\ ~CountedBy(c, t0)
        /\ \A d \in Coordinators :
             RangeOf(successful'[d])
               = RangeOf(successful[d]) \cup (IF d = c /\ r0.done THEN {t0} ELSE {})
        /\ \A d \in Coordinators :
             failures'[d] = failures[d] \cup (IF d = c /\ ~r0.done THEN {TaskId(t0)} ELSE {})
    BY PopOwnFacts
  <1>2. cpc[c] = "collect" /\ UNCHANGED <<cpc, expired>>
    BY DEF PopOwnResult
  <1>3. \A t \in Tasks : TaskId(t) = TaskId(t0) <=> t = t0
    BY <1>1, TaskIdInjective
  <1>4. \A d \in Coordinators :
          AnswersOf(d)' = AnswersOf(d) \cup (IF d = c THEN {<<t0, r0.done>>} ELSE {})
    <2>1. ASSUME NEW d \in Coordinators, d # c
          PROVE  AnswersOf(d)' = AnswersOf(d)
      <3>1. RangeOf(successful'[d]) = RangeOf(successful[d]) /\ failures'[d] = failures[d]
        BY <1>1, <2>1
      <3>2. {u \in Tasks : TaskId(u) \in failures'[d]} = {u \in Tasks : TaskId(u) \in failures[d]}
        BY <3>1
      <3>3. RangeOf(successful[d])' = RangeOf(successful[d])
        BY <3>1 DEF RangeOf
      <3> QED
        BY <3>2, <3>3 DEF AnswersOf
    <2>2. AnswersOf(c)' = AnswersOf(c) \cup {<<t0, r0.done>>}
      <3>0. RangeOf(successful[c])' = RangeOf(successful'[c])
        BY DEF RangeOf
      <3>1. CASE r0.done = TRUE
        <4>a. RangeOf(successful'[c]) = RangeOf(successful[c]) \cup {t0}
          BY <1>1, <3>1
        <4>b. failures'[c] = failures[c]
          <5>1. failures'[c] = failures[c] \cup {}
            BY <1>1, <3>1
          <5> QED
            BY <5>1
        <4>1. /\ RangeOf(successful[c])' = RangeOf(successful[c]) \cup {t0}
              /\ failures'[c] = failures[c]
          BY <3>0, <4>a, <4>b
        <4>2. {u \in Tasks : TaskId(u) \in failures'[c]} = {u \in Tasks : TaskId(u) \in failures[c]}
          BY <4>1
        <4> QED
          BY <3>1, <4>1, <4>2 DEF AnswersOf
      <3>2. CASE r0.done = FALSE
        <4>1. /\ RangeOf(successful[c])' = RangeOf(successful[c])
              /\ failures'[c] = failures[c] \cup {TaskId(t0)}
          BY <1>1, <3>0, <3>2
        <4>2. {u \in Tasks : TaskId(u) \in failures'[c]}
                = {u \in Tasks : TaskId(u) \in failures[c]} \cup {t0}
          BY <1>1, <1>3, <4>1
        <4> QED
          BY <3>2, <4>1, <4>2 DEF AnswersOf
      <3> QED
        BY <1>1, <3>1, <3>2
    <2> QED
      BY <2>1, <2>2
  <1>5. /\ t0 \in Batch!Targets(c)
        /\ \A ok \in BOOLEAN : <<t0, ok>> \notin AnswersOf(c)
    <2>1. Batch!Targets(c) = {t \in Tasks : t.owner = c}
      BY AnswerFacts
    <2>2. ~\E ok \in BOOLEAN : <<t0, ok>> \in AnswersOf(c)
      BY <1>1, AnswerFacts
    <2> QED
      BY <1>1, <2>1, <2>2
  <1>6. [d \in Coordinators |-> AnswersOf(d)]'
          = [[d \in Coordinators |-> AnswersOf(d)] EXCEPT ![c] = @ \cup {<<t0, r0.done>>}]
    BY <1>4
  <1>7. [d \in Coordinators |-> VerdictOf(d)]' = [d \in Coordinators |-> VerdictOf(d)]
    BY <1>2 DEF VerdictOf
  <1> QED
    BY <1>1, <1>2, <1>5, <1>6, <1>7 DEF Batch!Answer, Batch!Answered, AnswersOf, VerdictOf

\* A coordinator that leaves its loop has every answer or is late, and reports
\* success exactly if it has a successful one.
LEMMA FinishFinishes ==
  ASSUME BatchIdsDistinct, TypeInv, PlaceInv, CountInv, NEW c \in Coordinators, FinishBatch(c)
  PROVE  Batch!Finish(c)
PROOF
  <1>1. /\ cpc[c] = "collect" /\ StopCollecting(c)
        /\ cpc' = [cpc EXCEPT ![c] = IF successful[c] = <<>> THEN "err" ELSE "ok"]
        /\ UNCHANGED <<successful, failures, expired>>
    BY DEF FinishBatch, MoveCoordinator
  <1>2. ASSUME ~expired[c]
        PROVE  \A t \in Batch!Targets(c) : \E ok \in BOOLEAN : <<t, ok>> \in AnswersOf(c)
    <2>1. Counted(c) >= Size[c]
      BY <1>1, <1>2 DEF StopCollecting
    <2>2. Counts(c) = 1 .. Size[c]
      BY <2>1, CountsFacts DEF CountInv
    <2>3. \A t \in Tasks : t.owner = c => CountedBy(c, t)
      BY <2>2, CountedTasks
    <2>4. Batch!Targets(c) = {t \in Tasks : t.owner = c}
      BY AnswerFacts
    <2>5. \A t \in Tasks : CountedBy(c, t) => \E ok \in BOOLEAN : <<t, ok>> \in AnswersOf(c)
      BY AnswerFacts
    <2> QED
      BY <2>3, <2>4, <2>5
  <1>3. successful[c] # <<>> <=> \E t \in Batch!Targets(c) : <<t, TRUE>> \in AnswersOf(c)
    <2>1. successful[c] \in Seq(Tasks)
      BY DEF TypeInv, TypeOK
    <2>a. ASSUME successful[c] # <<>>
          PROVE  successful[c][1] \in RangeOf(successful[c])
      <3>1. Len(successful[c]) \in Nat \ {0}
        BY <2>1, <2>a, PopFacts
      <3> QED
        BY <3>1 DEF RangeOf
    <2>b. ASSUME successful[c] = <<>>
          PROVE  RangeOf(successful[c]) = {}
      BY <2>b DEF RangeOf
    <2>2. successful[c] # <<>> <=> RangeOf(successful[c]) # {}
      BY <2>a, <2>b
    <2> QED
      BY <2>2, AnswerFacts
  <1>4. [d \in Coordinators |-> VerdictOf(d)]'
          = [[d \in Coordinators |-> VerdictOf(d)] EXCEPT ![c] =
               IF \E t \in Batch!Targets(c) : <<t, TRUE>> \in AnswersOf(c) THEN "ok" ELSE "err"]
    <2>1. cpc \in [Coordinators -> {"push", "mark", "collect", "pushback", "sleep",
                                    "ok", "err", "dead"}]
      BY DEF TypeInv, TypeOK
    <2> QED
      BY <1>1, <1>3, <2>1 DEF VerdictOf
  <1>5. [d \in Coordinators |-> AnswersOf(d)]' = [d \in Coordinators |-> AnswersOf(d)]
    BY <1>1 DEF AnswersOf, RangeOf
  <1>6. VerdictOf(c) = "open"
    BY <1>1 DEF VerdictOf
  <1> QED
    BY <1>1, <1>2, <1>4, <1>5, <1>6 DEF Batch!Finish, Batch!Answered, AnswersOf, VerdictOf

\* The other steps are an expiry, a death, or not seen by the user at all.
LEMMA QuietRefines ==
  ASSUME BatchIdsDistinct, TypeInv, PlaceInv, CountInv, [Next]_vars,
         \A c \in Coordinators : ~PopOwnResult(c)
  PROVE  [Batch!Next]_(Batch!vars)
PROOF
  <1>0. cpc \in [Coordinators -> {"push", "mark", "collect", "pushback", "sleep",
                                  "ok", "err", "dead"}]
    BY DEF TypeInv, TypeOK
  <1>1. [d \in Coordinators |-> AnswersOf(d)]' = [d \in Coordinators |-> AnswersOf(d)]
    BY QuietSteps DEF AnswersOf, RangeOf
  <1>2. ASSUME NEW c \in Coordinators, PassDeadline(c)
        PROVE  Batch!Expire(c)
    <2>1. /\ cpc[c] \in {"collect", "pushback", "sleep"}
          /\ expired' = [expired EXCEPT ![c] = TRUE] /\ cpc' = cpc
      BY <1>2 DEF PassDeadline
    <2>2. [d \in Coordinators |-> VerdictOf(d)]' = [d \in Coordinators |-> VerdictOf(d)]
      BY <2>1 DEF VerdictOf
    <2>3. VerdictOf(c) = "open"
      BY <2>1 DEF VerdictOf
    <2> QED
      BY <1>1, <2>1, <2>2, <2>3 DEF Batch!Expire, AnswersOf, VerdictOf
  <1>3. ASSUME NEW c \in Coordinators, CrashCoordinator(c)
        PROVE  Batch!Die(c)
    <2>1. /\ cpc[c] \notin {"ok", "err", "dead"} /\ expired' = expired
          /\ cpc' = [cpc EXCEPT ![c] = "dead"]
      BY <1>3 DEF CrashCoordinator
    <2>2. [d \in Coordinators |-> VerdictOf(d)]'
            = [[d \in Coordinators |-> VerdictOf(d)] EXCEPT ![c] = "dead"]
      BY <1>0, <2>1 DEF VerdictOf
    <2>3. VerdictOf(c) = "open"
      BY <2>1 DEF VerdictOf
    <2> QED
      BY <1>1, <2>1, <2>2, <2>3 DEF Batch!Die, AnswersOf, VerdictOf
  <1>4. ASSUME \/ UNCHANGED <<cpc, expired>>
               \/ \E c \in Coordinators :
                    /\ expired' = expired
                    /\ \E s \in {"push", "mark", "collect", "pushback", "sleep"} :
                         cpc' = [cpc EXCEPT ![c] = s]
                    /\ cpc[c] \in {"push", "mark", "collect", "pushback", "sleep"}
        PROVE  UNCHANGED Batch!vars
    <2>1. expired' = expired
      BY <1>4
    <2>2. \A d \in Coordinators : VerdictOf(d)' = VerdictOf(d)
      BY <1>0, <1>4 DEF VerdictOf
    <2>3. [d \in Coordinators |-> VerdictOf(d)]' = [d \in Coordinators |-> VerdictOf(d)]
      BY <2>2
    <2> QED
      BY <1>1, <2>1, <2>3 DEF Batch!vars, AnswersOf, VerdictOf
  <1>5. CASE \E c \in Coordinators : FinishBatch(c) \/ PassDeadline(c) \/ CrashCoordinator(c)
    <2>1. Batch!Next
      BY <1>2, <1>3, <1>5, FinishFinishes DEF Batch!Next
    <2> QED
      BY <2>1
  <1>6. CASE UNCHANGED Batch!vars
    BY <1>6
  <1> QED
    BY <1>4, <1>5, <1>6, QuietSteps

\* With distinct batch ids, whatever the workers and the other coordinators do,
\* crashes and foreign results included, every coordinator keeps the promise of
\* ScanBatch.
THEOREM CoordinatorsImplementScanBatch ==
  ASSUME BatchIdsDistinct PROVE Spec => ImplementsScanBatch
PROOF
  <1>1. Init => Batch!Init
    <2> SUFFICES ASSUME Init PROVE Batch!Init
      OBVIOUS
    <2>1. \A c \in Coordinators : AnswersOf(c) = {} /\ VerdictOf(c) = "open"
      BY DEF Init, AnswersOf, VerdictOf, RangeOf
    <2>2. /\ [c \in Coordinators |-> AnswersOf(c)] = [c \in Coordinators |-> {}]
          /\ [c \in Coordinators |-> VerdictOf(c)] = [c \in Coordinators |-> "open"]
          /\ expired = [c \in Coordinators |-> FALSE]
      BY <2>1 DEF Init
    <2> QED
      BY <2>2 DEF Batch!Init, AnswersOf, VerdictOf
  <1>2. TypeInv /\ PlaceInv /\ CountInv /\ [Next]_vars => [Batch!Next]_(Batch!vars)
    <2> SUFFICES ASSUME TypeInv, PlaceInv, CountInv, [Next]_vars
                 PROVE  [Batch!Next]_(Batch!vars)
      OBVIOUS
    <2>1. CASE \E c \in Coordinators : PopOwnResult(c)
      <3>1. Batch!Next
        BY <2>1, PopOwnAnswers DEF Batch!Next
      <3> QED
        BY <3>1
    <2>2. CASE \A c \in Coordinators : ~PopOwnResult(c)
      BY <2>2, QuietRefines
    <2> QED
      BY <2>1, <2>2
  <1> QED
    BY <1>1, <1>2, TypeCorrect, PlacesCorrect, CountsCorrect, PTL
       DEF Spec, Batch!Spec, ImplementsScanBatch

=============================================================================
