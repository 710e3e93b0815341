---------------------------- MODULE DispatchTree ----------------------------
(***************************************************************************)
(* The tree of callers and children: a task that hands back a dispatch is   *)
(* suspended until one child, or a whole batch of children, is over; then it *)
(* is queued again with their results (supervisor/task_router.py,           *)
(* task_store.py, task_ending.py, task_reaper.py, and the item and transit   *)
(* timers of async_dispatches.py).                                          *)
(*                                                                         *)
(* Everything done under self._lock is one action: failing a task with the  *)
(* cancellation of everything below it, a route with the settlement of the  *)
(* caller.  Claims, leases and requeues are module TaskClaims: here a       *)
(* running task has a live lease or not as it happens.  Preempted and ask   *)
(* settle like finish.  Left to other modules: await_dispatches, compaction *)
(* rounds, session resets, branch merges.                                   *)
(***************************************************************************)
EXTENDS Naturals, FiniteSets

CONSTANTS
    Tasks,
    Root,           \* the task of an inbound message: nobody called it
    NoTask,
    Tools,          \* tasks of kind tool: items of a batch that dispatch nothing
    MaxDispatches,  \* bound: dispatches of one task
    MaxKids,        \* bound: items of one batch
    MaxThreads,     \* bound: threads waiting to route one task
    DiskFails       \* whether writing a task snapshot to the event log may fail

ASSUME RootAssumption == Root \in Tasks /\ NoTask \notin Tasks /\ Tools \subseteq Tasks \ {Root}
ASSUME BoundsAssumption ==
    /\ MaxDispatches \in Nat /\ MaxKids \in Nat \ {0} /\ MaxThreads \in Nat \ {0}
    /\ DiskFails \in BOOLEAN

VARIABLES
    task,       \* the supervisor's Task records
    threads     \* threads on their way to route each task

vars == <<task, threads>>

Live == {"pending", "running", "suspended"}
Terminal == {"completed", "failed", "cancelled"}

TaskRecord == [
    status: {"unborn"} \union Live \union Terminal,
    action: {"none", "finish", "dispatch", "fail", "cancelled"},   \* result["action"]
    cancelReq: BOOLEAN,
    caller: Tasks \union {NoTask},
    key: Nat,                   \* the caller's round that dispatched it
    batch: BOOLEAN,             \* batch_id is set
    waitsFor: SUBSET Tasks,     \* waiting_for_task_id, or the items of waiting_for_batch_id
    round: Nat,                 \* route_generation, in delivery_id: 0 before any completion
    route: {"pending", "routed", "failed"},
    graceOver: BOOLEAN,         \* TRANSIT_GRACE has passed since updated_at
    stopping: {"no", "yes", "over"},    \* _stopping_worker; over: past STOP_GRACE
    timedOut: BOOLEAN,          \* ITEM_TIMED_OUT_KEY
    watched: BOOLEAN,           \* registry.transit_checks
    told: {"nothing", "done", "notDone"}]   \* what its caller was handed about it

TypeOK ==
    /\ task \in [Tasks -> TaskRecord]
    /\ threads \in [Tasks -> 0..MaxThreads]

-----------------------------------------------------------------------------
(* task_ending: being terminal is not being over. *)

IsTerminal(r) == r.status \in Terminal
IsStopping(r) == IsTerminal(r) /\ r.stopping = "yes"

Unsent(r) ==
    /\ r.status = "completed" /\ r.action = "dispatch"
    /\ r.route # "routed" /\ ~r.graceOver

Dispatching(r) == ~IsStopping(r) /\ Unsent(r) /\ r.route = "pending"
DispatchFailed(r) == ~IsStopping(r) /\ Unsent(r) /\ r.route = "failed" /\ ~r.cancelReq
Settling(r) ==
    /\ IsTerminal(r) /\ ~IsStopping(r) /\ ~Unsent(r)
    /\ r.route = "pending" /\ r.round > 0 /\ ~r.graceOver

Continues(r) == r.status \in Live \/ Dispatching(r) \/ DispatchFailed(r)
ResultOpen(r) == r.status \in Live \/ Dispatching(r) \/ IsStopping(r) \/ Settling(r)

(* transit_due gives a date. *)
InTransit(r) == IsStopping(r) \/ Dispatching(r) \/ DispatchFailed(r) \/ Settling(r)

Outcome(r) == IF r.status = "completed" /\ r.action = "finish" THEN "done" ELSE "notDone"

-----------------------------------------------------------------------------
(* Handing a result to the caller.  T stands for the records so far. *)

CanResume(r) == r.status = "suspended" /\ ~r.cancelReq

CallerWaits(T, c) ==
    /\ T[c].caller # NoTask
    /\ CanResume(T[T[c].caller])
    /\ c \in T[T[c].caller].waitsFor

Requeued(r) == [r EXCEPT !.status = "pending", !.waitsFor = {}, !.graceOver = FALSE]
HandedOver(r) == [r EXCEPT !.told = Outcome(r)]
Watched(r) == [r EXCEPT !.watched = TRUE]

Resume(T, p) == [x \in Tasks |->
    IF x = p THEN Requeued(T[x])
    ELSE IF x \in T[p].waitsFor THEN HandedOver(T[x])
    ELSE T[x]]

(* The batch p waits for is over but for the task that is being routed: p is *)
(* queued.  Otherwise the siblings in transit are looked at again in time.   *)
ResumeBatchIfSettled(T, p, routing) ==
    LET open == {x \in T[p].waitsFor \ routing : ResultOpen(T[x])} IN
    IF open = {} THEN Resume(T, p)
    ELSE [x \in Tasks |->
             IF x \in open /\ InTransit(T[x]) THEN Watched(T[x]) ELSE T[x]]

SettleChild(T, c) ==
    IF ~CallerWaits(T, c) THEN T
    ELSE IF T[c].batch THEN ResumeBatchIfSettled(T, T[c].caller, {c})
    ELSE Resume(T, T[c].caller)

TransitEnded(T, c) ==
    IF T[c].batch /\ CallerWaits(T, c) THEN ResumeBatchIfSettled(T, T[c].caller, {}) ELSE T

-----------------------------------------------------------------------------
(* Ending a task, and what hangs below it. *)

ApplyFailure(r) == [r EXCEPT
    !.status = "failed", !.action = "fail", !.cancelReq = TRUE, !.waitsFor = {}, !.graceOver = FALSE]

Terminated(r) == [r EXCEPT
    !.status = "cancelled", !.action = "cancelled", !.cancelReq = TRUE, !.waitsFor = {},
    !.graceOver = FALSE]

RouteReset(r) == [r EXCEPT !.round = @ + 1, !.route = "pending", !.graceOver = FALSE]

(* _cancel_task_locked on the record: leased are the tasks whose worker will *)
(* still renew or report.                                                   *)
CancelOne(r, leased) ==
    IF IsTerminal(r)
    THEN IF Continues(r) THEN [r EXCEPT !.cancelReq = TRUE] ELSE r
    ELSE IF r.status = "running" /\ leased THEN [r EXCEPT !.cancelReq = TRUE]
    ELSE Terminated(r)

(* The least set that holds the children of t in S and their children in S. *)
Below(T, t, S) ==
    {d \in S : \A X \in SUBSET S :
        (\A x \in S : T[x].caller \in X \union {t} => x \in X) => d \in X}

Born(T) == {x \in Tasks : T[x].status # "unborn"}

(* _live_descendants_locked: through tasks that go on only. *)
LiveDescendants(T, t) == Below(T, t, {x \in Tasks : Continues(T[x])}) \ {t}

(* _dispatched_descendants_locked: through tasks that are over, too. *)
DispatchedDescendants(T, t) == {d \in Below(T, t, Born(T)) \ {t} : Continues(T[d])}

(* Parents go before their children, so none of them is waiting any more when *)
(* a child that was cancelled is settled: that settlement has no effect.      *)
CancelAll(T, S, leased) ==
    [x \in Tasks |-> IF x \in S THEN CancelOne(T[x], x \in leased) ELSE T[x]]

-----------------------------------------------------------------------------
(* _route_completed_task_locked: what routing t may make of the records. *)

Routed(r) == [r EXCEPT !.route = "routed", !.graceOver = FALSE]
RouteFailed(r) == [r EXCEPT !.route = "failed", !.graceOver = FALSE]

MarkRouted(T, t) == [T EXCEPT ![t] = Routed(@)]
MarkRouteFailed(T, t) == [T EXCEPT ![t] = RouteFailed(@)]

(* finish, fail, cancelled: the caller is settled, unless the route raises   *)
(* before; it may also raise after (the task_routed snapshot).               *)
RouteEnd(T, t) == {
    MarkRouted(SettleChild(T, t), t),
    MarkRouteFailed(SettleChild(T, t), t),
    TransitEnded(MarkRouteFailed(T, t), t)}

NewChild(T, t, batch) == [
    status |-> "pending", action |-> "none", cancelReq |-> FALSE, caller |-> t,
    key |-> T[t].round, batch |-> batch, waitsFor |-> {}, round |-> 0, route |-> "pending",
    graceOver |-> FALSE, stopping |-> "no", timedOut |-> FALSE, watched |-> FALSE,
    told |-> "nothing"]

(* _create_refused_batch_child_locked: failed where it is created. *)
RefusedChild(T, t) == [RouteReset(ApplyFailure(NewChild(T, t, TRUE))) EXCEPT !.route = "routed"]

Create(T, t, kids, refused, batch) == [x \in Tasks |->
    IF x \in refused THEN RefusedChild(T, t)
    ELSE IF x \in kids THEN NewChild(T, t, batch)
    ELSE T[x]]

Suspended(r, kids) ==
    [r EXCEPT !.status = "suspended", !.waitsFor = kids, !.graceOver = FALSE]

Suspend(T, t, kids) == [T EXCEPT ![t] = Suspended(@, kids)]

(* The children this completion created before, should it be routed again. *)
ExistingChildren(T, t) ==
    {x \in Born(T) : T[x].caller = t /\ T[x].key = T[t].round}

(* What one dispatch creates: one child, or a batch some items of which are  *)
(* refused.                                                                 *)
Creations(T, t) ==
    LET unborn == Tasks \ Born(T) IN
    {[kids |-> {x}, refused |-> {}, batch |-> FALSE] : x \in unborn \ Tools} \union
    UNION {{[kids |-> K, refused |-> R, batch |-> TRUE] : R \in SUBSET K} :
           K \in {S \in SUBSET unborn : S # {} /\ Cardinality(S) <= MaxKids}}

(* The dispatch goes out. *)
SentOut(T, t) ==
    LET old == ExistingChildren(T, t)
        again == IF \E x \in old : T[x].batch
                 THEN ResumeBatchIfSettled(Suspend(T, t, old), t, {})
                 ELSE Suspend(T, t, old)
        new(n) ==
            LET S == Suspend(Create(T, t, n.kids, n.refused, n.batch), t, n.kids)
            IN IF n.batch THEN ResumeBatchIfSettled(S, t, {}) ELSE S
    IN IF old # {} THEN {again} ELSE {new(n) : n \in Creations(T, t)}

(* _abandon_dispatch_locked: it raised half-way; the caller has failed before *)
(* the children it had got are cancelled.                                    *)
Withdrawn(T, t, n) ==
    LET F == [Create(T, t, n.kids, n.refused, n.batch) EXCEPT ![t] = ApplyFailure(@)]
    IN CancelAll(F, n.kids, {})

(* With the event log unwritable: the suspension stands but task_routed could *)
(* not be written; or the failure of an abandoned dispatch could not be       *)
(* written, and its children are not reached.                                *)
DiskFailures(T, t) ==
    IF ~DiskFails THEN {}
    ELSE {MarkRouteFailed(S, t) : S \in SentOut(T, t)} \union
         {TransitEnded(MarkRouteFailed(
              [Create(T, t, n.kids, n.refused, n.batch) EXCEPT ![t] = ApplyFailure(@)], t), t) :
          n \in Creations(T, t)}

RouteDispatch(T, t) ==
    LET failed == [T EXCEPT ![t] = ApplyFailure(@)] IN       \* refused
    UNION {SentOut(MarkRouted(T, t), t),
           RouteEnd(failed, t),
           UNION {RouteEnd(Withdrawn(T, t, n), t) : n \in Creations(T, t)},
           {TransitEnded(MarkRouteFailed(T, t), t)},
           DiskFailures(T, t)}

(* Mutant: only a cancel calls a dispatch off. *)
CalledOffByCancelOnly(T, t) == T[t].cancelReq

(* The dispatch was cancelled, or its caller does not wait for it any more. *)
CalledOff(T, t) ==
    \/ T[t].cancelReq
    \/ T[t].caller # NoTask /\ ~CallerWaits(T, t)

IsDispatch(r) == r.action = "dispatch"

(* Mutant: a completion is routed whenever a thread asks. *)
RouteCompletionAgain(T, t) ==
    IF IsDispatch(T[t]) THEN RouteDispatch(T, t) ELSE RouteEnd(T, t)

RouteCompletion(T, t) ==
    IF T[t].route = "routed" THEN {T}
    ELSE IF T[t].status = "completed" /\ IsDispatch(T[t]) /\ CalledOff(T, t)
    THEN {SettleChild([T EXCEPT ![t] = Routed(Terminated(@))], t)}
    ELSE IF T[t].status = "completed" /\ IsDispatch(T[t]) /\ T[t].timedOut
    THEN RouteEnd([T EXCEPT ![t] = ApplyFailure(@)], t)
    ELSE IF IsDispatch(T[t]) THEN RouteDispatch(T, t)
    ELSE RouteEnd(T, t)

(* Routed where the caller holds the lock, or, when a branch, a worktree or a *)
(* stopped batch has to be written first, by a thread of its own.             *)
RouteNow(T, t) ==
    \/ task' \in RouteCompletion(T, t) /\ UNCHANGED threads
    \/ /\ threads[t] < MaxThreads
       /\ task' = T /\ threads' = [threads EXCEPT ![t] = @ + 1]

-----------------------------------------------------------------------------
Init ==
    /\ task = [t \in Tasks |-> [
           status |-> IF t = Root THEN "pending" ELSE "unborn", action |-> "none",
           cancelReq |-> FALSE, caller |-> NoTask, key |-> 0, batch |-> FALSE,
           waitsFor |-> {}, round |-> 0, route |-> "pending", graceOver |-> FALSE,
           stopping |-> "no", timedOut |-> FALSE, watched |-> FALSE, told |-> "nothing"]]
    /\ threads = [t \in Tasks |-> 0]

(* A worker claims the task. *)
Start(t) ==
    /\ task[t].status = "pending" /\ ~task[t].cancelReq
    /\ task' = [task EXCEPT ![t].status = "running"]
    /\ UNCHANGED threads

(* Its worker reports: a task with a cancel request is cancelled and settled *)
(* at once; otherwise a thread leaves the lock to route the completion.      *)
Report(t, result) ==
    LET r == [task[t] EXCEPT !.action = result]
        ended == CASE result = "fail" -> "failed"
                   [] result = "cancelled" -> "cancelled"
                   [] OTHER -> "completed"
    IN
    /\ task[t].status = "running"
    /\ result = "dispatch" => t \notin Tools /\ task[t].round < MaxDispatches
    /\ IF r.cancelReq
       THEN /\ task' = SettleChild([task EXCEPT ![t] =
                   [r EXCEPT !.status = "cancelled", !.route = "routed", !.graceOver = FALSE]], t)
            /\ UNCHANGED threads
       ELSE /\ threads[t] < MaxThreads
            /\ task' = [task EXCEPT ![t] = RouteReset([r EXCEPT !.status = ended])]
            /\ threads' = [threads EXCEPT ![t] = @ + 1]

(* A repeated report pushes a route that has not got through once more. *)
ReportAgain(t) ==
    LET r == task[t] IN
    /\ IsTerminal(r) /\ r.round > 0 /\ r.route # "routed" /\ ~IsStopping(r)
    /\ threads[t] < MaxThreads
    /\ threads' = [threads EXCEPT ![t] = @ + 1]
    /\ UNCHANGED task

(* The worker of a task that was failed reports that it has stopped. *)
StopReported(t) ==
    LET r == task[t] IN
    /\ r.stopping # "no"
    /\ task' = [task EXCEPT ![t].stopping = "no"]
    /\ IF r.route = "routed" THEN UNCHANGED threads
       ELSE /\ threads[t] < MaxThreads
            /\ threads' = [threads EXCEPT ![t] = @ + 1]

(* The thread gets to the lock.  A dispatch that was timed out is failed; if *)
(* that has to be written down first, the route is put off once more.        *)
RouteCompleted(t) ==
    LET r == task[t] IN
    /\ threads[t] > 0
    /\ \/ /\ task' \in RouteCompletion(task, t)
          /\ threads' = [threads EXCEPT ![t] = @ - 1]
       \/ /\ r.status = "completed" /\ IsDispatch(r) /\ r.route # "routed"
          /\ r.timedOut /\ ~CalledOff(task, t)
          /\ task' = [task EXCEPT ![t] = ApplyFailure(@)]
          /\ UNCHANGED threads

(* Mutant: nobody looks whether the old worker has stopped. *)
FailTaskUnwatched(t) ==
    LET r == RouteReset(ApplyFailure(task[t])) IN
    /\ task[t].status \in Live
    /\ \E leased \in SUBSET {x \in Tasks : task[x].status = "running"} :
           LET F == [task EXCEPT ![t] = r]
               below == LiveDescendants(F, t)
               T == CancelAll(F, below, leased)
           IN IF t \in leased
              THEN /\ task' = [T EXCEPT ![t].stopping = "yes"]
                   /\ UNCHANGED threads
              ELSE RouteNow(T, t)

(* _fail_task_locked: the task is failed first, then everything alive below  *)
(* it cancelled, then its failure routed, once its worker has stopped.       *)
FailTask(t) ==
    LET r == RouteReset(ApplyFailure(task[t])) IN
    /\ task[t].status \in Live
    /\ \E leased \in SUBSET {x \in Tasks : task[x].status = "running"} :
           LET F == [task EXCEPT ![t] = r]
               below == LiveDescendants(F, t)
               T == CancelAll(F, below, leased)
           IN IF t \in leased
              THEN /\ task' = [T EXCEPT ![t].stopping = "yes", ![t].watched = TRUE]
                   /\ UNCHANGED threads
              ELSE RouteNow(T, t)

(* reap_stuck_tasks_locked, and the deadline of a batch item that is alive. *)
Fail(t) == FailTask(t)

(* The deadline of an item whose own dispatch is still to be routed. *)
ItemTimesOut(t) ==
    /\ task[t].batch /\ ~task[t].timedOut
    /\ Dispatching(task[t]) \/ DispatchFailed(task[t])
    /\ task' = [task EXCEPT ![t].timedOut = TRUE]
    /\ UNCHANGED threads

(* Mutant: the reaper fails a suspended task only if its children are lost. *)
ReapWaitingLost(t) ==
    /\ task[t].status = "suspended"
    /\ \A c \in task[t].waitsFor : task[c].status = "unborn"
    /\ FailTask(t)

(* The reaper finds a suspended task whose children are all over. *)
ReapWaiting(t) ==
    /\ task[t].status = "suspended"
    /\ \A c \in task[t].waitsFor : ~ResultOpen(task[c])
    /\ FailTask(t)

(* Mutant: the task alone is cancelled. *)
CancelAlone(t) ==
    /\ Continues(task[t])
    /\ \E leased \in SUBSET {x \in Tasks : task[x].status = "running"} :
           task' = SettleChild([task EXCEPT ![t] = CancelOne(@, t \in leased)], t)
    /\ task' # task
    /\ UNCHANGED threads

(* cancel_single_task: the task, then everything it dispatched. *)
Cancel(t) ==
    /\ Continues(task[t])
    /\ \E leased \in SUBSET {x \in Tasks : task[x].status = "running"} :
           LET T == CancelAll(task, {t} \union DispatchedDescendants(task, t), leased)
           IN task' = IF T[t].status = "cancelled" THEN SettleChild(T, t) ELSE T
    /\ task' # task
    /\ UNCHANGED threads

(* STOP_GRACE passes without a report of the old worker. *)
StopGracePasses(t) ==
    /\ task[t].stopping = "yes"
    /\ task' = [task EXCEPT ![t].stopping = "over"]
    /\ UNCHANGED threads

(* TRANSIT_GRACE passes without the route getting through. *)
TransitGracePasses(t) ==
    /\ Dispatching(task[t]) \/ DispatchFailed(task[t]) \/ Settling(task[t])
    /\ task' = [task EXCEPT ![t].graceOver = TRUE]
    /\ UNCHANGED threads

(* _transit_check_due_locked: a worker that never reported is taken for gone *)
(* and the task routed; else the batch is collected if it is complete now.   *)
TransitCheck(t) ==
    LET T == [task EXCEPT ![t].watched = FALSE, ![t].stopping = "no"] IN
    /\ task[t].watched
    /\ task[t].stopping = "over" \/ ~InTransit(task[t])
    /\ IF task[t].stopping = "over" /\ task[t].route # "routed"
       THEN RouteNow(T, t)
       ELSE task' = TransitEnded(T, t) /\ UNCHANGED threads

Next ==
    \E t \in Tasks :
        \/ Start(t)
        \/ \E result \in {"finish", "dispatch", "fail", "cancelled"} : Report(t, result)
        \/ ReportAgain(t) \/ StopReported(t)
        \/ RouteCompleted(t)
        \/ Fail(t) \/ ItemTimesOut(t) \/ Cancel(t)
        \/ StopGracePasses(t) \/ TransitGracePasses(t) \/ TransitCheck(t)

Spec == Init /\ [][Next]_vars

(* The supervisor's own threads and timers run: a thread reaches the lock,   *)
(* expire_due_locked looks at what is due, time passes.                      *)
TimerFairness == \A t \in Tasks :
    /\ WF_vars(RouteCompleted(t)) /\ WF_vars(TransitCheck(t))
    /\ WF_vars(StopGracePasses(t)) /\ WF_vars(TransitGracePasses(t))

(* The reaper ends what is queued or runs for too long (reap_reason). *)
ReapAlive(t) == task[t].status \in {"pending", "running"} /\ FailTask(t)

ReaperFairness == \A t \in Tasks : WF_vars(ReapAlive(t)) /\ WF_vars(ReapWaiting(t))

TimerSpec == Spec /\ TimerFairness
ReaperSpec == Spec /\ TimerFairness /\ ReaperFairness

-----------------------------------------------------------------------------
(* Nobody works for nothing: a task that is alive either has been told to    *)
(* stop, or its caller is suspended and waits for its result.  So no chain of *)
(* dispatches outlives a task above it that failed, was cancelled or reaped.  *)
NoOrphanWork ==
    \A c \in Tasks :
        task[c].status \in Live /\ task[c].caller # NoTask
            => task[c].cancelReq \/ CallerWaits(task, c)

(* A batch that somebody waits for is never forgotten: some item of it is     *)
(* alive, or on its way through a route, or has a timer that looks at it.    *)
BatchHasAWaker ==
    \A p \in Tasks :
        task[p].status = "suspended" /\ (\E c \in task[p].waitsFor : task[c].batch)
            => \E c \in task[p].waitsFor :
                   \/ task[c].status \in Live
                   \/ threads[c] > 0 /\ task[c].route # "routed"
                   \/ task[c].watched

(* What a caller was handed about a child stays true: the child does not work *)
(* again, and its outcome does not change, whatever retries, late routes,    *)
(* cancels and timers follow.                                               *)
ToldIsFinal ==
    [][\A c \in Tasks : task[c].told # "nothing" =>
           /\ IsTerminal(task'[c])
           /\ task'[c].told = task[c].told /\ Outcome(task'[c]) = task[c].told]_vars

(* A caller whose whole batch is terminal is queued again by routes and timers *)
(* alone, whichever of the routes fail and however late a stopped worker is.  *)
WaitsForNothing(p) ==
    /\ task[p].status = "suspended"
    /\ \A c \in task[p].waitsFor : task[c].batch /\ IsTerminal(task[c])

BatchIsCollected == \A p \in Tasks : []<>~WaitsForNothing(p)

(* No task waits for ever: with the reaper, every suspension ends. *)
EveryWaitEnds == \A p \in Tasks : []<>(task[p].status # "suspended")

(* A completion goes out once: only a task whose latest completion is a      *)
(* dispatch is ever suspended by a route, never one that has gone on since.  *)
SuspendedOncePerDispatch ==
    [][\A t \in Tasks : task'[t].status = "suspended" /\ task[t].status # "suspended"
           => task[t].status = "completed" /\ task[t].route # "routed"]_vars

=============================================================================
