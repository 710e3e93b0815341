----------------------------- MODULE TaskClaims -----------------------------
(***************************************************************************)
(* How one task of the supervisor is claimed, renewed, reported, cancelled, *)
(* failed and requeued (supervisor/task_store.py, task_ending.py,           *)
(* task_reaper.py, task_requeue.py, register_engine in state.py), with the  *)
(* engine processes that execute it (engine/runner.py) and the HTTP calls   *)
(* between them, which may be lost, repeated or late.                       *)
(*                                                                         *)
(* Everything the supervisor does under self._lock is one action.  What a   *)
(* handler does after it releases the lock (the route of a completion, the  *)
(* second half of register_engine) is an action of its own.  The tree of    *)
(* callers and children is module DispatchTree: here a task that hands a    *)
(* dispatch back is suspended and the environment resumes it.               *)
(***************************************************************************)
EXTENDS Naturals, FiniteSets

CONSTANTS
    Tasks,
    Workers,        \* worker ids: a restarted engine process keeps its id
    AutoContinue,   \* tasks of nodes that declare auto_continue
    Silent,         \* internal and ambient tasks: interrupted without a word
    NoWorker,
    Restart,        \* the orphan list of settle_orphaned_tasks
    MaxClaims,      \* bound: claims of one task
    MaxResumes,     \* bound: dispatches of one task
    MaxStarts,      \* bound: process starts of one worker id
    MaxRouters      \* bound: threads waiting in the route slot of one task

ASSUME TasksAssumption == AutoContinue \subseteq Tasks /\ Silent \subseteq Tasks
ASSUME NamesAssumption == NoWorker \notin Workers /\ Restart \notin Workers
ASSUME BoundsAssumption ==
    /\ MaxClaims \in Nat /\ MaxResumes \in Nat
    /\ MaxStarts \in Nat /\ MaxRouters \in Nat

VARIABLES
    task,       \* the supervisor's Task records
    resumes,    \* how often each task was resumed after a suspension
    progress,   \* the tasks whose conversation holds a step of theirs
    routers,    \* threads that left complete_task to route each task
    proc,       \* the engine process of each worker id
    starts,     \* how often it was started
    held,       \* the claims engine processes are executing
    posts,      \* completion reports in flight, or to be retried
    orphans,    \* claims collected under the lock and not settled yet
    cutoff      \* claims made before the engines were stopped for a restart

vars == <<task, resumes, progress, routers, proc, starts, held, posts, orphans, cutoff>>

engine == <<proc, starts, held>>

Status == {"pending", "running", "suspended", "completed", "failed", "cancelled"}
Terminal == {"completed", "failed", "cancelled"}
ResultActions == {"none", "finish", "dispatch", "fail", "cancelled"}
WorkerResults == {"finish", "dispatch", "fail", "cancelled", "shutdown"}
Owners == Workers \union {Restart}
ClaimIds == 1..MaxClaims

TaskRecord == [
    status: Status,
    action: ResultActions,          \* task.result["action"]
    cancelReq: BOOLEAN,
    worker: Workers \union {NoWorker},
    claim: 0..MaxClaims,            \* claim_id, fresh at every assignment
    doneClaim: 0..MaxClaims,        \* completed_claim_id
    lease: {"none", "live", "lapsed"},
    route: {"pending", "routed", "failed"},
    delivery: BOOLEAN,              \* a delivery_id: its completion is to be routed
    stopping: 0..MaxClaims,         \* the claim of the _stopping_worker marker
    stopOver: BOOLEAN,              \* STOP_GRACE has passed since the marker
    requeued: BOOLEAN,              \* REQUEUE_MARK
    unrecorded: BOOLEAN]            \* history: a route ended and left no trace

Report == [task: Tasks, claim: ClaimIds, result: WorkerResults]

TypeOK ==
    /\ task \in [Tasks -> TaskRecord]
    /\ resumes \in [Tasks -> 0..MaxResumes]
    /\ progress \in SUBSET Tasks
    /\ routers \in [Tasks -> 0..MaxRouters]
    /\ proc \in [Workers -> {"down", "starting", "registering", "ready"}]
    /\ starts \in [Workers -> 0..MaxStarts]
    /\ held \in SUBSET (Workers \X Tasks \X ClaimIds)
    /\ posts \in SUBSET Report
    /\ orphans \in [Owners -> SUBSET (Tasks \X ClaimIds)]
    /\ cutoff \in SUBSET (Tasks \X ClaimIds)

-----------------------------------------------------------------------------
(* The state transitions every path shares, as operators on a task record. *)

IsTerminal(r) == r.status \in Terminal

(* task_ending(...).continues within TRANSIT_GRACE: a task that is not over, *)
(* or handed back a dispatch that may still go out.  Past the grace nothing  *)
(* is done to the record, which is the same as not calling.                  *)
Continues(r) ==
    \/ ~IsTerminal(r)
    \/ /\ r.status = "completed" /\ r.action = "dispatch"
       /\ \/ r.route = "pending"
          \/ r.route = "failed" /\ ~r.cancelReq

IsStopping(r) == r.stopping # 0 /\ ~r.stopOver

LiveClaim(r) == IF r.status = "running" /\ r.lease = "live" THEN r.claim ELSE 0

RouteReset(r) == [r EXCEPT !.route = "pending", !.delivery = TRUE, !.unrecorded = FALSE]

TerminateCancelled(r) ==
    [r EXCEPT !.status = "cancelled", !.action = "cancelled", !.cancelReq = TRUE, !.lease = "none"]

CancelTask(r, force) ==
    IF IsTerminal(r)
    THEN IF Continues(r) THEN [r EXCEPT !.cancelReq = TRUE] ELSE r
    ELSE IF LiveClaim(r) # 0 /\ ~force
         THEN [r EXCEPT !.cancelReq = TRUE]
         ELSE TerminateCancelled(r)

ApplyFailure(r) ==
    [r EXCEPT !.status = "failed", !.action = "fail", !.cancelReq = TRUE, !.lease = "none"]

FailTask(r, workerGone) ==
    [RouteReset(ApplyFailure(r)) EXCEPT
        !.stopping = IF workerGone THEN 0 ELSE LiveClaim(r),
        !.stopOver = FALSE]

(* Mutant: the requeue mark is not looked at. *)
RequeueCandidateAgain(t, r) == t \in AutoContinue \ Silent /\ ~r.cancelReq

RequeueCandidate(t, r) ==
    t \in AutoContinue \ Silent /\ ~r.requeued /\ ~r.cancelReq

Requeue(r) ==
    [r EXCEPT !.status = "pending", !.action = "none", !.worker = NoWorker, !.lease = "none",
              !.doneClaim = r.claim, !.requeued = TRUE]

(* What routing a completion makes of the record: the terminal ones are      *)
(* delivered, or the route raises and stays to be pushed again.              *)
Routed(r) == [r EXCEPT !.route = "routed"]
RouteFailed(r) == [r EXCEPT !.route = "failed"]

(* The branch of an ended task is merged first.  When its plan or its claim   *)
(* cannot be had, or the claim was lost to somebody else, the thread ends and *)
(* the route stays what it was.                                               *)
RouteUnrecorded(r) == [r EXCEPT !.unrecorded = TRUE]

(* Mutant: the dispatch goes out although it was cancelled. *)
RouteResultsUncancelled(r) ==
    IF r.status = "completed" /\ r.action = "dispatch"
    THEN {[Routed(r) EXCEPT !.status = "suspended", !.worker = NoWorker, !.lease = "none"],
          Routed(ApplyFailure(r)), RouteFailed(r)}
    ELSE {Routed(r), RouteFailed(r)}

RouteResults(r) ==
    IF r.status = "completed" /\ r.action = "dispatch"
    THEN IF r.cancelReq
         THEN {Routed(TerminateCancelled(r))}              \* _call_off_dispatch_locked
         ELSE {[Routed(r) EXCEPT !.status = "suspended", !.worker = NoWorker, !.lease = "none"],
               Routed(ApplyFailure(r)),                    \* refused, or withdrawn half-way
               RouteFailed(r)}
    ELSE {Routed(r), RouteFailed(r)}

-----------------------------------------------------------------------------
Init ==
    /\ task = [t \in Tasks |-> [
           status |-> "pending", action |-> "none", cancelReq |-> FALSE,
           worker |-> NoWorker, claim |-> 0, doneClaim |-> 0, lease |-> "none",
           route |-> "pending", delivery |-> FALSE, stopping |-> 0, stopOver |-> FALSE,
           requeued |-> FALSE, unrecorded |-> FALSE]]
    /\ resumes = [t \in Tasks |-> 0]
    /\ progress = {}
    /\ routers = [t \in Tasks |-> 0]
    /\ proc = [w \in Workers |-> "ready"]
    /\ starts = [w \in Workers |-> 0]
    /\ held = {}
    /\ posts = {}
    /\ orphans = [x \in Owners |-> {}]
    /\ cutoff = {}

-----------------------------------------------------------------------------
(* The queue, as the engine drives it. *)

(* GET /v1/tasks/next.  The answer may be lost, and a request that a process *)
(* sent before it died may be served after.                                  *)
AssignNextTask(w, t) ==
    LET r == task[t] IN
    /\ r.status = "pending" /\ ~r.cancelReq
    /\ r.claim < MaxClaims
    /\ proc[w] \in {"ready", "down"}
    /\ task' = [task EXCEPT ![t] = [r EXCEPT
           !.status = "running", !.worker = w, !.claim = r.claim + 1, !.lease = "live"]]
    /\ \/ proc[w] = "ready" /\ held' = held \union {<<w, t, r.claim + 1>>}
       \/ held' = held
    /\ UNCHANGED <<resumes, progress, routers, proc, starts, posts, orphans, cutoff>>

(* renew_lease accepts the claim: the 60 s heartbeat of the engine. *)
RenewLease(w, t, c) ==
    LET r == task[t] IN
    /\ <<w, t, c>> \in held
    /\ r.status = "running" /\ r.claim = c /\ ~r.cancelReq
    /\ task' = [task EXCEPT ![t].lease = "live"]
    /\ UNCHANGED <<resumes, progress, routers, engine, posts, orphans, cutoff>>

(* The lease runs out: renewals were lost or came too late. *)
LeaseLapses(t) ==
    /\ task[t].status = "running" /\ task[t].lease = "live"
    /\ task' = [task EXCEPT ![t].lease = "lapsed"]
    /\ UNCHANGED <<resumes, progress, routers, engine, posts, orphans, cutoff>>

(* The engine writes a step of the task to the conversation store; only those *)
(* of tasks that may be requeued are ever looked for (stored_steps).           *)
WriteStep(w, t, c) ==
    /\ <<w, t, c>> \in held /\ t \in AutoContinue
    /\ progress' = progress \union {t}
    /\ UNCHANGED <<task, resumes, routers, engine, posts, orphans, cutoff>>

(* The engine is done and posts its result; the post is retried, so it may   *)
(* be handled any number of times, and late.                                 *)
FinishTask(w, t, c, result) ==
    /\ <<w, t, c>> \in held
    /\ held' = held \ {<<w, t, c>>}
    /\ posts' = posts \union {[task |-> t, claim |-> c, result |-> result]}
    /\ UNCHANGED <<task, resumes, progress, routers, proc, starts, orphans, cutoff>>

(* A refused renewal, or is_task_cancelled: the engine stops the task as if  *)
(* the user had cancelled it, and reports that.                              *)
StopRefused(w, t, c) ==
    LET r == task[t] IN
    /\ r.status # "running" \/ r.claim # c \/ r.cancelReq
    /\ FinishTask(w, t, c, "cancelled")

WorkerFinishes(w, t, c) ==
    \E result \in {"finish", "dispatch", "fail"} :
        /\ result = "dispatch" => resumes[t] < MaxResumes
        /\ FinishTask(w, t, c, result)

-----------------------------------------------------------------------------
(* complete_task: the three ways a report can find the task. *)

(* What a report makes of a task that runs. *)
AcceptReport(p) ==
    LET t == p.task
        r == [task[t] EXCEPT !.doneClaim = task[t].claim, !.lease = "none"]
        ended == IF p.result # "shutdown" THEN p.result
                 ELSE IF t \in Silent THEN "cancelled" ELSE "fail"
        status == CASE ended = "cancelled" -> "cancelled"
                    [] ended = "fail" -> "failed"
                    [] OTHER -> "completed"
    IN
    /\ IF r.cancelReq
       THEN /\ task' = [task EXCEPT ![t] = [r EXCEPT
                   !.status = "cancelled", !.route = "routed",
                   !.action = IF p.result = "shutdown" THEN "cancelled" ELSE p.result]]
            /\ UNCHANGED routers
       ELSE IF p.result = "shutdown" /\ t \in progress /\ RequeueCandidate(t, r)
       THEN /\ task' = [task EXCEPT ![t] = Requeue(r)]
            /\ UNCHANGED routers
       ELSE /\ routers[t] < MaxRouters
            /\ task' = [task EXCEPT ![t] = RouteReset([r EXCEPT !.status = status, !.action = ended])]
            /\ routers' = [routers EXCEPT ![t] = @ + 1]
    /\ UNCHANGED <<resumes, progress, engine, posts, orphans, cutoff>>

(* Mutant: a task that is over already takes the report. *)
ReportAcceptedAnyStatus(p) ==
    p \in posts /\ task[p.task].claim = p.claim /\ AcceptReport(p)

(* The running claim reports: the only report that sets the result. *)
ReportAccepted(p) ==
    /\ p \in posts
    /\ task[p.task].status = "running" /\ task[p.task].claim = p.claim
    /\ AcceptReport(p)

(* Any report about a task that is over: it tells that its own worker has    *)
(* stopped, and pushes a route that has not finished once more.              *)
ReportOnEnded(p) ==
    LET t == p.task
        r == IF task[t].stopping = p.claim
             THEN [task[t] EXCEPT !.stopping = 0, !.stopOver = FALSE] ELSE task[t]
        pushes == r.route # "routed" /\ ~IsStopping(r)
    IN
    /\ p \in posts
    /\ IsTerminal(r)
    /\ pushes \/ r # task[t]
    /\ pushes => routers[t] < MaxRouters
    /\ task' = [task EXCEPT ![t] = r]
    /\ routers' = [routers EXCEPT ![t] = IF pushes THEN @ + 1 ELSE @]
    /\ UNCHANGED <<resumes, progress, engine, posts, orphans, cutoff>>

(* The report's answer has arrived, or every retry of it failed. *)
ReportGone(p) ==
    /\ p \in posts
    /\ posts' = posts \ {p}
    /\ UNCHANGED <<task, resumes, progress, routers, engine, orphans, cutoff>>

(* _route_completed_task of a thread that left the lock: routed already,      *)
(* routed now, or given up before the route with nothing recorded.           *)
RouteCompleted(t) ==
    /\ routers[t] > 0
    /\ routers' = [routers EXCEPT ![t] = @ - 1]
    /\ IF task[t].route = "routed"
       THEN UNCHANGED task
       ELSE \/ \E r \in RouteResults(task[t]) : task' = [task EXCEPT ![t] = r]
            \/ /\ task[t].action # "dispatch"
               /\ task' = [task EXCEPT ![t] = RouteUnrecorded(@)]
    /\ UNCHANGED <<resumes, progress, engine, posts, orphans, cutoff>>

(* The result the suspended task waits for has arrived (DispatchTree). *)
ResumeSuspended(t) ==
    LET r == task[t] IN
    /\ r.status = "suspended" /\ ~r.cancelReq
    /\ resumes[t] < MaxResumes
    /\ task' = [task EXCEPT ![t] = [r EXCEPT
           !.status = "pending", !.worker = NoWorker, !.lease = "none"]]
    /\ resumes' = [resumes EXCEPT ![t] = @ + 1]
    /\ UNCHANGED <<progress, routers, engine, posts, orphans, cutoff>>

-----------------------------------------------------------------------------
(* Cancelling and failing from the supervisor's side. *)

Cancel(t) ==
    /\ task' = [task EXCEPT ![t] = CancelTask(@, FALSE)]
    /\ task' # task
    /\ UNCHANGED <<resumes, progress, routers, engine, posts, orphans, cutoff>>

(* _fail_task_locked on a task that is not over: reaped (reap_reason), or    *)
(* past its item deadline.  While its worker may still run the route is      *)
(* deferred; otherwise it runs at once under the lock, or on a branch thread. *)
RouteNow(t, r) ==
    \/ /\ \E routed \in RouteResults(r) : task' = [task EXCEPT ![t] = routed]
       /\ UNCHANGED routers
    \/ /\ routers[t] < MaxRouters
       /\ task' = [task EXCEPT ![t] = r]
       /\ routers' = [routers EXCEPT ![t] = @ + 1]

(* Mutant: the route does not wait for the worker. *)
FailAndRouteAtOnce(t, r) == RouteNow(t, r)

FailAndRoute(t, r) ==
    IF IsStopping(r)
    THEN task' = [task EXCEPT ![t] = r] /\ UNCHANGED routers
    ELSE RouteNow(t, r)

(* Mutants: the reaper spares the tasks of dead processes, or cancelled tasks. *)
FailUnlessWorkerDown(t) ==
    /\ ~IsTerminal(task[t])
    /\ \A w \in Workers : task[t].worker = w => proc[w] # "down"
    /\ FailAndRoute(t, FailTask(task[t], FALSE))
    /\ UNCHANGED <<resumes, progress, engine, posts, orphans, cutoff>>
FailUnlessCancelled(t) ==
    /\ ~IsTerminal(task[t]) /\ ~task[t].cancelReq
    /\ FailAndRoute(t, FailTask(task[t], FALSE))
    /\ UNCHANGED <<resumes, progress, engine, posts, orphans, cutoff>>

Fail(t) ==
    /\ ~IsTerminal(task[t])
    /\ FailAndRoute(t, FailTask(task[t], FALSE))
    /\ UNCHANGED <<resumes, progress, engine, posts, orphans, cutoff>>

StopGracePasses(t) ==
    /\ IsStopping(task[t])
    /\ task' = [task EXCEPT ![t].stopOver = TRUE]
    /\ UNCHANGED <<resumes, progress, routers, engine, posts, orphans, cutoff>>

(* Mutant: the marker is dropped, and nobody routes. *)
TransitCheckNoRoute(t) ==
    /\ task[t].stopping # 0 /\ task[t].stopOver
    /\ task' = [task EXCEPT ![t].stopping = 0, ![t].stopOver = FALSE]
    /\ UNCHANGED <<resumes, progress, routers, engine, posts, orphans, cutoff>>

(* _transit_check_due_locked: the worker never reported, route without it. *)
TransitCheck(t) ==
    LET r == [task[t] EXCEPT !.stopping = 0, !.stopOver = FALSE] IN
    /\ task[t].stopping # 0 /\ task[t].stopOver
    /\ IF r.route = "routed"
       THEN task' = [task EXCEPT ![t] = r] /\ UNCHANGED routers
       ELSE FailAndRoute(t, r)
    /\ UNCHANGED <<resumes, progress, engine, posts, orphans, cutoff>>

-----------------------------------------------------------------------------
(* Engine processes stop, start and register; their orphans are settled. *)

(* A crash, or a graceful stop that still posts some of its shutdown reports. *)
ProcessStops(w) ==
    LET mine == {h \in held : h[1] = w} IN
    /\ proc[w] # "down"
    /\ proc' = [proc EXCEPT ![w] = "down"]
    /\ held' = held \ mine
    /\ \E posted \in SUBSET mine :
           posts' = posts \union
               {[task |-> h[2], claim |-> h[3], result |-> "shutdown"] : h \in posted}
    /\ UNCHANGED <<task, resumes, progress, routers, starts, orphans, cutoff>>

ProcessStarts(w) ==
    /\ proc[w] = "down" /\ starts[w] < MaxStarts
    /\ proc' = [proc EXCEPT ![w] = "starting"]
    /\ starts' = [starts EXCEPT ![w] = @ + 1]
    /\ UNCHANGED <<task, resumes, progress, routers, held, posts, orphans, cutoff>>

(* Mutant: the task runs, under whatever claim. *)
RunningClaimsAny(claims) == {o \in claims : task[o[1]].status = "running"}

RunningClaims(claims) ==
    {o \in claims : task[o[1]].status = "running" /\ task[o[1]].claim = o[2]}

(* First half of register_engine: the new generation is known, the running   *)
(* claims of the old one are collected.                                      *)
RegisterEngine(w) ==
    /\ proc[w] = "starting"
    /\ proc' = [proc EXCEPT ![w] = "registering"]
    /\ orphans' = [orphans EXCEPT ![w] =
           {o \in Tasks \X ClaimIds :
               /\ task[o[1]].status = "running" /\ task[o[1]].claim = o[2]
               /\ task[o[1]].worker = w}]
    /\ task' = [t \in Tasks |->
           IF task[t].worker = w /\ task[t].status \in {"pending", "suspended"}
           THEN [task[t] EXCEPT !.worker = NoWorker, !.lease = "none"] ELSE task[t]]
    /\ UNCHANGED <<resumes, progress, routers, starts, held, posts, cutoff>>

(* The registration never reached the supervisor, failed or timed out: the    *)
(* engine polls for tasks all the same.                                       *)
RegistrationGivenUp(w) ==
    /\ proc[w] \in {"starting", "registering"}
    /\ proc' = [proc EXCEPT ![w] = "ready"]
    /\ UNCHANGED <<task, resumes, progress, routers, starts, held, posts, orphans, cutoff>>

(* pm.stop_engine() has returned: stopped_at. *)
EnginesStopped ==
    /\ \A w \in Workers : proc[w] = "down"
    /\ cutoff' = {o \in Tasks \X ClaimIds : o \in RunningClaims({o})}
    /\ UNCHANGED <<task, resumes, progress, routers, engine, posts, orphans>>

(* First half of settle_orphaned_tasks(claimed_before=stopped_at). *)
CollectRestartOrphans ==
    /\ cutoff # {}
    /\ orphans' = [orphans EXCEPT ![Restart] = RunningClaims(cutoff)]
    /\ cutoff' = {}
    /\ UNCHANGED <<task, resumes, progress, routers, engine, posts>>

(* settle_orphans_locked, one orphan: requeued when its node continues by     *)
(* itself and something was written, else cancelled (silent) or failed.       *)
SettledOrphan(t, routed) ==
    LET r == task[t] IN
    IF t \in progress /\ RequeueCandidate(t, r) THEN Requeue(r)
    ELSE IF t \in Silent THEN CancelTask(r, TRUE)
    ELSE [FailTask(r, TRUE) EXCEPT !.route = routed[t]]

(* Second half of both, under the lock again: claims that changed meanwhile   *)
(* are left alone.  The requeue candidates are looked up at both ends of the   *)
(* unlocked read; nothing makes a task a candidate again, so the second look   *)
(* decides.  A route that raises ends the loop: the orphans after it    *)
(* keep running until the reaper takes them.  A route left "pending" has been  *)
(* handed to a branch thread.                                                  *)
SettleOrphans(x) ==
    LET found == {o[1] : o \in RunningClaims(orphans[x])} IN
    /\ orphans[x] # {}
    /\ \E settled \in SUBSET found, routed \in [found -> {"pending", "routed", "failed"}] :
        LET raised == {t \in settled : SettledOrphan(t, routed).route = "failed"
                                       /\ SettledOrphan(t, routed).status = "failed"}
            threads == {t \in settled : SettledOrphan(t, routed).status = "failed"
                                        /\ routed[t] = "pending"}
        IN
        /\ IF settled = found THEN Cardinality(raised) <= 1 ELSE Cardinality(raised) = 1
        /\ \A t \in threads : routers[t] < MaxRouters
        /\ task' = [t \in Tasks |-> IF t \in settled THEN SettledOrphan(t, routed) ELSE task[t]]
        /\ routers' = [t \in Tasks |-> IF t \in threads THEN routers[t] + 1 ELSE routers[t]]
    /\ orphans' = [orphans EXCEPT ![x] = {}]
    /\ proc' = IF x \in Workers /\ proc[x] = "registering"
               THEN [proc EXCEPT ![x] = "ready"] ELSE proc
    /\ UNCHANGED <<resumes, progress, starts, held, posts, cutoff>>

RegisteredWithoutOrphans(w) ==
    /\ proc[w] = "registering" /\ orphans[w] = {}
    /\ proc' = [proc EXCEPT ![w] = "ready"]
    /\ UNCHANGED <<task, resumes, progress, routers, starts, held, posts, orphans, cutoff>>

-----------------------------------------------------------------------------
EngineStep(w) ==
    \/ \E t \in Tasks : AssignNextTask(w, t)
    \/ \E t \in Tasks, c \in ClaimIds :
        \/ RenewLease(w, t, c)
        \/ WriteStep(w, t, c)
        \/ WorkerFinishes(w, t, c)
        \/ StopRefused(w, t, c)
    \/ ProcessStops(w)
    \/ ProcessStarts(w)
    \/ RegisterEngine(w)
    \/ RegistrationGivenUp(w)
    \/ RegisteredWithoutOrphans(w)

ReportStep == \E p \in posts : ReportAccepted(p) \/ ReportOnEnded(p) \/ ReportGone(p)

TaskStep(t) ==
    \/ LeaseLapses(t)
    \/ RouteCompleted(t)
    \/ ResumeSuspended(t)
    \/ Cancel(t)
    \/ Fail(t)
    \/ StopGracePasses(t)
    \/ TransitCheck(t)

RestartStep == EnginesStopped \/ CollectRestartOrphans \/ \E x \in Owners : SettleOrphans(x)

Next ==
    \/ \E w \in Workers : EngineStep(w)
    \/ ReportStep
    \/ \E t \in Tasks : TaskStep(t)
    \/ RestartStep

Spec == Init /\ [][Next]_vars

(* Time passes, the housekeeping thread reaps every round, the transit timer  *)
(* fires, and a thread that left the lock to route a completion gets to run.  *)
(* A lease must lapse only when nobody can renew it: its process is gone or   *)
(* the renewal is refused.  Nothing is assumed of the engines themselves.     *)
Renewable(t) ==
    /\ ~task[t].cancelReq
    /\ \E w \in Workers : <<w, t, task[t].claim>> \in held

ReapLapsed(t) == task[t].lease = "lapsed" /\ Fail(t)

Fairness ==
    \A t \in Tasks :
        /\ WF_vars(~Renewable(t) /\ LeaseLapses(t))
        /\ WF_vars(ReapLapsed(t))
        /\ WF_vars(StopGracePasses(t))
        /\ WF_vars(TransitCheck(t))
        /\ WF_vars(RouteCompleted(t))

FairSpec == Spec /\ Fairness

-----------------------------------------------------------------------------
(* SingleExecution: however claims are lost, requeued, reported late or        *)
(* settled twice, no two engine processes ever execute the same task at once   *)
(* (a requeued or resumed task is handed out only when nobody runs it).        *)
SingleExecution ==
    \A g, h \in held : g[2] = h[2] => g = h

(* QuietWhenQueued: nobody executes a task that waits in the queue, is         *)
(* suspended or completed: what is handed out next starts from a conversation  *)
(* nobody else writes to, whichever requeue, resume or late report put it there. *)
QuietWhenQueued ==
    \A h \in held : task[h[2]].status \notin {"pending", "suspended", "completed"}

(* BoundedReexecution: a task is handed out once, once more for every time a   *)
(* suspension resumed it, and at most once more after an interruption: neither *)
(* crash loops nor repeated registrations re-run the work.                     *)
BoundedReexecution ==
    \A t \in Tasks : task[t].claim <= 1 + resumes[t] + (IF task[t].requeued THEN 1 ELSE 0)

(* NoResurrection: once the outcome of a task is out (failed, cancelled, or    *)
(* completed with anything but a dispatch) no late report, re-pushed route,    *)
(* orphan settlement or cancel changes it.                                     *)
Over(r) ==
    \/ r.status \in {"failed", "cancelled"}
    \/ r.status = "completed" /\ r.action # "dispatch"

NoResurrection ==
    [][\A t \in Tasks : Over(task[t]) =>
          task'[t].status = task[t].status /\ task'[t].action = task[t].action]_vars

(* CancelSticks: a task whose cancel was requested never completes, is never   *)
(* suspended, requeued or handed out again, not even when the request lands    *)
(* between its dispatch report and the route of that report.                   *)
CancelSticks ==
    [][\A t \in Tasks : task[t].cancelReq =>
          /\ task'[t].cancelReq
          /\ task'[t].status \in {task[t].status, "cancelled", "failed"}]_vars

(* RouteWaitsForTheWorker: what _fail_task_locked says of the route of a task  *)
(* whose worker may still run: it waits until the worker reports, or the grace *)
(* is over.                                                                    *)
RouteWaitsForTheWorker ==
    \A t \in Tasks : IsStopping(task[t]) => task[t].route = "pending"

(* OnlyWaitingThreadsRouteEarly: what does route a task in its stop grace is a *)
(* thread that already waited in the task's route slot when it was failed; no  *)
(* failure, reap, transit check, settlement or late report starts such a route. *)
OnlyWaitingThreadsRouteEarly ==
    [][\A t \in Tasks :
          IsStopping(task'[t]) /\ task'[t].route # "pending" =>
              \/ IsStopping(task[t]) /\ task[t].route # "pending"
              \/ IsStopping(task[t]) /\ routers[t] > 0]_vars

(* AbandonedTaskLeaves: a task that runs while no process executes it (lost    *)
(* assignment, dead process, lost report) does not stay running.               *)
AbandonedTaskLeaves ==
    \A t \in Tasks : []<>(task[t].status # "running" \/ Renewable(t))

(* CancelledTaskEnds: a cancel request on a running task ends it, whether its  *)
(* worker answers or not.                                                      *)
CancelledTaskEnds ==
    \A t \in Tasks : (task[t].cancelReq /\ ~IsTerminal(task[t])) ~> IsTerminal(task[t])

(* EveryOutcomeIsRouted: a completion that is to be routed is tried, also one  *)
(* that was deferred for a worker which never reports: its route ends up       *)
(* recorded, or a thread of its own gave up before it had anything to record.  *)
EveryOutcomeIsRouted ==
    \A t \in Tasks :
        (IsTerminal(task[t]) /\ task[t].delivery /\ task[t].route = "pending")
            ~> (task[t].route # "pending" \/ task[t].unrecorded)
=============================================================================
