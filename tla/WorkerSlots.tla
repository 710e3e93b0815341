----------------------------- MODULE WorkerSlots -----------------------------
(***************************************************************************)
(* Who may take a task, and how many run: the worker loop of an engine and  *)
(* its slots (engine/runner.py, engine/worker_slots.py), the reports of its *)
(* tools that they wait for an approval (toolbox/approval_wait.py,          *)
(* toolbox/context.py), and the supervisor's side: the lanes               *)
(* (supervisor/task_lanes.py, task_store.py) and the approvals              *)
(* (supervisor/state.py).                                                  *)
(*                                                                         *)
(* Tasks are numbered in queue order, runs (one per claim) in the order the *)
(* supervisor hands them out, calls of tools that need an approval in the   *)
(* order they start.  An approval has the number of the call it was made    *)
(* for.                                                                    *)
(***************************************************************************)
EXTENDS Integers, FiniteSetsExt

CONSTANTS
    NTasks, NEngines,
    Fast, Background,       \* tasks of these lanes; the others are interactive
    MaxWorkers, MaxActive,  \* slots of an engine; the same with parked tasks
    BackgroundMax,          \* background_max_running, 0: no limit
    Reserve,                \* interactive_reserve
    MaxCalls,               \* bound: calls of tools that need an approval
    MaxBreaks               \* bound: suspended tasks, lost answers and reports, lapsed leases, crashes

ASSUME LimitsAssumption ==
    /\ NTasks \in Nat /\ NEngines \in Nat
    /\ Fast \subseteq Nat /\ Background \subseteq Nat /\ Fast \intersect Background = {}
    /\ MaxWorkers \in Nat \ {0} /\ MaxActive \in Nat /\ MaxActive >= MaxWorkers
    /\ BackgroundMax \in Nat /\ Reserve \in Nat
    /\ MaxCalls \in Nat /\ MaxBreaks \in Nat

Tasks == 1..NTasks
Engines == 1..NEngines
Runs == 1..(NTasks + NTasks * MaxBreaks)    \* one break requeues at most all tasks
Calls == 1..MaxCalls
None == 0

VARIABLES
    task,       \* the supervisor's tasks
    approval,   \* the supervisor's approvals
    loop,       \* the worker loop of each engine
    run,        \* claimed tasks in the engines, with their slots
    call,       \* tool calls
    breaks

vars == <<task, approval, loop, run, call, breaks>>

HasSlot == {"live", "stopping"}

TypeOK ==
    /\ task \in [Tasks -> [st: {"pending", "running", "suspended", "over"},
                           claim: Runs \union {None}, asked: BOOLEAN, requeued: BOOLEAN]]
    /\ \A t \in Tasks : task[t].claim # None <=> task[t].st = "running"
    /\ approval \in [Calls -> [st: {"none", "pending", "decided"},
                               task: Tasks \union {None}, claim: Runs \union {None}]]
    /\ loop \in [Engines -> [at: {"idle", "asked", "answered", "down"},
                             free: 0..MaxWorkers, run: Runs \union {None}]]
    /\ run \in [Runs -> [st: {"none", "sent", "over"} \union HasSlot, task: Tasks \union {None},
                         eng: Engines \union {None}, waits: Nat, parked: BOOLEAN]]
    /\ \A i \in Runs : run[i].waits > 0 => run[i].st \in HasSlot
    /\ call \in [Calls -> [st: {"none", "ready", "asked", "waiting", "over"},
                           run: Runs \union {None}, task: Tasks \union {None}, eng: Engines \union {None},
                           relayed: BOOLEAN, on: Calls \union {None}]]
    /\ breaks \in 0..MaxBreaks

IdleLoop == [at |-> "idle", free |-> 0, run |-> None]
NoRun == [st |-> "none", task |-> None, eng |-> None, waits |-> 0, parked |-> FALSE]
NoCall == [st |-> "none", run |-> None, task |-> None, eng |-> None,
           relayed |-> FALSE, on |-> None]
Queued == [st |-> "pending", claim |-> None, asked |-> FALSE, requeued |-> FALSE]
TaskOver == [Queued EXCEPT !.st = "over"]
CallOver == [NoCall EXCEPT !.st = "over"]
NoApproval == [st |-> "none", task |-> None, claim |-> None]
Decided == [NoApproval EXCEPT !.st = "decided"]

Init ==
    /\ task = [t \in Tasks |-> Queued]
    /\ approval = [a \in Calls |-> NoApproval]
    /\ loop = [e \in Engines |-> IdleLoop]
    /\ run = [i \in Runs |-> NoRun]
    /\ call = [c \in Calls |-> NoCall]
    /\ breaks = 0

Break == breaks < MaxBreaks /\ breaks' = breaks + 1

-----------------------------------------------------------------------------
(* The engine's slots.                                                       *)

Slots(e) == {i \in Runs : run[i].eng = e /\ run[i].st \in HasSlot}
Parked(i) == run[i].waits > 0

RunningUntilStopped(e) == {i \in Slots(e) : ~Parked(i) /\ run[i].st = "live"}

(* A task that was cancelled keeps its slot until its work has stopped.       *)
Running(e) == {i \in Slots(e) : ~Parked(i)}

(* free_slots(): 0 when tasks that resumed after an approval fill more.       *)
FreeSlots(e) ==
    Max({0, Min({MaxWorkers - Cardinality(Running(e)), MaxActive - Cardinality(Slots(e))})})

(* _approval_wait(): a slot after a report, ignored once it is released.      *)
Reported(r, n) ==
    IF r.st \notin HasSlot THEN r
    ELSE LET w == Max({0, r.waits + n}) IN [r EXCEPT !.waits = w, !.parked = @ \/ w > 0]

RunOver(r) == [NoRun EXCEPT !.st = "over", !.eng = r.eng]

(* Work that belongs to the task and keeps it from ending.                   *)
OwnCalls(i) == {c \in Calls : call[c].run = i}

-----------------------------------------------------------------------------
(* The supervisor's choice of the next task.                                 *)

Pending(t) == task[t].st = "pending"

AskedEver(a) == TRUE

(* _asked_in_current_claim()                                                 *)
AskedInCurrentClaim(a) == approval[a].claim = task[approval[a].task].claim

Awaiting(t) == \E a \in Calls :
    approval[a].st = "pending" /\ approval[a].task = t /\ AskedInCurrentClaim(a)

(* _background_running_locked()                                              *)
BackgroundRunning ==
    {t \in Tasks \intersect Background : task[t].st = "running" /\ ~Awaiting(t)}

TakesAtReserve(free) == free >= Reserve \/ free >= MaxWorkers

WorkerTakesBackground(free) == free > Reserve \/ free >= MaxWorkers

BackgroundHasRoom == BackgroundMax = 0 \/ Cardinality(BackgroundRunning) < BackgroundMax

LaneRank(t) == IF t \in Fast THEN 1 ELSE IF t \in Background THEN 3 ELSE 2

HeadOfLane(t) == Pending(t) /\ \A u \in Tasks : Pending(u) /\ LaneRank(u) = LaneRank(t) => t <= u

Claimable(t, free) ==
    HeadOfLane(t) /\ (t \in Background => WorkerTakesBackground(free) /\ BackgroundHasRoom)

(* _next_claimable_task_locked()                                             *)
NextClaimable(free) == {t \in Tasks : /\ Claimable(t, free)
                                      /\ \A u \in Tasks : Claimable(u, free) => LaneRank(t) <= LaneRank(u)}

-----------------------------------------------------------------------------
(* Claiming.                                                                 *)

(* The loop counts its free slots and sends them with GET /v1/tasks/next.     *)
Poll(e) ==
    /\ loop[e].at = "idle" /\ FreeSlots(e) > 0
    /\ loop' = [loop EXCEPT ![e] = [at |-> "asked", free |-> FreeSlots(e), run |-> None]]
    /\ UNCHANGED <<task, approval, run, call, breaks>>

(* assign_next_task()                                                        *)
Answer(e) ==
    /\ loop[e].at = "asked"
    /\ LET found == NextClaimable(loop[e].free) IN
       \/ /\ found = {}
          /\ loop' = [loop EXCEPT ![e] = IdleLoop]
          /\ UNCHANGED <<task, run>>
       \/ \E t \in found, i \in Runs :
          /\ run[i].st = "none" /\ \A j \in Runs : j < i => run[j].st # "none"
          /\ task' = [task EXCEPT ![t] = [@ EXCEPT !.st = "running", !.claim = i, !.asked = FALSE]]
          /\ run' = [run EXCEPT ![i] = [NoRun EXCEPT !.st = "sent", !.task = t, !.eng = e]]
          /\ loop' = [loop EXCEPT ![e] = [at |-> "answered", free |-> 0, run |-> i]]
    /\ UNCHANGED <<approval, call, breaks>>

Start(e) ==
    /\ loop[e].at = "answered"
    /\ run' = [run EXCEPT ![loop[e].run].st = "live"]
    /\ loop' = [loop EXCEPT ![e] = IdleLoop]
    /\ UNCHANGED <<task, approval, call, breaks>>

(* The request times out, the engine never learns what it was given.         *)
LoseAnswer(e) ==
    /\ Break /\ loop[e].at = "answered"
    /\ run' = [run EXCEPT ![loop[e].run] = RunOver(@)]
    /\ loop' = [loop EXCEPT ![e] = IdleLoop]
    /\ UNCHANGED <<task, approval, call>>

-----------------------------------------------------------------------------
(* Tool calls and their approvals.                                           *)

(* create_approval(): a repeated call of a standalone tool task has the same  *)
(* fingerprint as the one of an earlier claim and gets that approval back.    *)
SameFingerprint(c, t) ==
    {a \in Calls : a < c /\ approval[a].st = "pending" /\ approval[a].task = t}

(* request_guard() of the call that C becomes, for task t.                   *)
Request(c, C, t) ==
    \/ /\ call' = [call EXCEPT ![c] = [C EXCEPT !.st = "asked", !.on = c]]
       /\ approval' = [approval EXCEPT ![c] =
              [st |-> "pending", task |-> t, claim |-> task[t].claim]]
       /\ task' = [task EXCEPT ![t].asked = @ \/ (t \in Background /\ task[t].st = "running")]
    \/ \E a \in SameFingerprint(c, t) :
       /\ call' = [call EXCEPT ![c] = [C EXCEPT !.st = "asked", !.on = a]]
       /\ UNCHANGED <<task, approval>>

(* run is None for a call in the background: it belongs to no run any more.    *)
CallOf(i) == [NoCall EXCEPT !.run = i, !.task = run[i].task, !.eng = run[i].eng]
InBackground(C) == [C EXCEPT !.run = None, !.relayed = FALSE]

IsNextCall(c) == call[c].st = "none" /\ \A d \in Calls : d < c => call[d].st # "none"

(* An ordinary call of a live task, or a command that may move to the         *)
(* background, comes to the point where it needs an approval.                *)
BeginCall(i) ==
    /\ run[i].st = "live"
    /\ \E c \in Calls, relayed \in BOOLEAN :
          IsNextCall(c) /\ Request(c, [CallOf(i) EXCEPT !.relayed = relayed], run[i].task)
    /\ UNCHANGED <<loop, run, breaks>>

(* A tool that runs in the background from the start.                        *)
BeginAsync(i) ==
    /\ run[i].st = "live"
    /\ \E c \in Calls :
          /\ IsNextCall(c)
          /\ call' = [call EXCEPT ![c] = [InBackground(CallOf(i)) EXCEPT !.st = "ready"]]
    /\ UNCHANGED <<task, approval, loop, run, breaks>>

(* It asks whenever it gets there: its task may have ended or run again.     *)
AskAsync(c) ==
    /\ call[c].st = "ready" /\ Request(c, call[c], call[c].task)
    /\ UNCHANGED <<loop, run, breaks>>

(* A report of the call goes to the listener of its context: the slot, a       *)
(* relay that passes it on to the slot, or nobody.                           *)
ReportedBy(c, n) ==
    IF call[c].run = None THEN run ELSE [run EXCEPT ![call[c].run] = Reported(@, n)]

BeginWait(c) ==
    /\ call[c].st = "asked" /\ (call[c].run # None => run[call[c].run].st = "live")
    /\ call' = [call EXCEPT ![c].st = "waiting"]
    /\ run' = ReportedBy(c, 1)
    /\ UNCHANGED <<task, approval, loop, breaks>>

(* The wait is over: decided, its task cancelled, or timed out; a call that   *)
(* times out denies its approval, if it can.                                 *)
EndWait(c) ==
    /\ call[c].st = "waiting"
    /\ call' = [call EXCEPT ![c] = CallOver]
    /\ run' = ReportedBy(c, -1)
    /\ \/ UNCHANGED approval
       \/ approval' = [approval EXCEPT ![call[c].on] = Decided]
    /\ UNCHANGED <<task, loop, breaks>>

(* Allowed or denied without an approval, or cancelled before the wait.      *)
EndCall(c) ==
    /\ call[c].st \in {"ready", "asked"}
    /\ call' = [call EXCEPT ![c] = CallOver]
    /\ UNCHANGED <<task, approval, loop, run, breaks>>

DetachedSilently(c) == run

(* detach(): a wait that is still open is reported as ended.                 *)
Detached(c) == IF call[c].st = "waiting" THEN ReportedBy(c, -1) ELSE run

(* The threshold passes: the command goes on in the background.              *)
Upgrade(c) ==
    /\ call[c].st \in {"asked", "waiting"} /\ call[c].relayed
    /\ run[call[c].run].st = "live"
    /\ run' = Detached(c)
    /\ call' = [call EXCEPT ![c] = InBackground(@)]
    /\ UNCHANGED <<task, approval, loop, breaks>>

(* decide_approval()                                                         *)
Decide(a) ==
    /\ approval[a].st = "pending"
    /\ approval' = [approval EXCEPT ![a] = Decided]
    /\ UNCHANGED <<task, loop, run, call, breaks>>

WaitedOn(a) == \E c \in Calls : call[c].on = a /\ call[c].st \in {"asked", "waiting"}

SweepsOfLiveTasks(a) == ~WaitedOn(a) /\ task[approval[a].task].st # "over"

(* _close_orphaned_approvals_locked(); those of a failed task went with it. *)
Sweeps(a) == ~WaitedOn(a)

ClosesApprovals(S) ==
    approval' = [a \in Calls |-> IF approval[a].task \in S THEN Decided ELSE approval[a]]

Sweep(a) ==
    /\ approval[a].st = "pending" /\ Sweeps(a)
    /\ approval' = [approval EXCEPT ![a] = Decided]
    /\ UNCHANGED <<task, loop, run, call, breaks>>

-----------------------------------------------------------------------------
(* Endings.                                                                  *)

(* The coroutine is cancelled: ordinary calls unwind with it, a command that  *)
(* had not moved yet is told to stop and reports when it does.               *)
Interrupt(i) ==
    /\ run[i].st = "live" /\ OwnCalls(i) # {}
    /\ LET unwound == {c \in OwnCalls(i) : ~call[c].relayed}
           reports == {c \in unwound : call[c].st = "waiting"} IN
       /\ call' = [c \in Calls |-> IF c \in unwound THEN CallOver ELSE call[c]]
       /\ run' = [run EXCEPT ![i] = [Reported(@, -Cardinality(reports)) EXCEPT !.st = "stopping"]]
    /\ UNCHANGED <<task, approval, loop, breaks>>

WorkIsDone(i) == run[i].st = "stopping" \/ (run[i].st = "live" /\ OwnCalls(i) = {})

(* The end of a task: a failure closes all its approvals, also those a call    *)
(* in the background waits for.                                              *)
Ends(t) ==
    /\ task' = [task EXCEPT ![t] = TaskOver]
    /\ \/ UNCHANGED approval
       \/ ClosesApprovals({t})

(* The report, after which the slot is given back.  It is refused if the      *)
(* claim is not current.                                                     *)
Post(i) ==
    /\ WorkIsDone(i)
    /\ run' = [run EXCEPT ![i] = RunOver(@)]
    /\ IF task[run[i].task].claim = i THEN Ends(run[i].task) ELSE UNCHANGED <<task, approval>>
    /\ UNCHANGED <<loop, call, breaks>>

LosePost(i) ==
    /\ Break /\ WorkIsDone(i)
    /\ run' = [run EXCEPT ![i] = RunOver(@)]
    /\ UNCHANGED <<task, approval, loop, call>>

Suspended(r) == [r EXCEPT !.st = "suspended", !.claim = None, !.asked = FALSE]

(* The task hands out work and waits for it; what it left in the background   *)
(* goes on, and so do the approvals asked for there.                         *)
Suspend(i) ==
    /\ run[i].st = "live" /\ OwnCalls(i) = {} /\ task[run[i].task].claim = i
    /\ Break
    /\ run' = [run EXCEPT ![i] = RunOver(@)]
    /\ task' = [task EXCEPT ![run[i].task] = Suspended(@)]
    /\ UNCHANGED <<approval, loop, call>>

Resume(t) ==
    /\ task[t].st = "suspended"
    /\ task' = [task EXCEPT ![t].st = "pending"]
    /\ UNCHANGED <<approval, loop, run, call, breaks>>

(* The reaper fails a task whose lease has lapsed: nobody works on it, or an   *)
(* engine that cannot renew does and finds out later.                        *)
Reaped(t) ==
    /\ task[t].st = "running"
    /\ task' = [task EXCEPT ![t] = TaskOver]
    /\ ClosesApprovals({t})
    /\ UNCHANGED <<loop, run, call>>

Reap(t) == Reaped(t) /\ run[task[t].claim].st = "over" /\ UNCHANGED breaks

LeaseLapses(t) == Reaped(t) /\ Break

(* The process dies with its slots, its tools and its request.                *)
Crash(e) ==
    /\ Break /\ loop[e].at # "down"
    /\ loop' = [loop EXCEPT ![e] = [IdleLoop EXCEPT !.at = "down"]]
    /\ run' = [i \in Runs |-> IF run[i].eng = e THEN RunOver(run[i]) ELSE run[i]]
    /\ call' = [c \in Calls |-> IF call[c].eng = e THEN CallOver ELSE call[c]]
    /\ UNCHANGED <<task, approval>>

(* register_engine() of the next process: what the dead one had claimed is    *)
(* requeued once, if it had got anywhere, or fails.                          *)
Register(e) ==
    /\ loop[e].at = "down"
    /\ loop' = [loop EXCEPT ![e] = IdleLoop]
    /\ LET orphans == {t \in Tasks : task[t].st = "running" /\ run[task[t].claim].eng = e} IN
       \E again \in SUBSET {t \in orphans : ~task[t].requeued} :
          /\ task' = [t \in Tasks |->
                 IF t \in again THEN [Queued EXCEPT !.requeued = TRUE]
                 ELSE IF t \in orphans THEN TaskOver ELSE task[t]]
          /\ ClosesApprovals(orphans \ again)
    /\ UNCHANGED <<run, call, breaks>>

-----------------------------------------------------------------------------
Next ==
    \/ \E t \in Tasks : Resume(t) \/ Reap(t) \/ LeaseLapses(t)
    \/ \E e \in Engines : Poll(e) \/ Answer(e) \/ Start(e) \/ LoseAnswer(e)
                          \/ Crash(e) \/ Register(e)
    \/ \E c \in Calls : AskAsync(c) \/ BeginWait(c) \/ EndWait(c) \/ EndCall(c) \/ Upgrade(c)
                        \/ Decide(c) \/ Sweep(c)
    \/ \E i \in Runs : BeginCall(i) \/ BeginAsync(i) \/ Interrupt(i) \/ Post(i) \/ LosePost(i)
                       \/ Suspend(i)

Spec == Init /\ [][Next]_vars

(* The loop polls while it runs, approvals time out and housekeeping sweeps   *)
(* every round, tasks end, leases of lost runs lapse.  Calls, runs and        *)
(* suspensions are bounded, so one of each kind at a time is enough.             *)
FairSpec ==
    /\ Spec
    /\ \A e \in Engines : WF_vars(Poll(e) \/ Answer(e) \/ Start(e) \/ Register(e))
    /\ WF_vars(\E c \in Calls : BeginWait(c) \/ EndWait(c) \/ EndCall(c))
    /\ WF_vars(\E i \in Runs : Post(i))
    /\ WF_vars(\E c \in Calls : Sweep(c))
    /\ WF_vars(\E t \in Tasks : Resume(t) \/ Reap(t))

-----------------------------------------------------------------------------
(* Properties.                                                               *)

(* A slot is parked exactly while a call its task still has to wait for waits *)
(* for an approval: not for a command that has moved to the background, a     *)
(* wait that was open when it moved, or a report that came late.              *)
ParkedWhileItsCallsWait ==
    \A i \in Runs : run[i].st \in HasSlot =>
        run[i].waits = Cardinality({c \in OwnCalls(i) : call[c].st = "waiting"})

(* An engine never holds more than MaxActive tasks, and more than MaxWorkers  *)
(* run only because some of them resumed after an approval.                   *)
SlotsWithinLimits ==
    \A e \in Engines :
        /\ Cardinality(Slots(e)) <= MaxActive
        /\ Cardinality({i \in Slots(e) : ~run[i].parked}) <= MaxWorkers

(* Tasks of the background lane that never waited for an approval leave the   *)
(* reserve of their engine free, or are alone on an engine that has no slot   *)
(* beyond the reserve: also with a count of free slots that is out of date    *)
(* and with old runs the supervisor no longer knows.                          *)
ReserveKept ==
    \A e \in Engines :
        Cardinality({i \in Slots(e) : run[i].task \in Background /\ ~run[i].parked})
            <= IF MaxWorkers > Reserve THEN MaxWorkers - Reserve ELSE 1

(* More than background_max_running tasks of the background lane run only     *)
(* because an approval was asked for since some of them were claimed: one     *)
(* that an earlier claim left behind excuses nobody.                          *)
BackgroundCap ==
    BackgroundMax > 0 =>
        Cardinality({t \in Tasks \intersect Background : task[t].st = "running" /\ ~task[t].asked})
            <= BackgroundMax

(* Every queued task ends, whatever its lane, and no approval stays open that *)
(* nobody waits for, also not one left by a run whose task runs again: parked *)
(* tasks, the reserve and the cap hold nothing back forever.                  *)
EverythingSettles ==
    <>[](/\ \A t \in Tasks : task[t].st = "over"
         /\ \A a \in Calls : approval[a].st # "pending")

=============================================================================
