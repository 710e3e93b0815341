# Verification of kazebot

kazebot runs an assistant for chat platforms: a *supervisor* process keeps
sessions, tasks, approvals and the event log; *engine* processes poll it over
HTTP for tasks and run the model loop and its tools; *adapters* bring in
messages and deliver replies. This directory holds TLA+ models of the parts
where processes, threads, timers and crashes meet, the TLC runs that check
small instances of them, and theorems that TLAPS proves for every value of the
constants.

Every definition that stands for code is listed in `PROJECT.json` under `map`
with the lines it was translated from. Paths below are relative to `src/`.

Contents: [1 The system](#1-the-system) ·
[2 The modules](#2-the-modules) · [3 The runs](#3-the-runs) ·
[4 Fairness](#4-fairness) · [5 The proofs](#5-the-proofs) ·
[6 Where code and comments disagree](#6-where-the-code-and-its-comments-disagree) ·
[7 Not modelled](#7-what-is-not-modelled) · [8 The plan](#8-the-plan)

## 1. The system

### 1.1 Components

| Component | State it keeps | Operations | What makes it correct |
|---|---|---|---|
| **Task store** `supervisor/task_store.py` | `Task` records: status, claim id and lease, cancel request, result, route status, stop marker, requeue flag, caller, `waits_for` | create, claim (`get_next_task`), renew, `complete_task`, `cancel_task`, fail, suspend, resume | a task runs in one place at a time; an outcome that is out does not change; a cancel is never lost; nothing stays running that nobody runs |
| **Endings** `supervisor/task_ending.py` | nothing of its own: reads the record | *does it continue*, *is it still writing*, *is its result open*, stop grace, transit grace | every consumer (router, reaper, file claims, timers) asks the same question the same way |
| **Reaper** `supervisor/task_reaper.py` | nothing of its own | fails what is queued, silent or running for too long; looks after suspended callers whose child is lost | every wait ends |
| **Requeue** `supervisor/task_requeue.py`, `auto_continue.py` | lists of orphans between collection and settlement | collect the tasks of a dead process, queue them once more or fail them | no double execution, no crash loop, no task forgotten |
| **Engine worker** `engine/runner.py` | claim being executed, heartbeat | register, claim, execute, heartbeat, report with retries, stop when refused | stops when its claim is gone |
| **Router** `supervisor/task_router.py` | route slots (one lock per task), event log snapshots | route a completion to its caller, to the user, or to new children; suspend and resume callers; batches; abandon a half-done dispatch; finalize the branch of an entry task | a completion is routed once; no child works for a caller that is over |
| **Async dispatches** `supervisor/async_dispatches.py` | ledger of results, open joins, due times | item deadlines, transit timers, joins, holds, hand-back, rebuild from the log | whoever waits is woken, and gets one result per item; no result is lost or read twice |
| **Branch finalize store** `supervisor/branch_finalize_store.py` | one SQLite row per branch: status, generation, owner, lease | begin, claim, heartbeat, fenced transaction, complete, fail | a stale owner can do nothing |
| **Conversation store** `engine/conversation_store.py` | one JSONL history per conversation | append under the conversation's lock, load, replace, purge | each branch message reaches the parent once |
| **Event log** `supervisor/eventlog.py` | JSONL event files, receipt table of delivery ids | append, load, rotate | one event per delivery id |
| **File claims** `supervisor/file_claims.py` | per path: holders with the time they took it | begin, record, release, end of task, sweeps | one writer per file, unless it waits for the other |
| **Stamp book** `toolbox/file_state.py` | per path and task, and per path and session: last version seen | read stamps, gate, commit under lock | no edit overwrites what its author has not seen |
| **File tools** `toolbox/builtins/read_file.py`, `write_file.py`, `_edit_flow.py` | the file | read, compare, replace | as above, also on every early return |
| **Lanes and slots** `supervisor/task_lanes.py`, `engine/worker_slots.py`, `toolbox/approval_wait.py` | queue of each lane; per engine the slots with their approval waits | count free slots, choose a task, park and resume, release | no engine above its size, a reserve for foreground work, a cap on background work, and nothing held back forever |
| **Approvals** `supervisor/state.py` | pending approvals with task and time | create or find, decide, close with the task, sweep | none stays open that nobody waits for |
| **Outbound** `clonoth_sdk/event_router.py`, `outbound_store.py`, `delivery_lanes.py` | receive cursor, one SQLite row per reply with owner and lease, a lane per conversation | receive, enqueue, scan, claim, retry, acknowledge, replay, prune | a reply that was received is delivered, in order, by one owner |
| **Send guard** `adapters/_shared/send_guard.py` | one claim per platform call, frozen plans | begin, wait, commit, release, mark ambiguous, prune | a message is not sent twice unless its fate is unknown |
| **Preemption** `supervisor/task_store.py`, `engine/builtin/preempt.py`, `engine/inference/`, `adapters/onebot/napcat/queueing.py` | one message slot per task with a revision; what the loop has read of it | offer to running tasks or submit, overwrite, look, write to the conversation, acknowledge | a message that was accepted is read by that task or accounted for, once, in order; otherwise it starts a task |
| **File lock** `file_lock.py` | OS locks | lock across processes | freed when its process dies |

The remaining components (sessions, worktrees, process supervision, scheduler,
execution plans, compaction, adapters, configuration, user interfaces, data
stores) are listed in `PROJECT.json` under `components` with the reason each is
left out or only partly there; section 7 sums them up.

### 1.2 How they interact

```
 adapter --inbound--> task store <--claim / heartbeat / report-- engine worker
                          |  ^                                        |
                          |  | resume, cancel, fail                   | begin edit / record
                          v  |                                        v
   timers, reaper -->  router  --finalize--> branch finalize     file claims + stamps
                          |                     store                 |
                          |                       |                   v
                          +--- event log <--------+            files (file locks)
                                   |
                                outbound --> adapter
```

- Engines and supervisor share nothing but HTTP: calls and answers are lost,
  repeated (`_post_with_retry`, three attempts) and late.
- Inside the supervisor, everything done under `self._lock` is atomic. What a
  handler does *after* it leaves the lock (routing a completion, settling
  orphans, reading conversations in `register_engine`) interleaves with all the
  rest. Two threads that want to route one task queue up in its *route slot*.
- A fenced route additionally holds a SQLite write transaction; merging a
  branch holds the parent's file lock. Both are freed when the process dies.
- Two supervisors may work on one workspace (an upgrade, a restart while the old
  process hangs): what they share is files and the SQLite row.
- The file tools run in engine processes and ask the supervisor's ledger over
  HTTP before and after they write.

### 1.3 The hard behaviours

`PROJECT.json` lists them under `hazards`, each at its line. In short:

- a claim that is lost, repeated, expired, taken over or settled twice while its
  worker still runs;
- a cancel or a failure that falls between a report and its route;
- a task that was failed while its worker is alive, whose outcome must wait for
  the worker to stop, and a timer or an old thread that routes it meanwhile;
- a caller with a batch of children that end, fail, time out, are reaped or
  cannot be routed in any order;
- a dispatch that breaks off half-way;
- a supervisor that stalls beyond its lease, or dies between two appends, inside
  the finalize protocol;
- an edit that is checked, then paused, then written, while claims move, tasks
  end and outside programs write;
- a result that settles while its caller joins it, is resumed, is cancelled or
  lets its round end, and may be pulled out of a round it was already put in;
- a message the platform accepted without saying so, a sender whose lease
  lapsed, two bots on one outbox, a cursor that runs ahead of the rows;
- a message that meets a task which is queued, thinking, writing its answer,
  about to finish or just gone, and is replaced while it is being read;
- a count of free slots that is old when it is used, a tool that waits for an
  approval and outlives its task, an approval left by an earlier claim.

## 2. The modules

```
TaskClaims ----- MCTaskClaims        TaskClaimsProofs
BranchMerge <-- BranchFinalize ----- MCBranchFinalize    BranchFinalizeProofs
DispatchTree --- MCDispatchTree      DispatchTreeProofs
FileEdits ------ MCFileEdits         FileEditsProofs
AsyncResults --- MCAsyncResults      AsyncResultsProofs
Outbound ------- MCOutbound          OutboundProofs
WorkerSlots ---- MCWorkerSlots       WorkerSlotsProofs
Preempt -------- MCPreempt           PreemptProofs
```

An `MC` module adds what only TLC needs (symmetry, views, definitions that give
constants a value). A `Proofs` module adds invariants, lemmas and theorems. A
few operators next to an action (`FailAndRouteAtOnce` beside `FailAndRoute`,
`LoadUnlocked` beside `Load`) are the wrong version of it that
`PROJECT.json` names under `mutants`: each property is known to fail when
such a version replaces the right one.

Common conventions: an action is everything a handler does under the lock. A
clock is never counted where only order matters: a lease is `live` or `lapsed`,
a grace is over or not, and the action that ends it may happen at any time the
code allows. Texts, hints, diffs, usage counts and logs are left out.

### 2.1 TaskClaims: one task, its claims, its reports

| Variable | Code |
|---|---|
| `task` | `Task`: `status`, `claim`, `worker`, `lease`, `cancelReq`, `action` (of `result`), `route`, `delivery`, `stopping`/`stopOver` (the stop marker and its grace), `requeued`; `unrecorded` is history: a route of this completion ended and left no trace |
| `routers` | threads that left `complete_task` on their way into the route slot |
| `proc` | the process of each worker id: stopped, starting, ready |
| `held` | which claims which process is executing |
| `posts` | reports on their way to the supervisor; delivered any number of times until given up |
| `orphans`, `cutoff` | claims collected by `register_engine` or a restart and not yet settled |
| `resumes`, `progress` | bookkeeping for the bounds and for "has written something" |

Actions: `AssignNextTask`, `RenewLease`, `LeaseLapses`, `WriteStep`,
`FinishTask`/`StopRefused` (the worker ends), `ReportAccepted`, `ReportOnEnded`,
`ReportGone`, `RouteCompleted`, `ResumeSuspended`, `Cancel`, `Fail` (timeouts,
reaper, queue expiry), `StopGracePasses`, `TransitCheck`, `ProcessStops`,
`ProcessStarts`, `RegisterEngine`, `SettleOrphans`, `EnginesStopped`,
`CollectRestartOrphans`. The lost answer of a claim is `AssignNextTask` without
an entry in `held`. A route may raise (`RouteFailed`), or end before it gets to
the record: its branch could not be prepared or claimed, or the claim was
deferred or lost (`RouteUnrecorded`); then it stays pending until the next
report, timer or restart.

The tree is not here: a dispatch suspends the task and the environment resumes
it. DispatchTree models what resumes it, with the claims reduced to "its worker
has a live lease or not".

### 2.2 BranchMerge and BranchFinalize: the branch of an entry task

`BranchMerge` is the promise: messages are copied to the parent, each once; the
branch is deleted only when all are there; the reply comes after that.

`BranchFinalize` is the protocol of `_finalize_branch_task`,
`_route_completed_task_with_branch` and `BranchFinalizeStore`, one step per
place where another process can get in between:

| Place `pc[s]` | The thread of supervisor `s` |
|---|---|
| `begin` → `claim` | reads the receipt and the row; creates the row |
| `owned` | holds the claim with generation `claim[s]` |
| `locked` | has the parent's file lock and has loaded both histories |
| `appended`, `merged` | has appended what was missing; has purged the branch |
| `indexed`, `held` | left the registry; opened the fenced transaction |
| `sent` | appended the reply, not committed |
| `route`, `plainSent` | the route without a claim (nothing to merge any more) |
| `raise`, `routeRaise` | an exception on its way out |

`Append` may stop after any subset of the messages (a torn append), `Crash` may
come anywhere and frees locks and transaction, `Boot` loads the snapshot and
re-pushes the route. `LeaseLapses` may come at any time, also while the owner
is between two statements. `PidsTell` says whether `Deferred` can tell that the
owner of an unexpired lease is dead; the runs set it to `FALSE`, so both answers
occur. `PrepareRaises` and `ClaimRaises` are the exceptions before the `try` of
`_finalize_branch_task`, `FailRaises` the one while a failure is recorded. The
receipt table of the event log is read at boot only: `seen[s]`. `gaps` is history,
four ways in which a route can end without what it promised: cut off between the
reply and its record (`"unfinished"`), run without a claim (`"unclaimed"`), ended
by an exception nobody recorded (`"unrecorded"`), deferred to a claim that nobody
holds (`"stranded"`).

### 2.3 DispatchTree: callers, children, batches

| Variable | Code |
|---|---|
| `task` | `Task`: `status`, `cancelReq`, `action`, `route`, `caller`, `waitsFor`, `batch`, `key` (which dispatch of its caller created it), `round`, `stopping`, `graceOver`, `watched` (a timer of the async registry will look at it), `told` (what its caller was handed) |
| `threads` | threads on their way to route each task |

The helpers are functions from records to records, named after the code:
`Continues`, `ResultOpen`, `InTransit` (task_ending.py), `SettleChild`,
`ResumeBatchIfSettled`, `CancelAll`, `RouteDispatch`, `RouteCompletion`,
`RouteNow`, `Withdrawn` (`_abandon_dispatch_locked`), `DiskFailures` (every
point of a dispatch at which a write of the event log may raise). Actions:
`Start`, `Report`, `ReportAgain`, `StopReported`, `RouteCompleted`, `Fail`,
`ItemTimesOut`, `ReapWaiting`, `Cancel`, `StopGracePasses`,
`TransitGracePasses`, `TransitCheck`.

Cancelling or failing a task cancels everything below it in the same action, as
`_cancel_descendants` does under the lock; `Below` is written as the smallest
set closed under *called by a member*, so that no recursion is needed and the
proofs can use it.

### 2.4 FileEdits: claims, stamps and the file

One path; claims, stamps and locks of different paths do not touch each other. A
version of the file is named by its writer, so comparing hashes is comparing
versions.

| Variable | Code |
|---|---|
| `status`, `caller`, `created`, `ended` | what `task_ending.py` says of a task; `stopping` is "failed, its worker may still write" |
| `since` | when the task took the claim; the holder list of a path, ordered by time, is `since` restricted to holders |
| `stamp`, `shared` | the task layer and the session layer of `StampBook` |
| `call` | a tool call: its phase, the stamp `begin` returned, what it saw |
| `lock`, `file` | the file's edit lock and the file |
| `recorded`, `inherited` | history: the versions a task has on record and those it started with |

A call goes `Begin` → (approval, `GiveUp`) → `Lock` → `Compare` → `Replace` →
`FinishEdit`, with `DiskError` and `AbandonEdit` for the ways out; a read is
`ReadFile` → `RecordRead`. `Sweep` is the cleaning that precedes the ledger's
operations. `Dispatch`, `HandBack`, `Resume`, `Fail`, `StopEnds`, `Crash`,
`CalledOff` move tasks as TaskClaims and DispatchTree do.

Known limits of the code that the properties state rather than hide: a write by
an outside program between the last comparison and `os.replace` is lost
(`NoBlindOverwrite` says so); a late worker whose task is over still writes, and
only stamps protect others from it.

Simplifications: `WaitsFor` follows callers without the code's cap of 32 steps;
the tools of one task run one after the other (`_is_parallel_safe` in
`engine/inference/ai_step.py` lets only reads run side by side); a cancellation
waits for the tool that is running; each element of `Calls` is used once.

### 2.5 AsyncResults: results of asynchronous dispatches

Rounds are the entry tasks of one node in one session; the sub-agents they
dispatch without waiting are the children, whose results go home to that
session. The operators are functions from the supervisor's memory to the memory
a handler leaves, named after the code (`Settle`, `HandBack`, `Deliver`,
`Withdrawable`, `Admit`, `Satisfied`); an action composes what its handler calls.

| Variable | Code |
|---|---|
| `round` | entry `Task` of the conversation: status, what its dispatch asked for, cancel request, the results its message carries, whether all were pulled out again |
| `child` | the dispatched `Task` and the route of its completion |
| `record`, `reserved` | `SettledDispatch`: known, delivered how, kept for whom; who awaited a child that still runs |
| `join` | `PendingJoin` of a suspended round: mode, pending, settled, collected earlier |
| `logged` | children whose `inbound_message` event is in the log, by delivery id |
| `handed`, `pulled` | history: how often the full result reached a model; results taken out of a queued round |

Actions: `UserMessage`, `ClaimRound`, `Dispatch`, `Report` (with the choice to
end, wait, await or compact), `RouteRound`, `ResumeSuspended`, `Fail`,
`CancelRound`, `ChildEnds`, `RouteChild`, `CancelChild`, `ResetChild`,
`TimerFires`.

### 2.6 Outbound: from the event log to the platform

One conversation, whose replies are all in the log from the start; the bots are
processes that share the outbox and the send guard's database.

| Variable | Code |
|---|---|
| `row` | a row of `outbound`: status, owner, lease live or not, its place in the back-off, the generation a forced replay changes |
| `received` | the durable cursor `received_seq` |
| `claim` | a row of the send guard: pending with owner and lease, sent, ambiguous |
| `bot`, `stream`, `lane`, `job` | the process, what it has read of its stream, its delivery lane, and where the lane's worker is in `_deliver_claimed_outbound` and `protected_claim_send` |
| `accepted`, `doubt`, `tried` | history: calls the platform accepted, why the fate of a call is not established, first attempts |

`Receive`, `ReceiveLosesCursor`, `Disconnect` and `Connect` are the stream;
`Scan`, `Pop`, `ClaimRow` the outbox; `Begin`, `Wait`, `SendAccepted`,
`SendUnknown`, `SendRefused`, `SendReset`, `Commit`, `CommitFails` the guard;
`Acknowledge`, `MarkFailed`, `MarkDeadLetter` and their failures the way out;
`Close`, `Stop`, `Crash` and `Start` the life of a process; leases and back-offs
end on their own; `ForceReplay` and `PruneSent` are the operator and the
housekeeping.

### 2.7 WorkerSlots: lanes, slots and approvals

| Variable | Code |
|---|---|
| `task` | the supervisor's `Task`, reduced to its status and current claim; `asked` records that it asked for an approval since it was claimed, `requeued` the one requeue |
| `approval` | `Approval`: pending or decided, the task, and the claim it was asked in (`requested_at` against `claimed_at`) |
| `loop` | the worker loop: idle, asked with the count of free slots it sent, answered |
| `run` | a claimed task in its engine: `TaskSlot` with `approval_waits`; `parked` is history |
| `call` | a tool call that may need an approval: in the run, relayed (it may move to the background) or detached |

Runs are numbered by claim, so that a *zombie* (a run whose task the supervisor
has failed or handed out again) stays visible until its engine ends it.
`Poll`/`Answer`/`Start`/`LoseAnswer` are the claim; `BeginCall`, `BeginAsync`,
`AskAsync`, `BeginWait`, `EndWait`, `EndCall`, `Upgrade` the tools; `Decide`,
`Sweep` the approvals; `Interrupt`, `Post`, `LosePost`, `Suspend`, `Resume`,
`Reap`, `LeaseLapses`, `Crash`, `Register` the ends of a run. Reports to a slot
run on the engine's one event loop, so the window between the relay's lock and
the listener it calls is not modelled; an approval that has been silent for the
sweep's 60 seconds is one no call is on.

### 2.8 Preempt: a message for a conversation that is at work

| Variable | Code |
|---|---|
| `task` | `Task`: status, `cancel_requested` and the slot (`preempt_requested`, `preempt_message`, `preempt_revision`) |
| `run` | the inference loop of the task: where it is in its step, `preempt_inject_info` and `preempt_after_step` of `_LoopState`; `mark` and `blind` are history: the revision when the answer was complete, a look that failed since |
| `talk` | preempting messages written to the task's conversation |
| `sender` | the adapter's handling of a message: the candidates it has still to ask |
| `taken`, `origin`, `lost`, `unsure`, `twice` | history: what a task accepted under which revision, what it was created for, what was accepted and will not be written, whose acknowledgement may be missing, whose acceptance the adapter did not hear of |

`ListTasks`, `Offer` and `Submit` are the adapter, `Steer` a model's
`preempt_task`; both use `Overwrite`. `LookAtTop`, `Inject` and `Acknowledge` are
`PreemptChecker` (cut where a process can die or another message arrive), `Poll`
the polling during a provider call, `Answer` what comes out of it. Then the step
ends in one of the ways the loop has: `ToolsDone`, `Finish` (and ask),
`StaySilent`, `Suspend`, `PlainText`, `Refused`. Only some of them look for a
message, and every request may fail, which the engine takes for "no message".
Whether a step is the last one is left open: `Continue` may always fail the task
with "max_steps reached". A task has one run at a time (`SingleExecution`); a run
whose task was reaped goes on until it reports. The candidates of a message are
any subset of the live tasks.

## 3. The runs

All runs take at most about three minutes with two TLC workers.

| Run | Instance | Shows |
|---|---|---|
| `claims` | fair; one auto-continued task, one worker id whose engine starts again once, 3 claims, 1 resume, two routing threads | `SingleExecution`, `BoundedReexecution`, `NoResurrection`, `CancelSticks`, and `OnlyWaitingThreadsRouteEarly` (nothing *starts* a route of a task in its stop grace), under lost assignments, repeated and late reports, lapsed leases, crashes, registrations and restarts of all engines that collect the same claims, deferred, raising and abandoned routes; `AbandonedTaskLeaves`, `CancelledTaskEnds`, `EveryOutcomeIsRouted` |
| `branch` (`BranchTwo.cfg`) | fair; two supervisors, two messages, one push and one crash each | `MergeIsExact`, `ForgottenOnlyWhenMerged`, `OneReplyUnlessCut`, `RecoveredIsTried`, and the refinement `ImplementsBranchMerge` |
| `dispatch_tree` | fair timers; three tasks, one of them a tool: batches of two, chains of three | `NoOrphanWork`, `BatchHasAWaker`, `ToldIsFinal`, and `BatchIsCollected`, for which the timers alone suffice |
| `dispatch_rounds` | fair timers and reaper; a caller and a child, two routing threads, a second dispatch that finds no task left and fails | `SuspendedOncePerDispatch`, `EveryWaitEnds` |
| `files` | three tasks of one session; three reads, edits or outside writes in any mix | `ExclusiveEditing`, `LiveWorkIsKept`, `NoBlindOverwrite` |
| `async_results` | fair; two dispatches, one user message, so up to three rounds | `HandedOnce`, `PromisesHold`, `AwaitedStaysHome`, `ResultsArrive` |
| `outbound` | two bots, one reply of two messages, the second with a frozen plan, one forced replay, two faults | `CursorBehindOutbox`, `AcceptedOnce`, `SentIsAccountedFor` |
| `outbound_order` | fair; one bot, two replies of one message, three faults | `FirstAttemptsInOrder`, `EveryReplySettles` |
| `worker_slots` | fair; one engine of two slots and three active tasks, two background tasks and an interactive one, two calls with approvals, one break | `ParkedWhileItsCallsWait`, `SlotsWithinLimits`, `ReserveKept`, `BackgroundCap`, `EverythingSettles` |
| `preempt` | three messages of a user, a soft stop by a model, two tasks, one fault | `NothingVanishes`, `LastLookCounts`, `WrittenOnceInOrder` |

Two more runs must find a counterexample, each to what the repository says of the
program; section 6 says what they show.

| Run | Instance | Refutes |
|---|---|---|
| `claims_early_route` | that of `claims`, two starts, not fair | `RouteWaitsForTheWorker` |
| `branch_reply` | two supervisors, one message, one push and one crash each | `OneReply` |

**Why the bounds are enough.** Each bound admits the case its properties are
about, plus one repetition. Three claims of one task are a first claim, one
after a resume and one after the single requeue the code grants; a second claim
without either, or a third without both, would violate `BoundedReexecution`.
Double execution takes two processes, and here they are the earlier and the later
process of one worker id, which may also claim what the other lost; that two
worker ids add nothing is what the proofs of TaskClaims show for any number. Two
supervisors are an old owner and a new one, and each may
crash and come back, which gives up to four owners in sequence. Two messages
distinguish none, some and all appended; one is enough where only the fate of the
route counts. Three tasks give a chain (a caller
whose caller is over) and a batch of two (first item, last item). Two routing
threads are one that routes and one that comes late; with a caller and one child the
late one meets the resumed caller, its second report and the failure of that
dispatch, while a second dispatch that goes *out* takes more tasks than the run has
and is left to the theorem `DispatchesGoOutOnce`. Two asynchronous dispatches
and three rounds let one result go into a join while the other becomes a round,
is pulled out of it and handed back. Two bots are an owner and a contender, two
parts a message that may be resent and one whose plan forbids it; two replies
are one that fails and one that must not overtake it. Two slots with room for
three active tasks are the smallest engine in which a parked task makes room for
another and comes back; two background tasks are one that runs and one the cap
and the reserve hold back; the break is a suspension, a lost answer, a lost
report, a lapsed lease or a crash, whichever comes. Three messages of a user are
one that starts the task and two that compete for its slot; a second task is
what a message taken twice needs, and the one to steer. In FileEdits three tasks
are caller, child and sibling; three moves are a read, an edit against it, and a
foreign edit, or the write of an outside program, between them (`Bounded` in
MCFileEdits). What the runs cannot show for larger instances is
what section 5 proves.

Clocks in FileEdits (`now`, `created`, `ended`, `since`, stamp times) only grow.
`VIEW Order` in MCFileEdits identifies states that differ in nothing a later step
or a property can tell: clock values count by their *order* among those that some
step can still compare, versions by whether they are the file's (an old one never
comes back) or in the hands of a call, what the ledger holds counts as long as an edit may still
begin, and afterwards only the edits that are under way. So the state space is
finite without a bound on time. Calls and tasks that are alike are used in the
order of their numbers (`InTurn`), which stands for every other order. Symmetry is
declared for the users' messages of `preempt`, which the specification does not
distinguish and which has no liveness property.
Deadlock checking is off where the system may rest, when the bounds are used up
and every task is over; `worker_slots`, whose loop always polls, has it on.

## 4. Fairness

In the models of the supervisor (TaskClaims, BranchFinalize, DispatchTree,
AsyncResults) only what it does by itself is assumed fair; nothing is assumed of
engines, users, adapters or the network. Outbound and WorkerSlots are about the
processes around it and assume of a bot and of an engine what their own loops and
time limits give: it scans, it polls, calls and tasks end and are reported.

- TaskClaims `Fairness`: `LeaseLapses` *when nobody can renew the lease* (the
  worker is gone or is refused: time passes), `ReapLapsed` (the housekeeping
  thread reaps every round), `StopGracePasses` and `TransitCheck` (time and the
  timer that `defer_route` arms), `RouteCompleted` (a thread that left the lock
  to route is an ordinary HTTP handler thread; it gets to run).
- BranchFinalize `FairSpec`: weak fairness of `Work(s)`: a routing thread that
  can take a step takes one, which may be an exception. Crashes, stalls, lapses
  and pushes are not fair.
- AsyncResults `FairSpec`: threads that route get to run, the timer of a join
  fires, and the reaper fails a round that lives for too long, however often it is
  suspended and resumed. It is spelled out with `[]<>` and the guards of the
  actions because `ENABLED` of the composed handlers is slow to evaluate.
- Outbound `Fairness`: the first process is started again after it ends, running
  processes scan, reconnect, read and work their lane, leases and back-offs end.
  Faults, and so lost answers and failed writes, are bounded.
- WorkerSlots `FairSpec`: the loop polls, calls end (an approval wait has a time
  limit), tasks report, housekeeping sweeps, suspended tasks are resumed, leases
  of lost runs lapse. Users need not decide. One of each kind at a time is
  enough, for calls, runs and breaks are bounded.
- DispatchTree `TimerSpec`: `RouteCompleted`, `TransitCheck`, `StopGracePasses`,
  `TransitGracePasses`. `ReaperSpec` adds `ReapAlive` (queue and running limits
  of `reap_reason` apply to every such task) and `ReapWaiting` (its
  treatment of suspended callers). `BatchIsCollected` needs only the former;
  `EveryWaitEnds` needs the reaper, and says so by its run.

## 5. The proofs

All invariants below are inductive and hold for any sets of tasks, workers,
supervisors, messages, calls and sessions and any bounds.

**TaskClaimsProofs** (`TypeCorrect`, `TaskRunsOnce`, `QueuedTasksAreQuiet`,
`ReexecutionIsBounded`, `OutcomesLast`, `CancelsLast`, `RoutesWaitForTheWorker`).
`SingleExecution` is not inductive: a late settlement could queue a task that
another process has just claimed. `IInv` says why it does not: whoever executes
a claim executes the task's *current* claim, in a process that is up and is the
task's worker (`HolderOwns`), and whatever may still give the task away (a
report on its way, an orphan that was collected, a claim cut off by a restart)
speaks of a claim nobody executes any more (`ReportsSpent`, `OrphansSpent`,
`CutoffSpent`). Two executions of one task would both be of the current claim by
the current worker. The other four rest on `CInv`, which adds that a task with a
stop marker is a failed one (`StopsWhenFailed`) and that the claims used are at
most one more than the resumes, and another one only after the requeue (`Used`).
The action properties follow because every step moves every record *honestly*: a
lemma per action says that an outcome that is out stays, that a cancel request
stays until the outcome, and that only `RouteCompleted` routes a task whose
worker has not stopped.

**BranchFinalizeProofs** (`MergeStaysExact`, `ForgottenStaysMerged`,
`RepliesInsideFence`, `FencesOnlyGrow`, `RepliesAreBounded`, `RepliesOnce`,
`Refinement`). The
generation protects the reply, but a stalled owner may still
be inside the merge, so the merge must be right without it. `BInv` says: between
load and append the thread holds the parent's lock (`LockHeld`), so what it
found missing is still missing (`LoadedIsFresh`); after the append all messages
are there (`AppendedIsAll`); every place behind the purge, every receipt and
every reply sees an empty branch (`MergedIsPurged`, `RepliedIsPurged`). The
refinement maps `Append` to `Copy`, `Purge` to `Drop`, the replies to `Reply`
and everything else to a stutter; `replied` is `replies > 0`. The fence has an
invariant of its own, `FenceInv`: whoever sends a reply inside the transaction
is its writer and the owner of the row; everything else that writes the row needs
the writer's place free (`NobodySends`). `RouteInsideFence` is that invariant,
and `FenceOnlyGrows` follows from it step by step: a completed row could only be
changed by an owner, and it has none. `OneReplyEach` counts: every reply was sent
by a process that knows of it from then on and sends no other, and a restart that
loads the events knows of one only if one was sent (`RepliesAreKnown`). This is
the one place that needs finitely many supervisors (`SupervisorsAssumption`).
`RepliesOnce` says that the fence makes this one reply in all: as long as no
route was cut off after its reply and none ran without a claim, a reply that is
out belongs to the open transaction of the row's owner, or the row is completed
and nobody owns it; either way nobody else can send.

**DispatchTreeProofs** (`NoWorkForNobody`, `TypeCorrect`, `BatchesAreAwake`,
`ToldStaysTrue`, `DispatchesGoOutOnce`), under the assumption `~DiskFails`. The
operators of DispatchTree map records to records, so the
invariant is a predicate `Good(T)` on records and each operator has a lemma that
keeps it; one action is then a composition of lemmas. The strengthening: a
suspended task has no cancel request (`Calm`), waits for children of its own
(`WaitsForChildren`), its earlier completions are routed (`RoutedWhileLive`), only
failed tasks have a worker to stop (`StopsWhenOver`); and a dispatch still to be
routed has no children yet (`Fresh`), so that routing it cannot adopt the
children of an earlier round. Cascades rest on one fact: what is taken out is
closed below (`BelowIsClosed`). The other three need to know how an operator
relates the records before it to those after it. `Follows`: what is over or was
told stays as it is, so a caller is told once and what it was told is the end
(`ToldOnce`). `KeepsWakers`: whoever may still wake a batch may afterwards, but for
the one task that the step ends or routes, and that one is looked after by the
step itself (`AllAwake`). A round goes out only from the current completed round,
which then is routed, so none goes out twice. These rest on the disk as well: an
event that is not written leaves a caller asleep (section 6, item 2).

**FileEditsProofs** (`TypeCorrect`, `EditsExcludeEachOther`, `EditsAreInformed`,
`LiveWorkStays`). `Claimed` adds
that calls are made by workers, one at a time per task, that claims are taken in
a strict order, and that a task with the file open is the *deepest* holder
(`OpenIsDeepest`): whoever else holds the file took it earlier and is suspended
above it. `StampInv` follows a stamp through the layers: whatever a task's own, the
inherited or the session's layer holds was recorded by a task that this one knows
of. `GateInv` follows an edit: the version it was admitted for is known
(`EntryKnown`), the version it compared is that one (`BaseGated`), and between the
last comparison and the replacement only a program outside the ledger has written
(`FileKept`). `WorkInv` adds that the holders are a chain of callers (`HoldersNest`)
and that whoever wrote last and may still write holds its claim (`WriterHolds`), so
that the next to write is one it dispatched.

**AsyncResultsProofs** (`Typed`, `ResultsAreHandedOnce`, `PromisesAreKept`,
`AwaitedStayHome`). The invariant is a predicate on memories, `Good(S, j, x)`, of
single results (`ResultOk`), single rounds (`RoundOk`, `JoinOk`) and pairs of the
two. What it adds to the properties: a result is in the message of at most one
round and handed over in full by at most one join (`OneCarrier`, `OneCollector`);
what a round carries that was not withdrawn is recorded as delivered inbound, what
a join will hand over is recorded as collected and was handed to nobody
(`CarriedOk`, `CollectedOk`); and what a model has seen is marked as delivered
(`HandedMarked`). That is why pulling a result out of a queued round and handing
it to a join cannot double it: until the round is claimed nobody has read it, and
a round that lost all its results is cancelled and never runs. Within a handler
the invariant has two exceptions, given by its arguments: the join of round `j`
may be satisfied or orphaned (it is about to be resumed or released), and the
reservation of child `x` may be out of date (it is being settled); an action
starts and ends with neither. The action property rests on `Onward(S, T)`: nobody
comes back to life, and as long as a round lives, a result that is `Bound` to it
stays so and enters no other message. `Bound` means that the round awaits the
child or its join has collected it, or that the result has been on its way before
(its event is in the log), was handed over, or does not exist. Each
operator of AsyncResults has a lemma that keeps `Good` and is `Onward`; an action
is a composition of lemmas. The folds over sets of results need an induction, and
get it as an argument by the least number: if some step of the fold broke what
each step keeps, there would be a first one (`NatLessThanWellFounded`, `WFMin`),
so every fold keeps what its step keeps. `Room` shows that the rounds of the model
suffice: a message starts one, and a result starts at most one more, because its
event is logged then.

**OutboundProofs** (`TypeCorrect`, `NothingSkipped`, `SentOnce`,
`SentStaysAccountedFor`, `TriedInOrder`). Each invariant rests on the one before. `TInv`: types,
and a process that does not run has no lane, stream or job (`RowMove` says what
any step may do to a row, so that the others need not open every action).
`CursorInv`: no process was told of a reply behind the durable cursor that has no
row. `OnceInv`: who has a call in flight holds its claim or the call is in
`doubt`, nobody else can take that claim, and a claim that is free has accepted
nothing; so a second acceptance needs the doubt `AcceptedOnce` names. `SentInv`:
every part a worker has left behind is accounted for, and a worker that may
still write the row works on the row's own generation. `WaitInv` and `OrderInv`
are about the lane of a process that is up alone: what was not tried is in the
lane, and behind everything older that was not tried; only the head of a lane is
tried, so first attempts keep the order of the replies.

**WorkerSlotsProofs** (`TypeCorrect`, `SlotsParkRightly`, `LimitsHold`,
`ReserveHolds`, `CapHolds`). `TInv`: an answer goes to the engine that asked, a
call belongs to a run of its own engine, claims of runs are known ones.
`WaitsInv`: what a slot counts are exactly the calls of its run that wait and
report to it. `RoomInv`: tasks taken and tasks promised in an answer under way fit
the count that was sent, and a run that ends only makes room (`Settles`).
`CapInv`: a claim is fresh, so an approval of an earlier one excuses nobody.

**PreemptProofs** (`TypeCorrect`, `NothingIsDropped`, `LastLookSees`,
`WritesOnceInOrder`). All of it is one invariant per task, `TaskInv`, plus
`OffersFresh` and `OneTakes` for the senders. Slot, process and conversation hold
accepted messages under their own revision (`HoldsAccepted`); whatever may be
written next is newer than everything written, or the same message with its
acknowledgement in doubt (`WritesNewer`); between write and acknowledgement the
message written is the last (`JustWrote`). That is why an acknowledgement of an
old revision clears nothing, and why one that is lost costs a repetition and not
a message. A move of the loop need only be `Orderly` (it forgets nothing it has
read, and ends informed only with an empty slot); one lemma keeps the invariant
for all of them.

**Assumptions.** Only the named `ASSUME`s of the modules (distinct model values,
natural bounds, well-typed parameters), which every run evaluates.

**Only model-checked.** All liveness properties (fairness and `ENABLED` are
beyond the prover).
On the other hand the type invariants, `QuietWhenQueued`, `RouteInsideFence`,
`FenceOnlyGrows`, `OneReplyEach`, and `NoOrphanWork` over several dispatches of one
task are proved and need no run.
What a recursive definition computes for every input cannot be proved here
(induction theorems take an operator parameter), so no module that is proved
about uses `RECURSIVE`.

## 6. Where the code and its comments disagree

Two runs must find a counterexample; `PROJECT.json` quotes both sides under
`findings`.

- `claims_early_route`: the docstring of `_fail_task_locked` says that the route
  of a failed task waits until its old worker has stopped. A thread that a
  repeated dispatch report left in the task's route slot does not look at the
  stop marker and routes at once. `OnlyWaitingThreadsRouteEarly` says that
  nothing else does.
- `branch_reply`: a delivery id is said never to be written twice, and two
  supervisors on one workspace are tested to persist one reply. The ids are looked
  up in a table filled when the process starts. A supervisor that started before
  the other one replied, and restored a task whose branch was merged already,
  routes it without a claim and writes a second reply; so does one that takes over
  from an owner that died between the reply and the commit.
  `OneReplyUnlessCut` says that there is no third way.

The rest was met while modelling; the models contain it, and where a property had
to make room for it, the property says so.

1. A restart retries the routes that were not finished, and counts them as
   recovered (`supervisor/state.py:667`, 702). When the dead owner's pid is in use
   again and its lease has not expired, the attempt returns without a trace, and no
   timer repeats it (`supervisor/task_router.py:1218`). `RecoveredIsTried` lists
   what may become of a route; this is `"stranded"`.
2. When a dispatch breaks off, everything it sent out is to be withdrawn
   (`supervisor/task_router.py:1993`). If the event log is what broke it, writing
   the caller's failure (line 2012) raises before the children are cancelled. With
   `DiskFails = TRUE` `NoOrphanWork` fails, and so does `SuspendedOncePerDispatch`
   (line 1383); the runs have `DiskFails = FALSE`.
3. What the join of an ended task collected and did not hand over is to become a
   new message (`supervisor/async_dispatches.py:493`). A result that the join pulled
   out of a queued round still has that round's `inbound_message` event in the log;
   when it is handed back, the delivery id is found there, and the result is marked
   as delivered although no round carries it. `ResultsArrive` excepts what was
   `pulled`.
4. The supervisor leaves a background task that waits for an approval out of its
   count because such a task takes no slot in the engine
   (`supervisor/task_store.py:1472`). It leaves it out as well while one of its
   *detached* tools waits, for which the engine does not park
   (`engine/inference/ai_step.py:1481`, 1536). `BackgroundCap` counts only tasks
   that asked for nothing since they were claimed.
5. A message a running task has accepted is said to be written to its conversation
   (`adapters/onebot/napcat/queueing.py:165`), and the adapter forgets it. A task
   that ends by plain text or on its last step delivers without looking, and the
   message stays in its slot. Nor is a message written that a later one replaces
   unread, that comes after the last look, or whose write fails: `lost` in Preempt,
   and the slots of tasks that are over. `NothingVanishes` is about all others. A
   lost acknowledgement, or a crash before it, writes a message twice (`unsure`); a
   lost answer to the adapter makes two tasks of it (`twice`).
6. A part of a reply that waits for another owner of its claim asks for the claim
   a second time. If somebody else has claimed it in between, the part counts as a
   duplicate and the row is acknowledged as sent before the platform has accepted
   it (`adapters/onebot/napcat/sending.py:458`): `doubt` has `"contender"` there.
7. A connection that is reset while a message is on its way counts as "not
   accepted", and the message is sent again; so is one without a frozen plan whose
   claim lapsed: `AcceptedOnce` says exactly this.
8. A cancel that reaches a lane inside `protected_claim_send` is swallowed; the
   lane then goes on with the rows it has queued although the router is closing,
   where a comment (`clonoth_sdk/event_router.py:321`) leaves them to the next
   start. They are delivered once all the same.

## 7. What is not modelled

- **Of TaskClaims:** handoffs, pruning of finished tasks, what a
  task does while it runs. Internal and ambient tasks (`Silent`) are in the module
  and its proofs; the runs have none.
- **Of BranchFinalize:** the teardown thread that merges the branch of a
  cancelled entry task (`_finish_cancelled_task`), compaction of the parent
  while a branch is merged. The rule *SQLite writer before the supervisor's lock*
  cannot be expressed: handlers are single steps.
- **Of DispatchTree:** compaction rounds, session resets, dispatch limits (a dispatch may
  be refused at will), limits of depth.
- **Of FileEdits:** `undo_edits`, edits of several files at once and their lock
  order, the journal session, writers without a task, the size limits of the
  stamp book, a restart of the supervisor (which forgets the ledger), routes
  later than the transit grace.
- **Of AsyncResults:** homes other than the conversation's node, session cancels,
  the trimming of the ledger, a crash between a round's event and the round,
  the listing, and what the tools refuse synchronously.
- **Of Outbound:** several conversations (a lane each, they share nothing but the
  database), events of other adapters and checkpoints of events that are no
  replies, the first connection without a cursor, gaps left by a trimmed log,
  `resume_deferred`, clearing of ambiguous claims, retention times (rows may be
  pruned at any time instead), the building of plans, receipts of reminders.
- **Of WorkerSlots:** grants that answer for the user, engines that send no count of
  slots, changes of the cap or the reserve at run time, cancels of queued tasks,
  the back-off of a refused poll, tasks requeued by an orderly shutdown.
- **Of Preempt:** what travels with a message (attachments, memory hints, output
  guides), which tasks count as candidates and which are of a model's family,
  submits that fail, messages merged into a burst, the task that continues one
  which ran into its limits.
- **Whole components:** the event log's rotation, worktrees (git and the file
  system carry the state), the scheduler (one thread), the process watchdog,
  execution plans. Adapters, prompts, providers, configuration, plugins,
  instance administration, the web console, the shell and the memory and media
  stores are input, output and rendering without a protocol of their own.

## 8. The plan

Done: TaskClaims, BranchMerge and BranchFinalize, DispatchTree, FileEdits,
AsyncResults, Outbound, WorkerSlots and Preempt, each with its proofs. Next:

1. **EventLog**: rotation by two processes, receipts of rotated events; then
   `OneReplyUnlessCut` and Outbound's cursor over rotations.
2. **Compaction**: `replace_all` against concurrent appends, and the breaker.
3. **LockOrder**: who takes which lock while holding which; the teardown thread
   becomes an action of BranchFinalize.
