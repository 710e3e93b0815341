-------------------------- MODULE TaskClaimsProofs --------------------------
(* Type correctness of TaskClaims and, from the inductive invariants below: *)
(* no two engine processes ever execute the same task (IInv); an            *)
(* interrupted task runs again a bounded number of times, an outcome and a  *)
(* cancel request last, and only a thread that waited routes before the     *)
(* worker of a failed task has stopped (CInv and HonestStep).               *)
EXTENDS TaskClaims, Integers, TLAPS

(* Nobody executes claim c of task t (any more). *)
Stopped(t, c) == \A w \in Workers : <<w, t, c>> \notin held

Spent(t, c) == c <= task[t].claim /\ Stopped(t, c)

(* A process that executes a claim is up, the claim is the task's current    *)
(* one and the task's worker is that process: nothing gave the task away.    *)
HolderOwns ==
    \A w \in Workers, t \in Tasks, c \in ClaimIds : <<w, t, c>> \in held =>
        /\ proc[w] = "ready"
        /\ task[t].claim = c
        /\ task[t].worker = w
        /\ task[t].status \in {"running", "failed", "cancelled"}

(* Whoever reported a claim, or lost it to a stopped process, stopped. *)
ReportsSpent == \A p \in posts : Spent(p.task, p.claim)
OrphansSpent ==
    \A x \in Owners, t \in Tasks, c \in ClaimIds : <<t, c>> \in orphans[x] => Spent(t, c)
CutoffSpent == \A t \in Tasks, c \in ClaimIds : <<t, c>> \in cutoff => Spent(t, c)

IInv ==
    /\ TypeOK
    /\ HolderOwns
    /\ ReportsSpent
    /\ OrphansSpent
    /\ CutoffSpent

-----------------------------------------------------------------------------
(* The shared transitions keep a task record a task record. *)
LEMMA TransitionTypes ==
    ASSUME NEW r \in TaskRecord
    PROVE  /\ TerminateCancelled(r) \in TaskRecord
           /\ ApplyFailure(r) \in TaskRecord
           /\ RouteReset(r) \in TaskRecord
           /\ Requeue(r) \in TaskRecord
           /\ Routed(r) \in TaskRecord
           /\ RouteFailed(r) \in TaskRecord
           /\ RouteUnrecorded(r) \in TaskRecord
           /\ LiveClaim(r) \in 0..MaxClaims
<1>1. TerminateCancelled(r) \in TaskRecord
  BY DEF TaskRecord, TerminateCancelled, Status, ResultActions
<1>2. ApplyFailure(r) \in TaskRecord
  BY DEF TaskRecord, ApplyFailure, Status, ResultActions
<1>3. RouteReset(r) \in TaskRecord
  BY DEF TaskRecord, RouteReset
<1>4. Requeue(r) \in TaskRecord
  BY DEF TaskRecord, Requeue, Status, ResultActions
<1>5. Routed(r) \in TaskRecord /\ RouteFailed(r) \in TaskRecord /\ RouteUnrecorded(r) \in TaskRecord
  BY DEF TaskRecord, Routed, RouteFailed, RouteUnrecorded
<1>6. LiveClaim(r) \in 0..MaxClaims
  BY BoundsAssumption DEF TaskRecord, LiveClaim
<1>7. QED
  BY <1>1, <1>2, <1>3, <1>4, <1>5, <1>6

(* A new outcome resets its route and nothing else. *)
LEMMA ResetKeeps ==
    ASSUME NEW r \in TaskRecord
    PROVE  /\ RouteReset(r).status = r.status
           /\ RouteReset(r).claim = r.claim
           /\ RouteReset(r).requeued = r.requeued
           /\ RouteReset(r).stopping = r.stopping
<1> DEFINE q == RouteReset(r)
<1>1. q = [r EXCEPT !.route = "pending", !.delivery = TRUE, !.unrecorded = FALSE]
  BY DEF RouteReset
<1>2. DOMAIN r = {"status", "action", "cancelReq", "worker", "claim", "doneClaim", "lease", "route",
                  "delivery", "stopping", "stopOver", "requeued", "unrecorded"}
  BY DEF TaskRecord
<1>3. q.status = r.status /\ q.claim = r.claim
  BY <1>1, <1>2
<1>4. q.requeued = r.requeued /\ q.stopping = r.stopping
  BY <1>1, <1>2
<1>5. QED
  BY <1>3, <1>4

LEMMA FailTaskType ==
    ASSUME NEW r \in TaskRecord, NEW gone \in BOOLEAN
    PROVE  /\ FailTask(r, gone) \in TaskRecord
           /\ FailTask(r, gone).status = "failed"
           /\ FailTask(r, gone).claim = r.claim
           /\ FailTask(r, gone).worker = r.worker
<1>1. ApplyFailure(r) \in TaskRecord /\ LiveClaim(r) \in 0..MaxClaims
  BY TransitionTypes
<1>2. /\ ApplyFailure(r).status = "failed"
      /\ ApplyFailure(r).claim = r.claim
      /\ ApplyFailure(r).worker = r.worker
  BY DEF ApplyFailure, TaskRecord
<1>3. DEFINE f == ApplyFailure(r)
             s == IF gone THEN 0 ELSE LiveClaim(r)
<1>4. s \in 0..MaxClaims
  BY <1>1, BoundsAssumption
<1> HIDE DEF f, s
<1>5. [RouteReset(f) EXCEPT !.stopping = s, !.stopOver = FALSE] \in TaskRecord
  BY <1>1, <1>4 DEF f, RouteReset, TaskRecord
<1>6. QED
  BY <1>1, <1>2, <1>4, <1>5 DEF f, s, FailTask, RouteReset, TaskRecord

LEMMA CancelTaskType ==
    ASSUME NEW r \in TaskRecord, NEW force \in BOOLEAN
    PROVE  /\ CancelTask(r, force) \in TaskRecord
           /\ CancelTask(r, force).status \in {r.status, "cancelled"}
           /\ CancelTask(r, force).claim = r.claim
           /\ CancelTask(r, force).worker = r.worker
<1>1. [r EXCEPT !.cancelReq = TRUE] \in TaskRecord
  BY DEF TaskRecord
<1>2. /\ TerminateCancelled(r) \in TaskRecord
      /\ TerminateCancelled(r).status = "cancelled"
      /\ TerminateCancelled(r).claim = r.claim
      /\ TerminateCancelled(r).worker = r.worker
  BY TransitionTypes DEF TerminateCancelled, TaskRecord
<1>3. CancelTask(r, force) \in {r, [r EXCEPT !.cancelReq = TRUE], TerminateCancelled(r)}
  BY DEF CancelTask
<1>4. /\ [r EXCEPT !.cancelReq = TRUE].status = r.status
      /\ [r EXCEPT !.cancelReq = TRUE].claim = r.claim
      /\ [r EXCEPT !.cancelReq = TRUE].worker = r.worker
  BY DEF TaskRecord
<1>5. QED
  BY <1>1, <1>2, <1>3, <1>4

LEMMA RouteResultsType ==
    ASSUME NEW r \in TaskRecord, NEW s \in RouteResults(r)
    PROVE  /\ s \in TaskRecord
           /\ s.claim = r.claim
           /\ \/ s.worker = r.worker /\ s.status \in {r.status, "failed", "cancelled"}
              \/ r.status = "completed"
<1>1. TerminateCancelled(r) \in TaskRecord /\ TerminateCancelled(r).claim = r.claim
  BY TransitionTypes DEF TerminateCancelled, TaskRecord
<1>2. ApplyFailure(r) \in TaskRecord /\ ApplyFailure(r).claim = r.claim
  BY TransitionTypes DEF ApplyFailure, TaskRecord
<1>3. \A q \in TaskRecord :
         /\ Routed(q) \in TaskRecord /\ Routed(q).claim = q.claim
         /\ Routed(q).worker = q.worker /\ Routed(q).status = q.status
         /\ RouteFailed(q) \in TaskRecord /\ RouteFailed(q).claim = q.claim
         /\ RouteFailed(q).worker = q.worker /\ RouteFailed(q).status = q.status
  BY TransitionTypes, ZenonT(60) DEF Routed, RouteFailed, TaskRecord
<1>4. \A q \in TaskRecord :
         LET u == [q EXCEPT !.status = "suspended", !.worker = NoWorker, !.lease = "none"]
         IN  u \in TaskRecord /\ u.claim = q.claim
  BY DEF TaskRecord, Status
<1>5. CASE r.status = "completed"
  <2>1. s \in {Routed(TerminateCancelled(r)), Routed(ApplyFailure(r)), RouteFailed(r), Routed(r),
               [Routed(r) EXCEPT !.status = "suspended", !.worker = NoWorker, !.lease = "none"]}
    BY DEF RouteResults
  <2>2. LET u == [Routed(r) EXCEPT !.status = "suspended", !.worker = NoWorker, !.lease = "none"]
        IN  u \in TaskRecord /\ u.claim = r.claim
    BY <1>3, <1>4
  <2>3. \A q \in {r, TerminateCancelled(r), ApplyFailure(r)} :
           /\ Routed(q) \in TaskRecord /\ Routed(q).claim = r.claim
           /\ RouteFailed(q) \in TaskRecord /\ RouteFailed(q).claim = r.claim
    BY <1>1, <1>2, <1>3
  <2>4. s \in TaskRecord /\ s.claim = r.claim
    BY <2>1, <2>2, <2>3
  <2>5. QED
    BY <1>5, <2>4
<1>6. CASE r.status # "completed"
  <2>1. s \in {Routed(r), RouteFailed(r)}
    BY <1>6 DEF RouteResults
  <2>2. QED
    BY <1>3, <2>1
<1>7. QED
  BY <1>5, <1>6

(* A step that rewrites one task record, keeps its claim and either keeps its *)
(* owner or finds nobody executing it, and touches no process, report or      *)
(* orphan list, disturbs nothing about holders.                               *)
LEMMA KeepsHolders ==
    ASSUME IInv, NEW t \in Tasks, NEW r \in TaskRecord,
           task' = [task EXCEPT ![t] = r],
           r.claim = task[t].claim,
           \/ r.worker = task[t].worker /\ r.status \in {task[t].status, "failed", "cancelled"}
           \/ Stopped(t, task[t].claim),
           UNCHANGED <<proc, held, posts, orphans, cutoff>>
    PROVE  /\ task' \in [Tasks -> TaskRecord]
           /\ HolderOwns' /\ ReportsSpent' /\ OrphansSpent' /\ CutoffSpent'
<1>1. task' \in [Tasks -> TaskRecord]
  BY DEF IInv, TypeOK
<1>2. \A u \in Tasks : task'[u].claim = task[u].claim
  BY DEF IInv, TypeOK
<1>3. \A u \in Tasks, c \in ClaimIds : Spent(u, c) => Spent(u, c)'
  BY <1>2 DEF Spent, Stopped
<1>4. HolderOwns'
  <2> SUFFICES ASSUME NEW w \in Workers, NEW u \in Tasks, NEW c \in ClaimIds, <<w, u, c>> \in held
               PROVE  /\ proc[w] = "ready"
                      /\ task'[u].claim = c
                      /\ task'[u].worker = w
                      /\ task'[u].status \in {"running", "failed", "cancelled"}
    BY DEF HolderOwns
  <2>1. /\ proc[w] = "ready" /\ task[u].claim = c /\ task[u].worker = w
        /\ task[u].status \in {"running", "failed", "cancelled"}
    BY DEF IInv, HolderOwns
  <2>2. CASE u = t
    <3>1. ~Stopped(t, task[t].claim)
      BY <2>1, <2>2 DEF Stopped
    <3>2. task'[u] = r
      BY <2>2 DEF IInv, TypeOK
    <3>3. QED
      BY <2>1, <2>2, <3>1, <3>2
  <2>3. CASE u # t
    BY <2>1, <2>3 DEF IInv, TypeOK
  <2>4. QED
    BY <2>2, <2>3
<1>5. ReportsSpent'
  BY <1>3 DEF IInv, ReportsSpent, TypeOK, Report
<1>6. OrphansSpent' /\ CutoffSpent'
  BY <1>3 DEF IInv, OrphansSpent, CutoffSpent
<1>7. QED
  BY <1>1, <1>4, <1>5, <1>6

(* Claims that are spent stay so when holders only leave and claims only grow. *)
LEMMA SpentStays ==
    ASSUME NEW t \in Tasks, NEW c \in ClaimIds, Spent(t, c),
           task[t].claim \in Nat, task'[t].claim \in Nat,
           task'[t].claim >= task[t].claim,
           \A w \in Workers : <<w, t, c>> \in held' => <<w, t, c>> \in held \/ c > task[t].claim
    PROVE  Spent(t, c)'
BY DEF Spent, Stopped, ClaimIds

LEMMA AssignPreserves ==
    ASSUME IInv, NEW w \in Workers, NEW t \in Tasks, AssignNextTask(w, t)
    PROVE  IInv'
<1> DEFINE c == task[t].claim + 1
           r == [task[t] EXCEPT !.status = "running", !.worker = w, !.claim = c, !.lease = "live"]
<1>1. task[t] \in TaskRecord /\ task[t].claim \in Nat /\ c \in ClaimIds /\ c \in 0..MaxClaims
  BY BoundsAssumption DEF IInv, TypeOK, TaskRecord, AssignNextTask, ClaimIds
<1>2. r \in TaskRecord /\ r.claim = c /\ r.worker = w /\ r.status = "running"
  BY <1>1 DEF TaskRecord, Status
<1>3. task' = [task EXCEPT ![t] = r]
  BY DEF AssignNextTask
<1> HIDE DEF r
<1>4. task' \in [Tasks -> TaskRecord] /\ task'[t] = r /\ \A u \in Tasks : u # t => task'[u] = task[u]
  BY <1>2, <1>3 DEF IInv, TypeOK
<1>5. held' \in SUBSET (Workers \X Tasks \X ClaimIds)
  BY <1>1 DEF AssignNextTask, IInv, TypeOK
<1>6. TypeOK'
  BY <1>4, <1>5 DEF AssignNextTask, IInv, TypeOK
<1>7. \A u \in Tasks : /\ task[u].claim \in Nat /\ task'[u].claim \in Nat
                        /\ task'[u].claim >= task[u].claim
  <2> SUFFICES ASSUME NEW u \in Tasks
               PROVE  task[u].claim \in Nat /\ task'[u].claim \in Nat /\ task'[u].claim >= task[u].claim
    OBVIOUS
  <2>1. task[u].claim \in Nat
    BY BoundsAssumption DEF IInv, TypeOK, TaskRecord
  <2>2. QED
    BY <1>1, <1>2, <1>4, <2>1
<1>8. \A u \in Tasks, d \in ClaimIds : Spent(u, d) => Spent(u, d)'
  <2> SUFFICES ASSUME NEW u \in Tasks, NEW d \in ClaimIds, Spent(u, d)
               PROVE  Spent(u, d)'
    OBVIOUS
  <2>1. \A v \in Workers : <<v, u, d>> \in held' => <<v, u, d>> \in held \/ d > task[u].claim
    BY <1>1 DEF AssignNextTask
  <2>2. QED
    BY <1>7, <2>1, SpentStays
<1>9. \A v \in Workers, d \in ClaimIds : <<v, t, d>> \notin held
  BY DEF AssignNextTask, IInv, HolderOwns
<1>10. HolderOwns'
  <2> SUFFICES ASSUME NEW v \in Workers, NEW u \in Tasks, NEW d \in ClaimIds, <<v, u, d>> \in held'
               PROVE  /\ proc'[v] = "ready"
                      /\ task'[u].claim = d
                      /\ task'[u].worker = v
                      /\ task'[u].status \in {"running", "failed", "cancelled"}
    BY DEF HolderOwns
  <2>1. CASE u = t
    <3>1. v = w /\ d = c /\ proc[w] = "ready"
      BY <1>9, <2>1 DEF AssignNextTask
    <3>2. QED
      BY <1>2, <1>4, <2>1, <3>1 DEF AssignNextTask
  <2>2. CASE u # t
    <3>1. <<v, u, d>> \in held
      BY <2>2 DEF AssignNextTask
    <3>2. QED
      BY <1>4, <2>2, <3>1 DEF AssignNextTask, IInv, HolderOwns
  <2>3. QED
    BY <2>1, <2>2
<1>11. ReportsSpent' /\ OrphansSpent' /\ CutoffSpent'
  BY <1>8 DEF AssignNextTask, IInv, TypeOK, Report, ReportsSpent, OrphansSpent, CutoffSpent
<1>12. QED
  BY <1>6, <1>10, <1>11 DEF IInv

(* The steps that only rewrite one task record and count routers or resumes. *)
LEMMA RecordStepPreserves ==
    ASSUME IInv, NEW t \in Tasks, NEW r \in TaskRecord,
           task' = [task EXCEPT ![t] = r],
           r.claim = task[t].claim,
           \/ r.worker = task[t].worker /\ r.status \in {task[t].status, "failed", "cancelled"}
           \/ Stopped(t, task[t].claim),
           routers' \in [Tasks -> 0..MaxRouters], resumes' \in [Tasks -> 0..MaxResumes],
           UNCHANGED <<progress, proc, starts, held, posts, orphans, cutoff>>
    PROVE  IInv'
<1>1. /\ task' \in [Tasks -> TaskRecord]
      /\ HolderOwns' /\ ReportsSpent' /\ OrphansSpent' /\ CutoffSpent'
  BY KeepsHolders
<1>2. TypeOK'
  BY <1>1 DEF IInv, TypeOK
<1>3. QED
  BY <1>1, <1>2 DEF IInv

(* Nobody executes a task that is not running and has not been ended from     *)
(* outside.                                                                   *)
LEMMA QuietTasks ==
    ASSUME IInv, NEW t \in Tasks, task[t].status \in {"pending", "suspended", "completed"}
    PROVE  Stopped(t, task[t].claim)
BY DEF IInv, HolderOwns, Stopped, TypeOK

LEMMA RoutersUp ==
    ASSUME TypeOK, NEW t \in Tasks, routers[t] < MaxRouters
    PROVE  [routers EXCEPT ![t] = @ + 1] \in [Tasks -> 0..MaxRouters]
BY BoundsAssumption DEF TypeOK

LEMMA FailAndRoutePreserves ==
    ASSUME IInv, NEW t \in Tasks, NEW r \in TaskRecord, FailAndRoute(t, r),
           r.claim = task[t].claim, r.worker = task[t].worker,
           r.status \in {task[t].status, "failed"},
           UNCHANGED <<resumes, progress, engine, posts, orphans, cutoff>>
    PROVE  IInv'
<1>1. PICK s \in TaskRecord :
         /\ task' = [task EXCEPT ![t] = s]
         /\ s.claim = task[t].claim
         /\ \/ s.worker = task[t].worker /\ s.status \in {task[t].status, "failed", "cancelled"}
            \/ task[t].status = "completed"
  <2>1. CASE task' = [task EXCEPT ![t] = r]
    BY <2>1
  <2>2. CASE \E s \in RouteResults(r) : task' = [task EXCEPT ![t] = s]
    <3>1. PICK s \in RouteResults(r) : task' = [task EXCEPT ![t] = s]
      BY <2>2
    <3>2. /\ s \in TaskRecord /\ s.claim = r.claim
          /\ \/ s.worker = r.worker /\ s.status \in {r.status, "failed", "cancelled"}
             \/ r.status = "completed"
      BY RouteResultsType
    <3>3. \/ s.worker = task[t].worker /\ s.status \in {task[t].status, "failed", "cancelled"}
          \/ task[t].status = "completed"
      BY <3>2
    <3>4. QED
      BY <3>1, <3>2, <3>3
  <2>3. QED
    BY <2>1, <2>2 DEF FailAndRoute, RouteNow
<1>2. routers' \in [Tasks -> 0..MaxRouters]
  BY RoutersUp DEF FailAndRoute, RouteNow, IInv, TypeOK
<1>3. QED
  BY <1>1, <1>2, QuietTasks, RecordStepPreserves DEF IInv, TypeOK, engine

LEMMA TaskStepPreserves ==
    ASSUME IInv, NEW t \in Tasks, TaskStep(t)
    PROVE  IInv'
<1>0. task[t] \in TaskRecord /\ resumes \in [Tasks -> 0..MaxResumes] /\ routers \in [Tasks -> 0..MaxRouters]
  BY DEF IInv, TypeOK
<1>1. CASE LeaseLapses(t)
  <2> DEFINE r == [task[t] EXCEPT !.lease = "lapsed"]
  <2>1. r \in TaskRecord /\ r.claim = task[t].claim /\ r.worker = task[t].worker
        /\ r.status = task[t].status
    BY <1>0 DEF TaskRecord
  <2>2. task' = [task EXCEPT ![t] = r]
    BY <1>1 DEF LeaseLapses
  <2> HIDE DEF r
  <2>3. QED
    BY <1>0, <1>1, <2>1, <2>2, RecordStepPreserves DEF LeaseLapses, engine
<1>2. CASE RouteCompleted(t)
  <2>1. routers' \in [Tasks -> 0..MaxRouters]
    BY <1>0, <1>2, BoundsAssumption DEF RouteCompleted
  <2>2. CASE task' = task
    <3>1. task' = [task EXCEPT ![t] = task[t]]
      BY <2>2 DEF IInv, TypeOK
    <3>2. QED
      BY <1>0, <1>2, <2>1, <3>1, RecordStepPreserves DEF RouteCompleted, engine
  <2>3. CASE \E r \in RouteResults(task[t]) : task' = [task EXCEPT ![t] = r]
    <3>1. PICK r \in RouteResults(task[t]) : task' = [task EXCEPT ![t] = r]
      BY <2>3
    <3>2. /\ r \in TaskRecord /\ r.claim = task[t].claim
          /\ \/ r.worker = task[t].worker /\ r.status \in {task[t].status, "failed", "cancelled"}
             \/ task[t].status = "completed"
      BY <1>0, RouteResultsType
    <3>3. QED
      BY <1>0, <1>2, <2>1, <3>1, <3>2, QuietTasks, RecordStepPreserves DEF RouteCompleted, engine
  <2>4. CASE task' = [task EXCEPT ![t] = RouteUnrecorded(@)]
    <3> DEFINE r == RouteUnrecorded(task[t])
    <3>1. /\ r \in TaskRecord /\ r.claim = task[t].claim /\ r.worker = task[t].worker
          /\ r.status = task[t].status
      BY <1>0, TransitionTypes DEF RouteUnrecorded, TaskRecord
    <3>2. task' = [task EXCEPT ![t] = r]
      BY <2>4
    <3> HIDE DEF r
    <3>3. QED
      BY <1>0, <1>2, <2>1, <3>1, <3>2, RecordStepPreserves DEF RouteCompleted, engine
  <2>5. QED
    BY <1>2, <2>2, <2>3, <2>4 DEF RouteCompleted
<1>3. CASE ResumeSuspended(t)
  <2> DEFINE r == [task[t] EXCEPT !.status = "pending", !.worker = NoWorker, !.lease = "none"]
  <2>1. r \in TaskRecord /\ r.claim = task[t].claim
    BY <1>0 DEF TaskRecord, Status
  <2>2. task' = [task EXCEPT ![t] = r]
    BY <1>3 DEF ResumeSuspended
  <2> HIDE DEF r
  <2>3. resumes' \in [Tasks -> 0..MaxResumes]
    BY <1>0, <1>3, BoundsAssumption DEF ResumeSuspended
  <2>4. Stopped(t, task[t].claim)
    BY <1>3, QuietTasks DEF ResumeSuspended
  <2>5. QED
    BY <1>0, <1>3, <2>1, <2>2, <2>3, <2>4, RecordStepPreserves DEF ResumeSuspended, engine
<1>4. CASE Cancel(t)
  <2>1. task' = [task EXCEPT ![t] = CancelTask(task[t], FALSE)]
    BY <1>4 DEF Cancel
  <2>2. QED
    BY <1>0, <1>4, <2>1, CancelTaskType, RecordStepPreserves DEF Cancel, engine
<1>5. CASE Fail(t)
  BY <1>0, <1>5, FailTaskType, FailAndRoutePreserves DEF Fail
<1>6. CASE StopGracePasses(t)
  <2> DEFINE r == [task[t] EXCEPT !.stopOver = TRUE]
  <2>1. r \in TaskRecord /\ r.claim = task[t].claim /\ r.worker = task[t].worker
        /\ r.status = task[t].status
    BY <1>0 DEF TaskRecord
  <2>2. task' = [task EXCEPT ![t] = r]
    BY <1>6 DEF StopGracePasses
  <2> HIDE DEF r
  <2>3. QED
    BY <1>0, <1>6, <2>1, <2>2, RecordStepPreserves DEF StopGracePasses, engine
<1>7. CASE TransitCheck(t)
  <2> DEFINE r == [task[t] EXCEPT !.stopping = 0, !.stopOver = FALSE]
  <2>0. 0 \in 0..MaxClaims
    BY BoundsAssumption
  <2>1. r \in TaskRecord /\ r.claim = task[t].claim /\ r.worker = task[t].worker
        /\ r.status = task[t].status
    BY <1>0, <2>0 DEF TaskRecord
  <2>2. \/ task' = [task EXCEPT ![t] = r] /\ UNCHANGED routers
        \/ FailAndRoute(t, r)
    BY <1>7 DEF TransitCheck
  <2> HIDE DEF r
  <2>3. UNCHANGED <<resumes, progress, engine, posts, orphans, cutoff>>
    BY <1>7 DEF TransitCheck
  <2>4. CASE task' = [task EXCEPT ![t] = r] /\ UNCHANGED routers
    BY <1>0, <2>1, <2>3, <2>4, RecordStepPreserves DEF engine
  <2>5. CASE FailAndRoute(t, r)
    BY <2>1, <2>3, <2>5, FailAndRoutePreserves
  <2>6. QED
    BY <2>2, <2>4, <2>5
<1>8. QED
  BY <1>1, <1>2, <1>3, <1>4, <1>5, <1>6, <1>7 DEF TaskStep

(* A step that leaves the tasks alone, while holders only leave. *)
LEMMA HoldersLeave ==
    ASSUME IInv, UNCHANGED task, held' \subseteq held
    PROVE  /\ \A t \in Tasks, c \in ClaimIds : Spent(t, c) => Spent(t, c)'
           /\ UNCHANGED <<posts, orphans, cutoff>> =>
                  ReportsSpent' /\ OrphansSpent' /\ CutoffSpent'
<1>1. \A t \in Tasks, c \in ClaimIds : Spent(t, c) => Spent(t, c)'
  BY DEF Spent, Stopped
<1>2. QED
  BY <1>1 DEF IInv, TypeOK, Report, ReportsSpent, OrphansSpent, CutoffSpent

(* A process finishes one of its claims and leaves a report of it behind. *)
LEMMA FinishPreserves ==
    ASSUME IInv, NEW w \in Workers, NEW t \in Tasks, NEW c \in ClaimIds,
           NEW result \in WorkerResults, FinishTask(w, t, c, result)
    PROVE  IInv'
<1> DEFINE p == [task |-> t, claim |-> c, result |-> result]
<1>1. p \in Report
  BY DEF Report
<1>2. TypeOK'
  BY <1>1 DEF FinishTask, IInv, TypeOK
<1>3. held' \subseteq held /\ UNCHANGED <<task, proc>> /\ posts' = posts \union {p}
  BY DEF FinishTask
<1>4. HolderOwns'
  BY <1>3 DEF IInv, HolderOwns
<1>5. Spent(t, c)'
  <2>1. task[t].claim = c /\ task[t].worker = w
    BY DEF FinishTask, IInv, HolderOwns
  <2>2. \A v \in Workers : <<v, t, c>> \notin held'
    BY <2>1 DEF FinishTask, IInv, HolderOwns
  <2>3. c <= task'[t].claim
    BY <1>3, <2>1 DEF ClaimIds
  <2>4. QED
    BY <2>2, <2>3 DEF Spent, Stopped
<1>6. ReportsSpent'
  <2> SUFFICES ASSUME NEW q \in posts' PROVE Spent(q.task, q.claim)'
    BY DEF ReportsSpent
  <2>1. CASE q = p
    BY <1>5, <2>1
  <2>2. CASE q \in posts
    BY <1>3, <2>2, HoldersLeave DEF IInv, ReportsSpent, TypeOK, Report
  <2>3. QED
    BY <1>3, <2>1, <2>2
<1>7. OrphansSpent' /\ CutoffSpent'
  BY <1>3, HoldersLeave DEF FinishTask, IInv, OrphansSpent, CutoffSpent
<1>8. QED
  BY <1>2, <1>4, <1>6, <1>7 DEF IInv

LEMMA ProcessStopsPreserves ==
    ASSUME IInv, NEW w \in Workers, ProcessStops(w)
    PROVE  IInv'
<1> DEFINE mine == {h \in held : h[1] = w}
<1>1. held' = held \ mine /\ UNCHANGED <<task, orphans, cutoff>>
  BY DEF ProcessStops
<1>2. PICK posted \in SUBSET mine :
         posts' = posts \union {[task |-> h[2], claim |-> h[3], result |-> "shutdown"] : h \in posted}
  BY DEF ProcessStops
<1>3. \A h \in posted : h[2] \in Tasks /\ h[3] \in ClaimIds /\ h = <<w, h[2], h[3]>> /\ h \in held
  BY DEF IInv, TypeOK
<1>4. \A q \in posts' : q \in posts \/ \E h \in posted : q = [task |-> h[2], claim |-> h[3], result |-> "shutdown"]
  BY <1>2
<1>5. posts' \in SUBSET Report
  BY <1>3, <1>4 DEF IInv, TypeOK, Report, WorkerResults
<1>6. TypeOK'
  BY <1>1, <1>5 DEF ProcessStops, IInv, TypeOK
<1>7. HolderOwns'
  <2> SUFFICES ASSUME NEW v \in Workers, NEW t \in Tasks, NEW c \in ClaimIds, <<v, t, c>> \in held'
               PROVE  /\ proc'[v] = "ready"
                      /\ task'[t].claim = c /\ task'[t].worker = v
                      /\ task'[t].status \in {"running", "failed", "cancelled"}
    BY DEF HolderOwns
  <2>1. v # w
    BY <1>1
  <2>2. QED
    BY <1>1, <2>1 DEF ProcessStops, IInv, TypeOK, HolderOwns
<1>8. \A h \in posted : Spent(h[2], h[3])'
  <2> SUFFICES ASSUME NEW h \in posted PROVE Spent(h[2], h[3])'
    OBVIOUS
  <2>1. task[h[2]].claim = h[3] /\ task[h[2]].worker = w
    BY <1>3 DEF IInv, HolderOwns
  <2>2. \A v \in Workers : <<v, h[2], h[3]>> \notin held'
    BY <1>1, <1>3, <2>1 DEF IInv, HolderOwns
  <2>3. h[3] <= task'[h[2]].claim
    BY <1>1, <1>3, <2>1 DEF ClaimIds
  <2>4. QED
    BY <2>2, <2>3 DEF Spent, Stopped
<1>9. ReportsSpent'
  <2> SUFFICES ASSUME NEW q \in posts' PROVE Spent(q.task, q.claim)'
    BY DEF ReportsSpent
  <2>1. CASE q \in posts
    BY <1>1, <2>1, HoldersLeave DEF IInv, ReportsSpent, TypeOK, Report
  <2>2. CASE \E h \in posted : q = [task |-> h[2], claim |-> h[3], result |-> "shutdown"]
    BY <1>8, <2>2
  <2>3. QED
    BY <1>4, <2>1, <2>2
<1>10. OrphansSpent' /\ CutoffSpent'
  BY <1>1, HoldersLeave DEF IInv, OrphansSpent, CutoffSpent
<1>11. QED
  BY <1>6, <1>7, <1>9, <1>10 DEF IInv

LEMMA RegisterPreserves ==
    ASSUME IInv, NEW w \in Workers, RegisterEngine(w)
    PROVE  IInv'
<1> DEFINE freed(t) == task[t].worker = w /\ task[t].status \in {"pending", "suspended"}
           free(r) == [r EXCEPT !.worker = NoWorker, !.lease = "none"]
<1>a. \A r \in TaskRecord : free(r) \in TaskRecord /\ free(r).claim = r.claim /\ free(r).status = r.status
  BY DEF TaskRecord
<1>b. task' = [t \in Tasks |-> IF freed(t) THEN free(task[t]) ELSE task[t]]
  BY DEF RegisterEngine
<1>c. \A t \in Tasks : freed(t) => task[t].status \in {"pending", "suspended"}
  OBVIOUS
<1>d. \A t \in Tasks : task[t] \in TaskRecord /\ task[t].claim \in Nat
  BY BoundsAssumption DEF IInv, TypeOK, TaskRecord
<1> DEFINE mine == {o \in Tasks \X ClaimIds :
                       /\ task[o[1]].status = "running" /\ task[o[1]].claim = o[2]
                       /\ task[o[1]].worker = w}
<1>e. /\ proc[w] = "starting" /\ proc' = [proc EXCEPT ![w] = "registering"]
      /\ orphans' = [orphans EXCEPT ![w] = mine]
      /\ UNCHANGED <<resumes, progress, routers, starts, held, posts, cutoff>>
  BY DEF RegisterEngine
<1>f. mine \in SUBSET (Tasks \X ClaimIds)
      /\ \A t \in Tasks, c \in ClaimIds : <<t, c>> \in mine => task[t].claim = c /\ task[t].worker = w
  OBVIOUS
<1> HIDE DEF freed, free, mine
<1>1. \A t \in Tasks : task'[t] \in TaskRecord
  BY <1>a, <1>b, <1>d
<1>g. \A t \in Tasks : task'[t].claim = task[t].claim
  BY <1>a, <1>b, <1>d
<1>h. \A t \in Tasks : ~freed(t) => task'[t] = task[t]
  BY <1>b
<1>2. TypeOK'
  <2>1. task' \in [Tasks -> TaskRecord]
    BY <1>1, <1>b
  <2>2. orphans' \in [Owners -> SUBSET (Tasks \X ClaimIds)]
    BY <1>e, <1>f DEF IInv, TypeOK, Owners
  <2>3. QED
    BY <1>e, <2>1, <2>2 DEF IInv, TypeOK
<1>3. \A v \in Workers, t \in Tasks, c \in ClaimIds : <<v, t, c>> \in held =>
         v # w /\ ~freed(t)
  BY <1>c, <1>e DEF freed, IInv, HolderOwns
<1>4. HolderOwns'
  <2> SUFFICES ASSUME NEW v \in Workers, NEW t \in Tasks, NEW c \in ClaimIds, <<v, t, c>> \in held
               PROVE  /\ proc'[v] = "ready"
                      /\ task'[t].claim = c /\ task'[t].worker = v
                      /\ task'[t].status \in {"running", "failed", "cancelled"}
    BY <1>e DEF HolderOwns
  <2>1. task'[t] = task[t] /\ v # w
    BY <1>h, <1>3
  <2>2. proc'[v] = proc[v]
    BY <1>e, <2>1 DEF IInv, TypeOK
  <2>3. QED
    BY <2>1, <2>2 DEF IInv, HolderOwns
<1>5. \A t \in Tasks, c \in ClaimIds : Spent(t, c) => Spent(t, c)'
  BY <1>e, <1>g DEF Spent, Stopped
<1>6. ReportsSpent' /\ CutoffSpent'
  BY <1>5, <1>e DEF IInv, TypeOK, Report, ReportsSpent, CutoffSpent
<1>7. OrphansSpent'
  <2> SUFFICES ASSUME NEW x \in Owners, NEW t \in Tasks, NEW c \in ClaimIds, <<t, c>> \in orphans'[x]
               PROVE  Spent(t, c)'
    BY DEF OrphansSpent
  <2>1. CASE <<t, c>> \in orphans[x]
    BY <1>5, <2>1 DEF IInv, OrphansSpent
  <2>2. CASE <<t, c>> \notin orphans[x]
    <3>1. task[t].claim = c /\ task[t].worker = w
      BY <1>e, <1>f, <2>2 DEF IInv, TypeOK
    <3>2. \A v \in Workers : <<v, t, c>> \notin held
      BY <1>3, <3>1 DEF IInv, HolderOwns
    <3>3. QED
      BY <1>d, <1>e, <1>g, <3>1, <3>2 DEF Spent, Stopped
  <2>3. QED
    BY <2>1, <2>2
<1>8. QED
  BY <1>2, <1>4, <1>6, <1>7 DEF IInv

(* Only the process of the worker changes, and no process that executes a claim. *)
LEMMA ProcessMoves ==
    ASSUME IInv, NEW w \in Workers,
           NEW state \in {"starting", "registering", "ready"},
           proc' = [proc EXCEPT ![w] = state], proc[w] # "ready",
           starts' \in [Workers -> 0..MaxStarts],
           UNCHANGED <<task, resumes, progress, routers, held, posts, orphans, cutoff>>
    PROVE  IInv'
<1>1. TypeOK'
  BY DEF IInv, TypeOK
<1>2. HolderOwns'
  BY DEF IInv, TypeOK, HolderOwns
<1>3. ReportsSpent' /\ OrphansSpent' /\ CutoffSpent'
  BY HoldersLeave
<1>4. QED
  BY <1>1, <1>2, <1>3 DEF IInv

LEMMA EngineStepPreserves ==
    ASSUME IInv, NEW w \in Workers, EngineStep(w)
    PROVE  IInv'
<1>0. /\ starts \in [Workers -> 0..MaxStarts]
      /\ resumes \in [Tasks -> 0..MaxResumes] /\ routers \in [Tasks -> 0..MaxRouters]
  BY DEF IInv, TypeOK
<1>1. ASSUME NEW t \in Tasks, AssignNextTask(w, t) PROVE IInv'
  BY <1>1, AssignPreserves
<1>2. ASSUME NEW t \in Tasks, NEW c \in ClaimIds, RenewLease(w, t, c) PROVE IInv'
  <2> DEFINE r == [task[t] EXCEPT !.lease = "live"]
  <2>1. r \in TaskRecord /\ r.claim = task[t].claim /\ r.worker = task[t].worker
        /\ r.status = task[t].status
    BY DEF IInv, TypeOK, TaskRecord
  <2>2. task' = [task EXCEPT ![t] = r]
    BY <1>2 DEF RenewLease
  <2> HIDE DEF r
  <2>3. QED
    BY <1>0, <1>2, <2>1, <2>2, RecordStepPreserves DEF RenewLease, engine
<1>3. ASSUME NEW t \in Tasks, NEW c \in ClaimIds, WriteStep(w, t, c) PROVE IInv'
  <2>1. /\ progress' \in SUBSET Tasks
        /\ UNCHANGED <<task, resumes, routers, proc, starts, held, posts, orphans, cutoff>>
    BY <1>3 DEF WriteStep, engine, IInv, TypeOK
  <2>2. TypeOK' /\ HolderOwns'
    BY <2>1 DEF IInv, TypeOK, HolderOwns
  <2>3. ReportsSpent' /\ OrphansSpent' /\ CutoffSpent'
    BY <2>1, HoldersLeave
  <2>4. QED
    BY <2>2, <2>3 DEF IInv
<1>4. ASSUME NEW t \in Tasks, NEW c \in ClaimIds, WorkerFinishes(w, t, c) PROVE IInv'
  <2>1. PICK result \in {"finish", "dispatch", "fail"} : FinishTask(w, t, c, result)
    BY <1>4 DEF WorkerFinishes
  <2>2. QED
    BY <2>1, FinishPreserves DEF WorkerResults
<1>5. ASSUME NEW t \in Tasks, NEW c \in ClaimIds, StopRefused(w, t, c) PROVE IInv'
  BY <1>5, FinishPreserves DEF StopRefused, WorkerResults
<1>6. CASE ProcessStops(w)
  BY <1>6, ProcessStopsPreserves
<1>7. CASE ProcessStarts(w)
  <2>1. starts' \in [Workers -> 0..MaxStarts]
    BY <1>0, <1>7, BoundsAssumption DEF ProcessStarts
  <2>2. QED
    BY <1>7, <2>1, ProcessMoves DEF ProcessStarts
<1>8. CASE RegisterEngine(w)
  BY <1>8, RegisterPreserves
<1>9. CASE RegistrationGivenUp(w)
  BY <1>0, <1>9, ProcessMoves DEF RegistrationGivenUp
<1>10. CASE RegisteredWithoutOrphans(w)
  BY <1>0, <1>10, ProcessMoves DEF RegisteredWithoutOrphans
<1>11. QED
  BY <1>1, <1>2, <1>3, <1>4, <1>5, <1>6, <1>7, <1>8, <1>9, <1>10 DEF EngineStep

(* The only report that moves a running task is that of its current claim, and *)
(* whoever posted it has stopped.                                             *)
LEMMA ReportStepPreserves ==
    ASSUME IInv, ReportStep
    PROVE  IInv'
<1>1. PICK p \in posts : ReportAccepted(p) \/ ReportOnEnded(p) \/ ReportGone(p)
  BY DEF ReportStep
<1> DEFINE t == p.task
<1>2. /\ t \in Tasks /\ p.claim \in ClaimIds /\ p.result \in WorkerResults
      /\ task[t] \in TaskRecord
      /\ resumes \in [Tasks -> 0..MaxResumes] /\ routers \in [Tasks -> 0..MaxRouters]
  BY DEF IInv, TypeOK, Report
<1> HIDE DEF t
<1>3. Spent(t, p.claim)
  BY DEF t, IInv, ReportsSpent
<1>4. CASE ReportAccepted(p)
  <2> DEFINE r == [task[t] EXCEPT !.doneClaim = task[t].claim, !.lease = "none"]
             ended == IF p.result # "shutdown" THEN p.result
                      ELSE IF t \in Silent THEN "cancelled" ELSE "fail"
             status == CASE ended = "cancelled" -> "cancelled"
                         [] ended = "fail" -> "failed"
                         [] OTHER -> "completed"
             action == IF p.result = "shutdown" THEN "cancelled" ELSE p.result
             dropped == [r EXCEPT !.status = "cancelled", !.route = "routed", !.action = action]
             done == [r EXCEPT !.status = status, !.action = ended]
  <2>1. Stopped(t, task[t].claim)
    BY <1>3, <1>4 DEF ReportAccepted, Spent, t
  <2>2. r \in TaskRecord /\ r.claim = task[t].claim
    BY <1>2 DEF TaskRecord
  <2>3. /\ UNCHANGED <<resumes, progress, proc, starts, held, posts, orphans, cutoff>>
        /\ \/ task' = [task EXCEPT ![t] = dropped] /\ UNCHANGED routers
           \/ task' = [task EXCEPT ![t] = Requeue(r)] /\ UNCHANGED routers
           \/ /\ task' = [task EXCEPT ![t] = RouteReset(done)]
              /\ routers[t] < MaxRouters /\ routers' = [routers EXCEPT ![t] = @ + 1]
    BY <1>4 DEF ReportAccepted, AcceptReport, engine, t
  <2>4. ended \in {"finish", "dispatch", "fail", "cancelled"}
    BY <1>2 DEF WorkerResults
  <2>a. action \in ResultActions
    BY <1>2 DEF WorkerResults, ResultActions
  <2> HIDE DEF r, ended, action
  <2>5. status \in {"completed", "failed", "cancelled"}
    BY <2>4
  <2> HIDE DEF status
  <2>6. dropped \in TaskRecord /\ dropped.claim = r.claim
    BY <2>2, <2>a DEF TaskRecord, Status
  <2>7. done \in TaskRecord /\ done.claim = r.claim
    BY <2>2, <2>4, <2>5 DEF TaskRecord, Status, ResultActions
  <2>8. Requeue(r) \in TaskRecord /\ Requeue(r).claim = r.claim
    BY <2>2, TransitionTypes DEF Requeue, TaskRecord
  <2> HIDE DEF dropped, done
  <2>9. RouteReset(done) \in TaskRecord /\ RouteReset(done).claim = r.claim
    BY <2>7, TransitionTypes, ResetKeeps
  <2>10. PICK s \in TaskRecord : task' = [task EXCEPT ![t] = s] /\ s.claim = task[t].claim
    BY <2>2, <2>3, <2>6, <2>8, <2>9
  <2>11. routers' \in [Tasks -> 0..MaxRouters]
    BY <1>2, <2>3, RoutersUp DEF IInv
  <2>12. UNCHANGED <<resumes, progress, proc, starts, held, posts, orphans, cutoff>>
    BY <2>3
  <2>13. QED
    BY <1>2, <2>1, <2>10, <2>11, <2>12, RecordStepPreserves
<1>5. CASE ReportOnEnded(p)
  <2> DEFINE r == IF task[t].stopping = p.claim
                  THEN [task[t] EXCEPT !.stopping = 0, !.stopOver = FALSE] ELSE task[t]
             pushes == r.route # "routed" /\ ~IsStopping(r)
  <2>1. r \in TaskRecord /\ r.claim = task[t].claim /\ r.worker = task[t].worker
        /\ r.status = task[t].status
    <3> DEFINE cleared == [task[t] EXCEPT !.stopping = 0, !.stopOver = FALSE]
    <3>1. 0 \in 0..MaxClaims
      BY BoundsAssumption
    <3>2. /\ cleared \in TaskRecord /\ cleared.claim = task[t].claim
          /\ cleared.worker = task[t].worker /\ cleared.status = task[t].status
      BY <1>2, <3>1 DEF TaskRecord
    <3>3. r \in {cleared, task[t]}
      OBVIOUS
    <3> HIDE DEF r, cleared
    <3>4. QED
      BY <1>2, <3>2, <3>3
  <2>2. /\ UNCHANGED <<resumes, progress, proc, starts, held, posts, orphans, cutoff>>
        /\ task' = [task EXCEPT ![t] = r]
        /\ pushes => routers[t] < MaxRouters
        /\ routers' = [routers EXCEPT ![t] = IF pushes THEN @ + 1 ELSE @]
    BY <1>5 DEF ReportOnEnded, engine, t
  <2> HIDE DEF r, pushes
  <2>3. routers' \in [Tasks -> 0..MaxRouters]
    BY <1>2, <2>2, BoundsAssumption
  <2>4. QED
    BY <1>2, <2>1, <2>2, <2>3, RecordStepPreserves
<1>6. CASE ReportGone(p)
  <2>1. posts' \subseteq posts
        /\ UNCHANGED <<task, resumes, progress, routers, proc, starts, held, orphans, cutoff>>
    BY <1>6 DEF ReportGone, engine
  <2>2. TypeOK' /\ HolderOwns'
    BY <2>1 DEF IInv, TypeOK, HolderOwns
  <2>3. \A u \in Tasks, c \in ClaimIds : Spent(u, c) => Spent(u, c)'
    BY <2>1, HoldersLeave
  <2>4. ReportsSpent' /\ OrphansSpent' /\ CutoffSpent'
    BY <2>1, <2>3 DEF IInv, TypeOK, Report, ReportsSpent, OrphansSpent, CutoffSpent
  <2>5. QED
    BY <2>2, <2>4 DEF IInv
<1>7. QED
  BY <1>1, <1>4, <1>5, <1>6

LEMMA SettledOrphanType ==
    ASSUME TypeOK, NEW t \in Tasks, NEW found, t \in found,
           NEW routed \in [found -> {"pending", "routed", "failed"}]
    PROVE  /\ SettledOrphan(t, routed) \in TaskRecord
           /\ SettledOrphan(t, routed).claim = task[t].claim
<1> DEFINE r == task[t]
           f == FailTask(r, TRUE)
<1>1. r \in TaskRecord
  BY DEF TypeOK
<1> HIDE DEF r
<1>2. Requeue(r) \in TaskRecord /\ Requeue(r).claim = r.claim
  BY <1>1, TransitionTypes DEF Requeue, TaskRecord
<1>3. CancelTask(r, TRUE) \in TaskRecord /\ CancelTask(r, TRUE).claim = r.claim
  BY <1>1, CancelTaskType
<1>4. f \in TaskRecord /\ f.claim = r.claim
  BY <1>1, FailTaskType
<1>5. routed[t] \in {"pending", "routed", "failed"}
  OBVIOUS
<1> HIDE DEF f
<1>6. [f EXCEPT !.route = routed[t]] \in TaskRecord /\ [f EXCEPT !.route = routed[t]].claim = r.claim
  BY <1>4, <1>5 DEF TaskRecord
<1>7. SettledOrphan(t, routed) \in {Requeue(r), CancelTask(r, TRUE), [f EXCEPT !.route = routed[t]]}
  BY DEF SettledOrphan, r, f
<1>8. QED
  BY <1>2, <1>3, <1>6, <1>7 DEF r

(* Whoever is settled as an orphan has no process that still executes it. *)
LEMMA SettlePreserves ==
    ASSUME IInv, NEW x \in Owners, SettleOrphans(x)
    PROVE  IInv'
<1> DEFINE found == {o[1] : o \in RunningClaims(orphans[x])}
<1>1. PICK settled \in SUBSET found, routed \in [found -> {"pending", "routed", "failed"}] :
         LET threads == {t \in settled : SettledOrphan(t, routed).status = "failed"
                                         /\ routed[t] = "pending"}
         IN /\ \A t \in threads : routers[t] < MaxRouters
            /\ task' = [t \in Tasks |-> IF t \in settled THEN SettledOrphan(t, routed) ELSE task[t]]
            /\ routers' = [t \in Tasks |-> IF t \in threads THEN routers[t] + 1 ELSE routers[t]]
  BY DEF SettleOrphans
<1>2. /\ orphans' = [orphans EXCEPT ![x] = {}]
      /\ proc' = IF x \in Workers /\ proc[x] = "registering"
                 THEN [proc EXCEPT ![x] = "ready"] ELSE proc
      /\ UNCHANGED <<resumes, progress, starts, held, posts, cutoff>>
  BY DEF SettleOrphans
<1>3. \A t \in found : t \in Tasks /\ Stopped(t, task[t].claim)
  <2> SUFFICES ASSUME NEW t \in found PROVE t \in Tasks /\ Stopped(t, task[t].claim)
    OBVIOUS
  <2>1. PICK o \in RunningClaims(orphans[x]) : t = o[1]
    OBVIOUS
  <2>2. o \in orphans[x] /\ o = <<t, o[2]>> /\ t \in Tasks /\ o[2] \in ClaimIds /\ task[t].claim = o[2]
    BY <2>1 DEF RunningClaims, IInv, TypeOK
  <2>3. QED
    BY <2>2 DEF IInv, OrphansSpent, Spent
<1> HIDE DEF found
<1>4. \A t \in Tasks : task'[t] = IF t \in settled THEN SettledOrphan(t, routed) ELSE task[t]
  BY <1>1
<1>s. \A t \in settled : SettledOrphan(t, routed) \in TaskRecord
  BY <1>3, SettledOrphanType DEF IInv
<1>u. \A t \in settled : SettledOrphan(t, routed).claim = task[t].claim
  BY <1>3, SettledOrphanType DEF IInv
<1>4a. \A t \in Tasks : task'[t] \in TaskRecord
  BY <1>4, <1>s DEF IInv, TypeOK
<1>4b. \A t \in Tasks : task'[t].claim = task[t].claim
  BY <1>4, <1>u
<1>4c. \A t \in Tasks : t \notin settled => task'[t] = task[t]
  BY <1>4
<1>5. routers' \in [Tasks -> 0..MaxRouters]
  BY <1>1, BoundsAssumption DEF IInv, TypeOK
<1>6. DOMAIN task' = Tasks /\ task' = [t \in Tasks |-> task'[t]]
  BY <1>1
<1>7. TypeOK'
  <2>1. task' \in [Tasks -> TaskRecord]
    BY <1>4a, <1>6
  <2>2. orphans' \in [Owners -> SUBSET (Tasks \X ClaimIds)]
    BY <1>2 DEF IInv, TypeOK
  <2>3. proc' \in [Workers -> {"down", "starting", "registering", "ready"}]
    BY <1>2 DEF IInv, TypeOK
  <2>4. QED
    BY <1>2, <1>5, <2>1, <2>2, <2>3 DEF IInv, TypeOK
<1>8. \A t \in Tasks, c \in ClaimIds : Spent(t, c) => Spent(t, c)'
  BY <1>2, <1>4b DEF Spent, Stopped
<1>9. HolderOwns'
  <2> SUFFICES ASSUME NEW v \in Workers, NEW t \in Tasks, NEW c \in ClaimIds, <<v, t, c>> \in held
               PROVE  /\ proc'[v] = "ready"
                      /\ task'[t].claim = c /\ task'[t].worker = v
                      /\ task'[t].status \in {"running", "failed", "cancelled"}
    BY <1>2 DEF HolderOwns
  <2>1. /\ proc[v] = "ready" /\ task[t].claim = c /\ task[t].worker = v
        /\ task[t].status \in {"running", "failed", "cancelled"}
    BY DEF IInv, HolderOwns
  <2>2. t \notin settled
    BY <1>3, <2>1 DEF Stopped
  <2>3. proc'[v] = "ready"
    BY <1>2, <2>1 DEF IInv, TypeOK
  <2>4. QED
    BY <1>4c, <2>1, <2>2, <2>3
<1>10. ReportsSpent' /\ CutoffSpent'
  BY <1>2, <1>8 DEF IInv, TypeOK, Report, ReportsSpent, CutoffSpent
<1>11. OrphansSpent'
  BY <1>2, <1>8 DEF IInv, TypeOK, OrphansSpent
<1>12. QED
  BY <1>7, <1>9, <1>10, <1>11 DEF IInv

LEMMA RestartStepPreserves ==
    ASSUME IInv, RestartStep
    PROVE  IInv'
<1>1. CASE EnginesStopped
  <2>1. \A w \in Workers, t \in Tasks, c \in ClaimIds : <<w, t, c>> \notin held
    BY <1>1 DEF EnginesStopped, IInv, HolderOwns
  <2>2. cutoff' \in SUBSET (Tasks \X ClaimIds)
        /\ \A t \in Tasks, c \in ClaimIds : <<t, c>> \in cutoff' => c = task[t].claim
    BY <1>1 DEF EnginesStopped, RunningClaims
  <2>3. UNCHANGED <<task, resumes, progress, routers, proc, starts, held, posts, orphans>>
    BY <1>1 DEF EnginesStopped, engine
  <2>4. TypeOK' /\ HolderOwns'
    BY <2>2, <2>3 DEF IInv, TypeOK, HolderOwns
  <2>5. CutoffSpent'
    BY <2>1, <2>2, <2>3 DEF CutoffSpent, Spent, Stopped, ClaimIds
  <2>6. ReportsSpent' /\ OrphansSpent'
    BY <2>3 DEF IInv, ReportsSpent, OrphansSpent, Spent, Stopped
  <2>7. QED
    BY <2>4, <2>5, <2>6 DEF IInv
<1>2. CASE CollectRestartOrphans
  <2>1. /\ orphans' = [orphans EXCEPT ![Restart] = RunningClaims(cutoff)]
        /\ cutoff' = {}
        /\ UNCHANGED <<task, resumes, progress, routers, proc, starts, held, posts>>
    BY <1>2 DEF CollectRestartOrphans, engine
  <2>2. RunningClaims(cutoff) \subseteq cutoff
    BY DEF RunningClaims
  <2> HIDE DEF RunningClaims
  <2>3. TypeOK'
    BY <2>1, <2>2 DEF IInv, TypeOK, Owners
  <2>4. HolderOwns'
    BY <2>1 DEF IInv, HolderOwns
  <2>5. \A t \in Tasks, c \in ClaimIds : Spent(t, c) => Spent(t, c)'
    BY <2>1, HoldersLeave
  <2>6. OrphansSpent'
    BY <2>1, <2>2, <2>5 DEF IInv, TypeOK, OrphansSpent, CutoffSpent
  <2>7. ReportsSpent' /\ CutoffSpent'
    BY <2>1, <2>5 DEF IInv, TypeOK, Report, ReportsSpent, CutoffSpent
  <2>8. QED
    BY <2>3, <2>4, <2>6, <2>7 DEF IInv
<1>3. CASE \E x \in Owners : SettleOrphans(x)
  BY <1>3, SettlePreserves
<1>4. QED
  BY <1>1, <1>2, <1>3 DEF RestartStep

-----------------------------------------------------------------------------
LEMMA InitInvariant ==
    ASSUME Init
    PROVE  IInv
<1>1. 0 \in 0..MaxClaims /\ 0 \in 0..MaxResumes /\ 0 \in 0..MaxStarts /\ 0 \in 0..MaxRouters
  BY BoundsAssumption
<1> DEFINE r0 == [
        status |-> "pending", action |-> "none", cancelReq |-> FALSE,
        worker |-> NoWorker, claim |-> 0, doneClaim |-> 0, lease |-> "none",
        route |-> "pending", delivery |-> FALSE, stopping |-> 0, stopOver |-> FALSE,
        requeued |-> FALSE, unrecorded |-> FALSE]
<1>2. r0 \in TaskRecord
  BY <1>1 DEF TaskRecord, Status, ResultActions
<1> HIDE DEF r0
<1>3. task = [t \in Tasks |-> r0]
  BY DEF Init, r0
<1>4. TypeOK
  BY <1>1, <1>2, <1>3 DEF Init, TypeOK
<1>5. HolderOwns /\ ReportsSpent /\ OrphansSpent /\ CutoffSpent
  BY DEF Init, HolderOwns, ReportsSpent, OrphansSpent, CutoffSpent
<1>6. QED
  BY <1>4, <1>5 DEF IInv

LEMMA NextInvariant ==
    ASSUME IInv, [Next]_vars
    PROVE  IInv'
<1>1. CASE UNCHANGED vars
  BY <1>1 DEF vars, IInv, TypeOK, HolderOwns, ReportsSpent, OrphansSpent, CutoffSpent, Spent, Stopped
<1>2. CASE Next
  BY <1>2, EngineStepPreserves, ReportStepPreserves, TaskStepPreserves, RestartStepPreserves DEF Next
<1>3. QED
  BY <1>1, <1>2

(* The inductive invariant holds of every behaviour, for every set of tasks   *)
(* and workers and every bound.                                               *)
THEOREM InductiveInvariant == Spec => []IInv
BY InitInvariant, NextInvariant, PTL DEF Spec

(* Type correctness: claims, reports, orphan lists and counters keep their    *)
(* ranges in every behaviour.                                                 *)
THEOREM TypeCorrect == Spec => []TypeOK
<1>1. IInv => TypeOK
  BY DEF IInv
<1>2. QED
  BY <1>1, InductiveInvariant, PTL

(* No task is ever executed by two engine processes, or under two claims.     *)
THEOREM TaskRunsOnce == Spec => []SingleExecution
<1>1. IInv => SingleExecution
  <2> SUFFICES ASSUME IInv, NEW g \in held, NEW h \in held, g[2] = h[2]
               PROVE  g = h
    BY DEF SingleExecution
  <2>1. /\ g = <<g[1], g[2], g[3]>> /\ g[1] \in Workers /\ g[2] \in Tasks /\ g[3] \in ClaimIds
        /\ h = <<h[1], h[2], h[3]>> /\ h[1] \in Workers /\ h[2] \in Tasks /\ h[3] \in ClaimIds
    BY DEF IInv, TypeOK
  <2>2. g[3] = h[3] /\ g[1] = h[1]
    BY <2>1 DEF IInv, HolderOwns
  <2>3. QED
    BY <2>1, <2>2
<1>2. QED
  BY <1>1, InductiveInvariant, PTL

(* Nobody executes a task that is queued, suspended or completed: what is     *)
(* handed out next starts from a conversation nobody writes to.               *)
THEOREM QueuedTasksAreQuiet == Spec => []QuietWhenQueued
<1>1. IInv => QuietWhenQueued
  <2> SUFFICES ASSUME IInv, NEW h \in held
               PROVE  task[h[2]].status \notin {"pending", "suspended", "completed"}
    BY DEF QuietWhenQueued
  <2>1. h = <<h[1], h[2], h[3]>> /\ h[1] \in Workers /\ h[2] \in Tasks /\ h[3] \in ClaimIds
    BY DEF IInv, TypeOK
  <2>2. task[h[2]].status \in {"running", "failed", "cancelled"}
    BY <2>1 DEF IInv, HolderOwns
  <2>3. QED
    BY <2>2
<1>2. QED
  BY <1>1, InductiveInvariant, PTL

-----------------------------------------------------------------------------
(* What a step may make of a record.                                          *)

\* Claims made, counted with the one a queued task will get, less the one requeue.
Used(r) == r.claim + (IF r.status = "pending" THEN 1 ELSE 0) - (IF r.requeued THEN 1 ELSE 0)

StopsWhenFailed(r) == r.stopping # 0 => r.status = "failed"

\* An outcome stays, a cancel sticks, a worker is to stop only for a failure.
Lasts(r, s) ==
    /\ Over(r) => s.status = r.status /\ s.action = r.action
    /\ r.cancelReq => s.cancelReq /\ s.status \in {r.status, "cancelled", "failed"}
    /\ StopsWhenFailed(s)

\* waiting: the threads in the route slot, one of which may take the step.
RoutesInTime(r, s, waiting) ==
    IsStopping(s) /\ s.route # "pending" =>
        IsStopping(r) /\ (r.route # "pending" \/ waiting > 0)

Honest(r, s, waiting) == Lasts(r, s) /\ RoutesInTime(r, s, waiting) /\ Used(s) <= Used(r)

LEMMA UsedIs == ASSUME NEW r \in TaskRecord PROVE Used(r) \in Int /\ r.claim \in Nat
BY BoundsAssumption DEF Used, TaskRecord

LEMMA StaysHonest ==
    ASSUME NEW r \in TaskRecord, StopsWhenFailed(r), NEW waiting \in Nat
    PROVE  Honest(r, r, waiting)
BY UsedIs DEF Honest, Lasts, RoutesInTime

\* The fields these facts are about.
LEMMA SameFields ==
    ASSUME NEW r \in TaskRecord, StopsWhenFailed(r), NEW waiting \in Nat, NEW s \in TaskRecord,
           s.status = r.status, s.action = r.action, s.claim = r.claim, s.requeued = r.requeued,
           r.cancelReq => s.cancelReq,
           s.stopping = 0 \/ (s.stopping = r.stopping /\ (r.stopOver => s.stopOver)),
           s.route = r.route
    PROVE  Honest(r, s, waiting)
<1>1. Used(s) = Used(r)
  BY DEF Used
<1>2. RoutesInTime(r, s, waiting)
  BY DEF RoutesInTime, IsStopping, TaskRecord
<1>3. Lasts(r, s)
  BY DEF Lasts, StopsWhenFailed, TaskRecord
<1>4. QED
  BY <1>1, <1>2, <1>3, UsedIs DEF Honest

LEMMA FailHonest ==
    ASSUME NEW r \in TaskRecord, ~IsTerminal(r), NEW waiting \in Nat, NEW gone \in BOOLEAN
    PROVE  /\ Honest(r, FailTask(r, gone), waiting)
           /\ FailTask(r, gone).route = "pending"
           /\ gone => FailTask(r, gone).stopping = 0
<1> DEFINE f == FailTask(r, gone)
<1>1. /\ f \in TaskRecord /\ f.status = "failed" /\ f.claim = r.claim
  BY FailTaskType
<1>2. f.requeued = r.requeued /\ f.cancelReq = TRUE /\ f.route = "pending" /\ (gone => f.stopping = 0)
  BY DEF FailTask, ApplyFailure, RouteReset, TaskRecord
<1> HIDE DEF f
<1>3. r.status # "failed" /\ ~Over(r)
  BY DEF IsTerminal, Terminal, Over
<1>4. Used(f) <= Used(r)
  <2>1. Used(f) = f.claim - (IF f.requeued THEN 1 ELSE 0)
    BY <1>1, UsedIs DEF Used
  <2>2. QED
    BY <1>1, <1>2, <2>1, UsedIs DEF Used
<1>5. Lasts(r, f) /\ RoutesInTime(r, f, waiting)
  BY <1>1, <1>2, <1>3 DEF Lasts, RoutesInTime, StopsWhenFailed
<1>6. QED
  BY <1>2, <1>4, <1>5 DEF Honest, f

LEMMA TerminateHonest ==
    ASSUME NEW r \in TaskRecord, StopsWhenFailed(r), ~Over(r), NEW waiting \in Nat
    PROVE  /\ Honest(r, TerminateCancelled(r), waiting)
           /\ TerminateCancelled(r).stopping = 0
<1> DEFINE c == TerminateCancelled(r)
<1>1. /\ c \in TaskRecord /\ c.status = "cancelled" /\ c.claim = r.claim /\ c.requeued = r.requeued
      /\ c.cancelReq = TRUE /\ c.stopping = r.stopping
  BY TransitionTypes DEF TerminateCancelled, TaskRecord
<1> HIDE DEF c
<1>2. c.stopping = 0
  BY <1>1 DEF StopsWhenFailed, Over
<1>3. Used(c) <= Used(r)
  <2>1. Used(c) = c.claim - (IF c.requeued THEN 1 ELSE 0)
    BY <1>1, UsedIs DEF Used
  <2>2. QED
    BY <1>1, <2>1, UsedIs DEF Used
<1>4. Lasts(r, c) /\ RoutesInTime(r, c, waiting)
  BY <1>1, <1>2 DEF Lasts, RoutesInTime, StopsWhenFailed, IsStopping
<1>5. QED
  BY <1>2, <1>3, <1>4 DEF Honest, c

LEMMA CancelHonest ==
    ASSUME NEW r \in TaskRecord, StopsWhenFailed(r), NEW waiting \in Nat, NEW force \in BOOLEAN
    PROVE  Honest(r, CancelTask(r, force), waiting)
<1> DEFINE q == [r EXCEPT !.cancelReq = TRUE]
<1>1. /\ q \in TaskRecord /\ q.status = r.status /\ q.action = r.action /\ q.claim = r.claim
      /\ q.requeued = r.requeued /\ q.cancelReq = TRUE /\ q.stopping = r.stopping
      /\ q.stopOver = r.stopOver /\ q.route = r.route
  BY DEF TaskRecord
<1> HIDE DEF q
<1>2. Honest(r, q, waiting) /\ Honest(r, r, waiting)
  BY <1>1, SameFields, StaysHonest
<1>3. ~IsTerminal(r) => Honest(r, TerminateCancelled(r), waiting)
  BY TerminateHonest DEF IsTerminal, Terminal, Over
<1>4. QED
  BY <1>2, <1>3 DEF CancelTask, q

LEMMA RequeueHonest ==
    ASSUME NEW r \in TaskRecord, r.status = "running", ~r.requeued, ~r.cancelReq, StopsWhenFailed(r),
           NEW waiting \in Nat
    PROVE  Honest(r, Requeue(r), waiting)
<1> DEFINE q == Requeue(r)
<1>1. /\ q \in TaskRecord /\ q.status = "pending" /\ q.claim = r.claim /\ q.requeued = TRUE
      /\ q.stopping = r.stopping
  BY TransitionTypes DEF Requeue, TaskRecord
<1> HIDE DEF q
<1>2. q.stopping = 0
  BY <1>1 DEF StopsWhenFailed
<1>3. Used(q) = r.claim /\ Used(r) = r.claim
  BY <1>1, UsedIs DEF Used
<1>4. QED
  BY <1>1, <1>2, <1>3, UsedIs DEF Honest, Lasts, RoutesInTime, StopsWhenFailed, IsStopping, Over, q

\* A routed failure: nothing but the route changes, and its worker is not waited for.
LEMMA RouteFailureHonest ==
    ASSUME NEW r \in TaskRecord, NEW f \in TaskRecord, f.status = "failed", ~IsStopping(f),
           NEW waiting \in Nat, Honest(r, f, waiting), NEW s \in RouteResults(f)
    PROVE  Honest(r, s, waiting)
<1>1. s = Routed(f) \/ s = RouteFailed(f)
  BY DEF RouteResults
<1>2. /\ s \in TaskRecord /\ s.status = f.status /\ s.action = f.action /\ s.claim = f.claim
      /\ s.requeued = f.requeued /\ s.cancelReq = f.cancelReq /\ s.stopping = f.stopping
      /\ s.stopOver = f.stopOver
  BY <1>1, TransitionTypes DEF Routed, RouteFailed, TaskRecord
<1>3. Used(s) = Used(f)
  BY <1>2 DEF Used
<1>4. QED
  BY <1>2, <1>3 DEF Honest, Lasts, RoutesInTime, StopsWhenFailed, IsStopping

\* A thread that waited in the route slot routes whatever it finds.
LEMMA RouteHonest ==
    ASSUME NEW r \in TaskRecord, StopsWhenFailed(r), r.route # "routed", NEW s \in RouteResults(r),
           NEW waiting \in Nat, waiting > 0
    PROVE  Honest(r, s, waiting)
<1> DEFINE Moved(q, v) == [q EXCEPT !.route = v]
<1>1. \A q \in TaskRecord : Routed(q) = Moved(q, "routed") /\ RouteFailed(q) = Moved(q, "failed")
  BY DEF Routed, RouteFailed
<1>2. ASSUME NEW q \in TaskRecord, NEW v \in {"routed", "failed"}
      PROVE  LET m == Moved(q, v)
             IN /\ m \in TaskRecord /\ m.status = q.status /\ m.action = q.action /\ m.claim = q.claim
                /\ m.requeued = q.requeued /\ m.cancelReq = q.cancelReq /\ m.stopping = q.stopping
                /\ m.stopOver = q.stopOver
  BY DEF TaskRecord
<1> HIDE DEF Moved
<1>3. ASSUME NEW q \in TaskRecord, NEW v \in {"routed", "failed"}, Honest(r, q, waiting),
             q.stopping \in {0, r.stopping}, q.stopping # 0 => q.stopOver = r.stopOver
      PROVE  Honest(r, Moved(q, v), waiting)
  <2>1. Used(Moved(q, v)) = Used(q)
    BY <1>2 DEF Used
  <2>2. Lasts(r, Moved(q, v))
    BY <1>2, <1>3 DEF Honest, Lasts, StopsWhenFailed
  <2>3. RoutesInTime(r, Moved(q, v), waiting)
    BY <1>2, <1>3 DEF RoutesInTime, IsStopping
  <2>4. QED
    BY <1>3, <2>1, <2>2, <2>3 DEF Honest
<1>4. Honest(r, Routed(r), waiting) /\ Honest(r, RouteFailed(r), waiting)
  BY <1>1, <1>3, StaysHonest
<1>5. CASE r.status = "completed" /\ r.action = "dispatch"
  <2>1. ~Over(r) /\ r.stopping = 0
    BY <1>5 DEF Over, StopsWhenFailed
  <2>2. CASE s = Routed(TerminateCancelled(r))
    <3>1. TerminateCancelled(r) \in TaskRecord /\ Honest(r, TerminateCancelled(r), waiting)
          /\ TerminateCancelled(r).stopping = 0
      BY <2>1, TransitionTypes, TerminateHonest
    <3>2. QED
      BY <1>1, <1>3, <2>2, <3>1
  <2>3. CASE s = Routed(ApplyFailure(r))
    <3> DEFINE a == ApplyFailure(r)
    <3>1. /\ a \in TaskRecord /\ a.status = "failed" /\ a.claim = r.claim /\ a.requeued = r.requeued
          /\ a.cancelReq = TRUE /\ a.stopping = r.stopping
      BY TransitionTypes DEF ApplyFailure, TaskRecord
    <3> HIDE DEF a
    <3>2. Used(a) <= Used(r)
      BY <1>5, <3>1, UsedIs DEF Used
    <3>3. Honest(r, a, waiting)
      BY <2>1, <3>1, <3>2 DEF Honest, Lasts, RoutesInTime, StopsWhenFailed, IsStopping
    <3>4. QED
      BY <1>1, <1>3, <2>1, <2>3, <3>1, <3>3 DEF a
  <2>4. CASE s = [Routed(r) EXCEPT !.status = "suspended", !.worker = NoWorker, !.lease = "none"] /\ ~r.cancelReq
    <3> DEFINE q == Routed(r)
               u == [q EXCEPT !.status = "suspended", !.worker = NoWorker, !.lease = "none"]
    <3>1. q \in TaskRecord /\ q.claim = r.claim /\ q.requeued = r.requeued /\ q.stopping = 0
      BY <1>1, <1>2, <2>1
    <3> HIDE DEF q
    <3>2. /\ u \in TaskRecord /\ u.status = "suspended" /\ u.claim = r.claim /\ u.requeued = r.requeued
          /\ u.stopping = 0
      BY <3>1 DEF TaskRecord, Status
    <3> HIDE DEF u
    <3>3. Used(u) <= Used(r)
      BY <1>5, <3>2, UsedIs DEF Used
    <3>4. s = u
      BY <2>4 DEF u, q
    <3>5. QED
      BY <2>1, <2>4, <3>2, <3>3, <3>4 DEF Honest, Lasts, RoutesInTime, StopsWhenFailed, IsStopping
  <2>5. QED
    BY <1>4, <1>5, <2>2, <2>3, <2>4 DEF RouteResults
<1>6. CASE ~(r.status = "completed" /\ r.action = "dispatch")
  BY <1>4, <1>6 DEF RouteResults
<1>7. QED
  BY <1>5, <1>6

-----------------------------------------------------------------------------
(* What a step may make of all the records.                                  *)

CInv ==
    /\ IInv
    /\ \A t \in Tasks : StopsWhenFailed(task[t])
    /\ \A t \in Tasks : Used(task[t]) <= 1 + resumes[t]

HonestStep ==
    \A t \in Tasks :
        /\ Lasts(task[t], task'[t])
        /\ RoutesInTime(task[t], task'[t], routers[t])
        /\ Used(task'[t]) <= Used(task[t]) + (resumes'[t] - resumes[t])

LEMMA RoutersNat ==
    ASSUME CInv
    PROVE  \A t \in Tasks : routers[t] \in Nat
BY BoundsAssumption DEF CInv, IInv, TypeOK

LEMMA RecordsMove ==
    ASSUME CInv, UNCHANGED resumes,
           \A t \in Tasks : task'[t] \in TaskRecord /\ Honest(task[t], task'[t], routers[t])
    PROVE  HonestStep
<1> SUFFICES ASSUME NEW t \in Tasks
             PROVE  /\ Lasts(task[t], task'[t])
                    /\ RoutesInTime(task[t], task'[t], routers[t])
                    /\ Used(task'[t]) <= Used(task[t]) + (resumes'[t] - resumes[t])
  BY DEF HonestStep
<1>1. task[t] \in TaskRecord /\ resumes[t] \in Nat
  BY BoundsAssumption DEF CInv, IInv, TypeOK
<1>2. Used(task'[t]) \in Int /\ Used(task[t]) \in Int /\ resumes'[t] = resumes[t] /\ resumes[t] \in Int
  BY <1>1, UsedIs
<1>3. Used(task'[t]) <= Used(task[t])
  BY DEF Honest
<1>4. Used(task'[t]) <= Used(task[t]) + (resumes'[t] - resumes[t])
  BY <1>2, <1>3
<1>5. QED
  BY <1>4 DEF Honest

LEMMA OneMoves ==
    ASSUME CInv, NEW t \in Tasks, NEW s \in TaskRecord, task' = [task EXCEPT ![t] = s],
           Honest(task[t], s, routers[t]), UNCHANGED resumes
    PROVE  HonestStep
<1>1. task \in [Tasks -> TaskRecord]
  BY DEF CInv, IInv, TypeOK
<1>2. \A u \in Tasks : Honest(task[u], task[u], routers[u])
  BY <1>1, StaysHonest, RoutersNat DEF CInv
<1>3. \A u \in Tasks : task'[u] = IF u = t THEN s ELSE task[u]
  BY <1>1
<1>4. \A u \in Tasks : task'[u] \in TaskRecord /\ Honest(task[u], task'[u], routers[u])
  BY <1>1, <1>2, <1>3
<1>5. QED
  BY <1>4, RecordsMove

LEMMA NoneMoves ==
    ASSUME CInv, UNCHANGED <<task, resumes>>
    PROVE  HonestStep
<1>1. task \in [Tasks -> TaskRecord]
  BY DEF CInv, IInv, TypeOK
<1>2. \A u \in Tasks : task'[u] \in TaskRecord /\ Honest(task[u], task'[u], routers[u])
  BY <1>1, StaysHonest, RoutersNat DEF CInv
<1>3. QED
  BY <1>2, RecordsMove

\* A task that was not over moves to a record nobody waits for.
LEMMA QuietHonest ==
    ASSUME NEW r \in TaskRecord, ~Over(r), NEW s \in TaskRecord, s.stopping = 0,
           Used(s) <= Used(r),
           r.cancelReq => s.cancelReq /\ s.status \in {r.status, "cancelled", "failed"},
           NEW waiting \in Nat
    PROVE  Honest(r, s, waiting)
BY DEF Honest, Lasts, RoutesInTime, StopsWhenFailed, IsStopping

LEMMA AssignHonest ==
    ASSUME CInv, NEW w \in Workers, NEW t \in Tasks, AssignNextTask(w, t)
    PROVE  HonestStep
<1> DEFINE r == task[t]
           s == [r EXCEPT !.status = "running", !.worker = w, !.claim = r.claim + 1, !.lease = "live"]
<1>1. r \in TaskRecord /\ StopsWhenFailed(r)
  BY DEF CInv, IInv, TypeOK
<1>2. /\ r.status = "pending" /\ ~r.cancelReq /\ r.claim < MaxClaims
      /\ task' = [task EXCEPT ![t] = s] /\ UNCHANGED resumes
  BY DEF AssignNextTask
<1> HIDE DEF r
<1>3. r.claim + 1 \in 0..MaxClaims
  BY <1>1, <1>2, BoundsAssumption DEF TaskRecord
<1>4. /\ s \in TaskRecord /\ s.status = "running" /\ s.claim = r.claim + 1 /\ s.requeued = r.requeued
      /\ s.stopping = r.stopping
  BY <1>1, <1>3 DEF TaskRecord, Status
<1> HIDE DEF s
<1>5. Used(s) <= Used(r)
  BY <1>1, <1>2, <1>4, UsedIs DEF Used
<1>6. ~Over(r) /\ s.stopping = 0
  BY <1>1, <1>2, <1>4 DEF Over, StopsWhenFailed
<1>7. Honest(r, s, routers[t])
  BY <1>1, <1>2, <1>4, <1>5, <1>6, QuietHonest, RoutersNat
<1>8. QED
  BY <1>2, <1>4, <1>7, OneMoves DEF r

LEMMA SmallStepHonest ==
    ASSUME CInv, NEW t \in Tasks,
           \/ \E w \in Workers, c \in ClaimIds : RenewLease(w, t, c)
           \/ LeaseLapses(t)
           \/ StopGracePasses(t)
    PROVE  HonestStep
<1> DEFINE r == task[t]
<1>1. r \in TaskRecord /\ StopsWhenFailed(r) /\ DOMAIN task = Tasks
  BY DEF CInv, IInv, TypeOK
<1>2. PICK s \in {[r EXCEPT !.lease = "live"], [r EXCEPT !.lease = "lapsed"], [r EXCEPT !.stopOver = TRUE]} :
          task' = [task EXCEPT ![t] = s] /\ UNCHANGED resumes
  BY DEF RenewLease, LeaseLapses, StopGracePasses
<1> HIDE DEF r
<1>3. /\ s \in TaskRecord /\ s.status = r.status /\ s.action = r.action /\ s.claim = r.claim
      /\ s.requeued = r.requeued /\ s.cancelReq = r.cancelReq /\ s.stopping = r.stopping
      /\ (r.stopOver => s.stopOver) /\ s.route = r.route
  BY <1>1, <1>2 DEF TaskRecord
<1>4. Honest(r, s, routers[t])
  BY <1>1, <1>3, SameFields, RoutersNat
<1>5. QED
  BY <1>2, <1>3, <1>4, OneMoves DEF r

LEMMA ReportAcceptedHonest ==
    ASSUME CInv, NEW p \in posts, ReportAccepted(p)
    PROVE  HonestStep
<1> DEFINE t == p.task
           r == task[t]
           q == [r EXCEPT !.doneClaim = r.claim, !.lease = "none"]
<1>1. /\ t \in Tasks /\ r \in TaskRecord /\ StopsWhenFailed(r) /\ DOMAIN task = Tasks
      /\ p.result \in WorkerResults
  BY DEF CInv, IInv, TypeOK, Report
<1>2. r.status = "running" /\ UNCHANGED resumes
  BY DEF ReportAccepted, AcceptReport
<1>3. \/ /\ r.cancelReq
         /\ \E a \in ResultActions : task' = [task EXCEPT ![t] = [q EXCEPT !.status = "cancelled", !.route = "routed", !.action = a]]
      \/ ~q.cancelReq /\ ~q.requeued /\ task' = [task EXCEPT ![t] = Requeue(q)]
      \/ ~r.cancelReq /\ \E st \in Terminal, a \in ResultActions :
             task' = [task EXCEPT ![t] = RouteReset([q EXCEPT !.status = st, !.action = a])]
  <2> DEFINE ended == IF p.result # "shutdown" THEN p.result
                      ELSE IF p.task \in Silent THEN "cancelled" ELSE "fail"
             st == CASE ended = "cancelled" -> "cancelled" [] ended = "fail" -> "failed" [] OTHER -> "completed"
             a == IF p.result = "shutdown" THEN "cancelled" ELSE p.result
  <2>1. ended \in ResultActions /\ st \in Terminal /\ a \in ResultActions
    BY <1>1 DEF WorkerResults, ResultActions, Terminal
  <2>2. q.cancelReq = r.cancelReq
    BY <1>1 DEF TaskRecord
  <2>3. \/ r.cancelReq /\ task' = [task EXCEPT ![t] = [q EXCEPT !.status = "cancelled", !.route = "routed", !.action = a]]
        \/ ~q.cancelReq /\ ~q.requeued /\ task' = [task EXCEPT ![t] = Requeue(q)]
        \/ ~r.cancelReq /\ task' = [task EXCEPT ![t] = RouteReset([q EXCEPT !.status = st, !.action = ended])]
    BY <2>2 DEF ReportAccepted, AcceptReport, RequeueCandidate
  <2> HIDE DEF q, r, t, ended, st, a
  <2>4. QED
    BY <2>1, <2>3
<1>4. /\ q \in TaskRecord /\ q.status = r.status /\ q.action = r.action /\ q.claim = r.claim
      /\ q.requeued = r.requeued /\ q.cancelReq = r.cancelReq /\ q.stopping = r.stopping
  BY <1>1 DEF TaskRecord
<1> HIDE DEF q, r, t
<1>5. ~Over(r) /\ r.stopping = 0
  BY <1>1, <1>2 DEF Over, StopsWhenFailed
<1>6. Used(r) = r.claim - (IF r.requeued THEN 1 ELSE 0) /\ r.claim \in Nat
  BY <1>1, <1>2, UsedIs DEF Used
<1>7. PICK s : task' = [task EXCEPT ![t] = s] /\ s \in TaskRecord /\ s.stopping = 0
               /\ (r.cancelReq => s.cancelReq /\ s.status = "cancelled")
               /\ Used(s) <= Used(r)
  <2>1. CASE r.cancelReq /\ \E a \in ResultActions :
                task' = [task EXCEPT ![t] = [q EXCEPT !.status = "cancelled", !.route = "routed", !.action = a]]
    <3>1. PICK a \in ResultActions :
              task' = [task EXCEPT ![t] = [q EXCEPT !.status = "cancelled", !.route = "routed", !.action = a]]
      BY <2>1
    <3> DEFINE s == [q EXCEPT !.status = "cancelled", !.route = "routed", !.action = a]
    <3>2. /\ s \in TaskRecord /\ s.status = "cancelled" /\ s.cancelReq = q.cancelReq /\ s.claim = q.claim
          /\ s.requeued = q.requeued /\ s.stopping = q.stopping
      BY <1>4 DEF TaskRecord, Status
    <3> HIDE DEF s
    <3>3. Used(s) <= Used(r)
      BY <1>4, <1>6, <3>2 DEF Used
    <3>4. QED
      BY <1>4, <1>5, <2>1, <3>1, <3>2, <3>3 DEF s
  <2>2. CASE ~q.cancelReq /\ ~q.requeued /\ task' = [task EXCEPT ![t] = Requeue(q)]
    <3> DEFINE s == Requeue(q)
    <3>1. /\ s \in TaskRecord /\ s.status = "pending" /\ s.claim = q.claim /\ s.requeued = TRUE
          /\ s.stopping = q.stopping
      BY <1>4, TransitionTypes DEF Requeue, TaskRecord
    <3> HIDE DEF s
    <3>2. Used(s) <= Used(r)
      BY <1>4, <1>6, <2>2, <3>1 DEF Used
    <3>3. QED
      BY <1>4, <1>5, <2>2, <3>1, <3>2 DEF s
  <2>3. CASE ~r.cancelReq /\ \E st \in Terminal, a \in ResultActions :
                task' = [task EXCEPT ![t] = RouteReset([q EXCEPT !.status = st, !.action = a])]
    <3>1. PICK st \in Terminal, a \in ResultActions :
              task' = [task EXCEPT ![t] = RouteReset([q EXCEPT !.status = st, !.action = a])]
      BY <2>3
    <3> DEFINE e == [q EXCEPT !.status = st, !.action = a]
               s == RouteReset(e)
    <3>2. /\ e \in TaskRecord /\ e.status = st /\ e.claim = q.claim /\ e.requeued = q.requeued
          /\ e.stopping = q.stopping
      BY <1>4 DEF TaskRecord, Status, Terminal
    <3> HIDE DEF e
    <3>3. /\ s \in TaskRecord /\ s.status = e.status /\ s.claim = e.claim /\ s.requeued = e.requeued
          /\ s.stopping = e.stopping
      BY <3>2, TransitionTypes, ResetKeeps
    <3> HIDE DEF s
    <3>4. s.status # "pending"
      BY <3>2, <3>3 DEF Terminal
    <3>5. Used(s) <= Used(r)
      BY <1>4, <1>6, <3>2, <3>3, <3>4 DEF Used
    <3>6. QED
      BY <1>4, <1>5, <2>3, <3>1, <3>2, <3>3, <3>5 DEF s, e
  <2>4. QED
    BY <1>3, <2>1, <2>2, <2>3
<1>8. Honest(r, s, routers[t])
  BY <1>1, <1>5, <1>7, QuietHonest, RoutersNat
<1>9. QED
  BY <1>1, <1>2, <1>7, <1>8, OneMoves DEF r, t

\* The marker of the stopping worker is dropped.
LEMMA MarkerDropped ==
    ASSUME NEW r \in TaskRecord, NEW s, s = [r EXCEPT !.stopping = 0, !.stopOver = FALSE]
    PROVE  /\ s \in TaskRecord /\ s.status = r.status /\ s.action = r.action /\ s.claim = r.claim
           /\ s.requeued = r.requeued /\ s.cancelReq = r.cancelReq /\ s.route = r.route
           /\ s.stopping = 0
<1>1. 0 \in 0..MaxClaims
  BY BoundsAssumption
<1>2. s \in TaskRecord
  BY <1>1 DEF TaskRecord
<1>3. s.status = r.status /\ s.action = r.action /\ s.claim = r.claim
  BY DEF TaskRecord
<1>4. s.requeued = r.requeued /\ s.cancelReq = r.cancelReq /\ s.route = r.route /\ s.stopping = 0
  BY DEF TaskRecord
<1>5. QED
  BY <1>2, <1>3, <1>4

LEMMA ReportOnEndedHonest ==
    ASSUME CInv, NEW p \in posts, ReportOnEnded(p)
    PROVE  HonestStep
<1> DEFINE t == p.task
           r == task[t]
           z == [r EXCEPT !.stopping = 0, !.stopOver = FALSE]
           s == IF r.stopping = p.claim THEN z ELSE r
<1>1. t \in Tasks /\ r \in TaskRecord /\ StopsWhenFailed(r) /\ DOMAIN task = Tasks
  BY DEF CInv, IInv, TypeOK, Report
<1>2. task' = [task EXCEPT ![t] = s] /\ UNCHANGED resumes
  BY DEF ReportOnEnded
<1> HIDE DEF r, t
<1>z. /\ z \in TaskRecord /\ z.status = r.status /\ z.action = r.action /\ z.claim = r.claim
      /\ z.requeued = r.requeued /\ z.cancelReq = r.cancelReq /\ z.route = r.route /\ z.stopping = 0
  BY <1>1, MarkerDropped
<1> HIDE DEF z
<1>3. /\ s \in TaskRecord /\ s.status = r.status /\ s.action = r.action /\ s.claim = r.claim
      /\ s.requeued = r.requeued /\ s.cancelReq = r.cancelReq /\ s.route = r.route
  BY <1>1, <1>z
<1>4. s.stopping = 0 \/ (s.stopping = r.stopping /\ s.stopOver = r.stopOver)
  BY <1>z
<1> HIDE DEF s
<1>5. Honest(r, s, routers[t])
  BY <1>1, <1>3, <1>4, SameFields, RoutersNat
<1>6. QED
  BY <1>1, <1>2, <1>3, <1>5, OneMoves DEF r

LEMMA RouteCompletedHonest ==
    ASSUME CInv, NEW t \in Tasks, RouteCompleted(t)
    PROVE  HonestStep
<1>1. task[t] \in TaskRecord /\ StopsWhenFailed(task[t])
  BY DEF CInv, IInv, TypeOK
<1>2. CASE task[t].route = "routed"
  BY <1>2, NoneMoves DEF RouteCompleted
<1>3. CASE task[t].route # "routed"
  <2> DEFINE u == RouteUnrecorded(task[t])
  <2>1. PICK s \in RouteResults(task[t]) \union {u} : task' = [task EXCEPT ![t] = s]
    BY <1>3 DEF RouteCompleted
  <2>2. routers[t] > 0
    BY DEF RouteCompleted
  <2>3. CASE s \in RouteResults(task[t])
    <3>1. Honest(task[t], s, routers[t])
      BY <1>1, <1>3, <2>2, <2>3, RoutersNat, RouteHonest
    <3>2. s \in TaskRecord
      BY <1>1, <2>3, RouteResultsType
    <3>3. QED
      BY <2>1, <2>2, <3>1, <3>2, OneMoves DEF RouteCompleted
  <2>4. CASE s = u
    <3>1. /\ u \in TaskRecord /\ u.status = task[t].status /\ u.action = task[t].action
          /\ u.claim = task[t].claim /\ u.requeued = task[t].requeued
          /\ u.cancelReq = task[t].cancelReq /\ u.stopping = task[t].stopping
          /\ u.stopOver = task[t].stopOver /\ u.route = task[t].route
      BY <1>1, TransitionTypes DEF RouteUnrecorded, TaskRecord
    <3> HIDE DEF u
    <3>2. Honest(task[t], u, routers[t])
      BY <1>1, <3>1, SameFields, RoutersNat
    <3>3. QED
      BY <2>1, <2>4, <3>1, <3>2, OneMoves DEF RouteCompleted
  <2>5. QED
    BY <2>3, <2>4
<1>4. QED
  BY <1>2, <1>3

LEMMA ResumeHonest ==
    ASSUME CInv, NEW t \in Tasks, ResumeSuspended(t)
    PROVE  HonestStep
<1> DEFINE r == task[t]
           s == [r EXCEPT !.status = "pending", !.worker = NoWorker, !.lease = "none"]
<1>1. /\ r \in TaskRecord /\ StopsWhenFailed(r) /\ task \in [Tasks -> TaskRecord]
      /\ resumes \in [Tasks -> Nat]
  BY BoundsAssumption DEF CInv, IInv, TypeOK
<1>2. /\ r.status = "suspended" /\ ~r.cancelReq
      /\ task' = [task EXCEPT ![t] = s] /\ resumes' = [resumes EXCEPT ![t] = @ + 1]
  BY DEF ResumeSuspended
<1>r. \A u \in Tasks : task'[u] = IF u = t THEN s ELSE task[u]
  BY <1>1, <1>2
<1> HIDE DEF r
<1>3. /\ s \in TaskRecord /\ s.status = "pending" /\ s.claim = r.claim
      /\ s.requeued = r.requeued /\ s.stopping = r.stopping
  BY <1>1 DEF TaskRecord, Status
<1> HIDE DEF s
<1>4. ~Over(r) /\ s.stopping = 0
  BY <1>1, <1>2, <1>3 DEF Over, StopsWhenFailed
<1>5. Lasts(r, s) /\ RoutesInTime(r, s, routers[t])
  BY <1>2, <1>4 DEF Lasts, RoutesInTime, StopsWhenFailed, IsStopping
<1>6. Used(s) <= Used(r) + 1
  BY <1>1, <1>2, <1>3, UsedIs DEF Used
<1>7. \A u \in Tasks : resumes[u] \in Int /\ resumes'[u] - resumes[u] = IF u = t THEN 1 ELSE 0
  BY <1>1, <1>2
<1> SUFFICES ASSUME NEW u \in Tasks
             PROVE  /\ Lasts(task[u], task'[u])
                    /\ RoutesInTime(task[u], task'[u], routers[u])
                    /\ Used(task'[u]) <= Used(task[u]) + (resumes'[u] - resumes[u])
  BY DEF HonestStep
<1>8. CASE u = t
  BY <1>5, <1>6, <1>7, <1>8, <1>r DEF r
<1>9. CASE u # t
  <2>1. Honest(task[u], task[u], routers[u]) /\ Used(task[u]) \in Int
    BY <1>1, StaysHonest, RoutersNat, UsedIs DEF CInv
  <2>2. Used(task[u]) <= Used(task[u]) + (resumes'[u] - resumes[u])
    BY <1>7, <1>9, <2>1
  <2>3. QED
    BY <1>9, <1>r, <2>1, <2>2 DEF Honest
<1>10. QED
  BY <1>8, <1>9

LEMMA CancelIsHonest ==
    ASSUME CInv, NEW t \in Tasks, Cancel(t)
    PROVE  HonestStep
<1>1. task[t] \in TaskRecord /\ StopsWhenFailed(task[t])
  BY DEF CInv, IInv, TypeOK
<1>2. CancelTask(task[t], FALSE) \in TaskRecord
  BY <1>1, CancelTaskType
<1>3. Honest(task[t], CancelTask(task[t], FALSE), routers[t])
  BY <1>1, CancelHonest, RoutersNat
<1>4. QED
  BY <1>2, <1>3, OneMoves DEF Cancel

LEMMA FailAndRouteHonest ==
    ASSUME CInv, NEW t \in Tasks, NEW f \in TaskRecord, f.status = "failed",
           Honest(task[t], f, routers[t]), FailAndRoute(t, f), UNCHANGED resumes
    PROVE  HonestStep
<1>1. CASE task' = [task EXCEPT ![t] = f]
  BY <1>1, OneMoves
<1>2. CASE ~IsStopping(f) /\ \E routed \in RouteResults(f) : task' = [task EXCEPT ![t] = routed]
  <2>1. PICK s \in RouteResults(f) : task' = [task EXCEPT ![t] = s]
    BY <1>2
  <2>2. task[t] \in TaskRecord
    BY DEF CInv, IInv, TypeOK
  <2>3. Honest(task[t], s, routers[t])
    BY <1>2, <2>2, RouteFailureHonest, RoutersNat
  <2>4. s \in TaskRecord
    BY RouteResultsType
  <2>5. QED
    BY <2>1, <2>3, <2>4, OneMoves
<1>3. QED
  BY <1>1, <1>2 DEF FailAndRoute, RouteNow

LEMMA FailIsHonest ==
    ASSUME CInv, NEW t \in Tasks, Fail(t)
    PROVE  HonestStep
<1>1. task[t] \in TaskRecord /\ ~IsTerminal(task[t])
  BY DEF CInv, IInv, TypeOK, Fail
<1>2. FailTask(task[t], FALSE) \in TaskRecord /\ FailTask(task[t], FALSE).status = "failed"
  BY <1>1, FailTaskType
<1>3. Honest(task[t], FailTask(task[t], FALSE), routers[t])
  BY <1>1, FailHonest, RoutersNat
<1>4. QED
  BY <1>2, <1>3, FailAndRouteHonest DEF Fail

LEMMA TransitCheckHonest ==
    ASSUME CInv, NEW t \in Tasks, TransitCheck(t)
    PROVE  HonestStep
<1> DEFINE r == task[t]
           s == [r EXCEPT !.stopping = 0, !.stopOver = FALSE]
<1>1. r \in TaskRecord /\ StopsWhenFailed(r) /\ DOMAIN task = Tasks
  BY DEF CInv, IInv, TypeOK
<1>2. /\ r.stopping # 0 /\ UNCHANGED resumes
      /\ (task' = [task EXCEPT ![t] = s] \/ FailAndRoute(t, s))
  BY DEF TransitCheck
<1>r. r = task[t]
  OBVIOUS
<1> HIDE DEF r
<1>3. /\ s \in TaskRecord /\ s.status = r.status /\ s.action = r.action /\ s.claim = r.claim
      /\ s.requeued = r.requeued /\ s.cancelReq = r.cancelReq /\ s.route = r.route /\ s.stopping = 0
  BY <1>1, MarkerDropped
<1> HIDE DEF s
<1>4. s.status = "failed"
  BY <1>1, <1>2, <1>3 DEF StopsWhenFailed
<1>5. Honest(r, s, routers[t])
  BY <1>1, <1>3, SameFields, RoutersNat
<1>6. QED
  BY <1>2, <1>3, <1>4, <1>5, <1>r, OneMoves, FailAndRouteHonest

LEMMA RegisterHonest ==
    ASSUME CInv, NEW w \in Workers, RegisterEngine(w)
    PROVE  HonestStep
<1>1. task \in [Tasks -> TaskRecord] /\ UNCHANGED resumes
  BY DEF CInv, IInv, TypeOK, RegisterEngine
<1> SUFFICES ASSUME NEW t \in Tasks
             PROVE  task'[t] \in TaskRecord /\ Honest(task[t], task'[t], routers[t])
  BY <1>1, RecordsMove
<1> DEFINE r == task[t]
           s == [r EXCEPT !.worker = NoWorker, !.lease = "none"]
<1>2. r \in TaskRecord /\ StopsWhenFailed(r)
  BY <1>1 DEF CInv
<1>3. task'[t] = r \/ task'[t] = s
  BY DEF RegisterEngine
<1> HIDE DEF r
<1>4. /\ s \in TaskRecord /\ s.status = r.status /\ s.action = r.action /\ s.claim = r.claim
      /\ s.requeued = r.requeued /\ s.cancelReq = r.cancelReq /\ s.route = r.route
      /\ s.stopping = r.stopping /\ s.stopOver = r.stopOver
  BY <1>2 DEF TaskRecord
<1> HIDE DEF s
<1>5. Honest(r, s, routers[t]) /\ Honest(r, r, routers[t])
  BY <1>2, <1>4, SameFields, StaysHonest, RoutersNat
<1>6. QED
  BY <1>2, <1>3, <1>4, <1>5 DEF r

LEMMA SettledOrphanHonest ==
    ASSUME CInv, NEW t \in Tasks, task[t].status = "running", NEW found, t \in found,
           NEW routed \in [found -> {"pending", "routed", "failed"}]
    PROVE  Honest(task[t], SettledOrphan(t, routed), routers[t])
<1> DEFINE r == task[t]
           f == FailTask(r, TRUE)
           s == [f EXCEPT !.route = routed[t]]
<1>1. r \in TaskRecord /\ StopsWhenFailed(r) /\ r.status = "running"
  BY DEF CInv, IInv, TypeOK
<1>2. SettledOrphan(t, routed) =
          IF t \in progress /\ RequeueCandidate(t, r) THEN Requeue(r)
          ELSE IF t \in Silent THEN CancelTask(r, TRUE) ELSE s
  BY DEF SettledOrphan
<1> HIDE DEF r
<1>3. RequeueCandidate(t, r) => Honest(r, Requeue(r), routers[t])
  BY <1>1, RequeueHonest, RoutersNat DEF RequeueCandidate
<1>4. Honest(r, CancelTask(r, TRUE), routers[t])
  BY <1>1, CancelHonest, RoutersNat
<1>5. Honest(r, s, routers[t])
  <2>1. ~IsTerminal(r) /\ ~Over(r)
    BY <1>1 DEF IsTerminal, Terminal, Over
  <2>2. f \in TaskRecord /\ f.status = "failed" /\ f.stopping = 0 /\ Honest(r, f, routers[t])
    BY <1>1, <2>1, FailTaskType, FailHonest, RoutersNat
  <2> HIDE DEF f
  <2>3. /\ s \in TaskRecord /\ s.status = "failed" /\ s.claim = f.claim /\ s.requeued = f.requeued
        /\ s.stopping = 0 /\ s.cancelReq = f.cancelReq
    BY <2>2 DEF TaskRecord
  <2> HIDE DEF s
  <2>4. Used(s) = Used(f)
    BY <2>2, <2>3 DEF Used
  <2>5. Used(s) <= Used(r) /\ (r.cancelReq => s.cancelReq)
    BY <2>2, <2>3, <2>4 DEF Honest, Lasts
  <2>6. QED
    BY <1>1, <2>1, <2>3, <2>5, QuietHonest, RoutersNat
<1>6. QED
  BY <1>2, <1>3, <1>4, <1>5 DEF r

LEMMA SettleHonest ==
    ASSUME CInv, NEW x \in Owners, SettleOrphans(x)
    PROVE  HonestStep
<1> DEFINE found == {o[1] : o \in RunningClaims(orphans[x])}
<1>1. PICK settled \in SUBSET found, routed \in [found -> {"pending", "routed", "failed"}] :
         task' = [t \in Tasks |-> IF t \in settled THEN SettledOrphan(t, routed) ELSE task[t]]
  BY DEF SettleOrphans
<1>2. \A t \in found : t \in Tasks => task[t].status = "running"
  BY DEF RunningClaims
<1>3. task \in [Tasks -> TaskRecord] /\ TypeOK
  BY DEF CInv, IInv, TypeOK
<1> HIDE DEF found
<1> SUFFICES ASSUME NEW t \in Tasks
             PROVE  task'[t] \in TaskRecord /\ Honest(task[t], task'[t], routers[t])
  BY RecordsMove DEF SettleOrphans
<1>4. CASE t \in settled
  <2>1. task'[t] = SettledOrphan(t, routed) /\ t \in found /\ task[t].status = "running"
    BY <1>1, <1>2, <1>4
  <2>2. SettledOrphan(t, routed) \in TaskRecord
    BY <1>3, <2>1, SettledOrphanType
  <2>3. Honest(task[t], SettledOrphan(t, routed), routers[t])
    BY <2>1, SettledOrphanHonest
  <2>4. QED
    BY <2>1, <2>2, <2>3
<1>5. CASE t \notin settled
  <2>1. task'[t] = task[t]
    BY <1>1, <1>5
  <2>2. Honest(task[t], task[t], routers[t])
    BY <1>3, StaysHonest, RoutersNat DEF CInv
  <2>3. QED
    BY <1>3, <2>1, <2>2
<1>6. QED
  BY <1>4, <1>5

LEMMA EngineStepHonest ==
    ASSUME CInv, NEW w \in Workers, EngineStep(w)
    PROVE  HonestStep
<1>1. CASE \E t \in Tasks : AssignNextTask(w, t)
  BY <1>1, AssignHonest
<1>2. CASE \E t \in Tasks, c \in ClaimIds : RenewLease(w, t, c)
  BY <1>2, SmallStepHonest
<1>3. CASE RegisterEngine(w)
  BY <1>3, RegisterHonest
<1>4. CASE UNCHANGED <<task, resumes>>
  BY <1>4, NoneMoves
<1>5. \A t \in Tasks, c \in ClaimIds :
          WriteStep(w, t, c) \/ WorkerFinishes(w, t, c) \/ StopRefused(w, t, c)
              => UNCHANGED <<task, resumes>>
  BY DEF WriteStep, WorkerFinishes, StopRefused, FinishTask
<1>6. ProcessStops(w) \/ ProcessStarts(w) \/ RegistrationGivenUp(w) \/ RegisteredWithoutOrphans(w)
          => UNCHANGED <<task, resumes>>
  BY DEF ProcessStops, ProcessStarts, RegistrationGivenUp, RegisteredWithoutOrphans
<1>7. QED
  BY <1>1, <1>2, <1>3, <1>4, <1>5, <1>6 DEF EngineStep

LEMMA NextHonest ==
    ASSUME CInv, [Next]_vars
    PROVE  HonestStep
<1>1. CASE \E w \in Workers : EngineStep(w)
  BY <1>1, EngineStepHonest
<1>2. CASE ReportStep
  <2>1. PICK p \in posts : ReportAccepted(p) \/ ReportOnEnded(p) \/ ReportGone(p)
    BY <1>2 DEF ReportStep
  <2>2. ReportGone(p) => UNCHANGED <<task, resumes>>
    BY DEF ReportGone
  <2>3. QED
    BY <2>1, <2>2, ReportAcceptedHonest, ReportOnEndedHonest, NoneMoves
<1>3. CASE \E t \in Tasks : TaskStep(t)
  <2>1. PICK t \in Tasks : TaskStep(t)
    BY <1>3
  <2>2. QED
    BY <2>1, SmallStepHonest, RouteCompletedHonest, ResumeHonest, CancelIsHonest, FailIsHonest,
       TransitCheckHonest DEF TaskStep
<1>4. CASE RestartStep
  <2>1. EnginesStopped \/ CollectRestartOrphans => UNCHANGED <<task, resumes>>
    BY DEF EnginesStopped, CollectRestartOrphans
  <2>2. QED
    BY <1>4, <2>1, NoneMoves, SettleHonest DEF RestartStep
<1>5. CASE UNCHANGED vars
  BY <1>5, NoneMoves DEF vars
<1>6. QED
  BY <1>1, <1>2, <1>3, <1>4, <1>5 DEF Next

LEMMA InitHonest == Init => CInv
<1> SUFFICES ASSUME Init PROVE CInv
  OBVIOUS
<1>1. IInv
  BY InitInvariant
<1>2. ASSUME NEW t \in Tasks
      PROVE  /\ task[t].stopping = 0 /\ task[t].claim = 0 /\ task[t].status = "pending"
             /\ task[t].requeued = FALSE /\ resumes[t] = 0
  BY DEF Init
<1>3. \A t \in Tasks : StopsWhenFailed(task[t])
  BY <1>2 DEF StopsWhenFailed
<1>4. ASSUME NEW t \in Tasks PROVE Used(task[t]) <= 1 + resumes[t]
  <2> DEFINE r == task[t]
  <2>1. r.claim = 0 /\ r.status = "pending" /\ r.requeued = FALSE /\ resumes[t] = 0
    BY <1>2
  <2> HIDE DEF r
  <2>2. (IF r.status = "pending" THEN 1 ELSE 0) = 1 /\ (IF r.requeued THEN 1 ELSE 0) = 0
    BY <2>1
  <2>3. Used(r) = 0 + 1 - 0
    BY <2>1, <2>2 DEF Used
  <2>4. Used(r) <= 1 + 0
    BY <2>3
  <2>5. QED
    BY <2>1, <2>4 DEF r
<1>5. QED
  BY <1>1, <1>3, <1>4 DEF CInv

LEMMA NextCInv ==
    ASSUME CInv, [Next]_vars
    PROVE  CInv'
<1>1. HonestStep
  BY NextHonest
<1>2. IInv'
  BY NextInvariant DEF CInv
<1>3. \A t \in Tasks : StopsWhenFailed(task'[t])
  BY <1>1 DEF HonestStep, Lasts
<1>4. ASSUME NEW t \in Tasks
      PROVE  Used(task'[t]) <= 1 + resumes'[t]
  <2>1. /\ task[t] \in TaskRecord /\ task'[t] \in TaskRecord
        /\ resumes[t] \in Int /\ resumes'[t] \in Int
    BY <1>2, BoundsAssumption DEF CInv, IInv, TypeOK
  <2>2. Used(task[t]) \in Int /\ Used(task'[t]) \in Int
    BY <2>1, UsedIs
  <2>3. /\ Used(task'[t]) <= Used(task[t]) + (resumes'[t] - resumes[t])
        /\ Used(task[t]) <= 1 + resumes[t]
    BY <1>1 DEF HonestStep, CInv
  <2>4. QED
    BY <2>1, <2>2, <2>3
<1>5. QED
  BY <1>2, <1>3, <1>4 DEF CInv

LEMMA HonestInvariant == Spec => []CInv
<1>1. Init => CInv
  BY InitHonest
<1>2. CInv /\ [Next]_vars => CInv'
  BY NextCInv
<1>3. QED
  BY <1>1, <1>2, PTL DEF Spec

(* A task is handed out once, once more per resume and once more after an     *)
(* interruption, however many processes crash, register again or report late. *)
THEOREM ReexecutionIsBounded == Spec => []BoundedReexecution
<1>1. CInv => BoundedReexecution
  <2> SUFFICES ASSUME CInv, NEW t \in Tasks
               PROVE  task[t].claim <= 1 + resumes[t] + (IF task[t].requeued THEN 1 ELSE 0)
    BY DEF BoundedReexecution
  <2>1. task[t] \in TaskRecord /\ resumes[t] \in Int
    BY BoundsAssumption DEF CInv, IInv, TypeOK
  <2>2. Used(task[t]) <= 1 + resumes[t] /\ task[t].claim \in Int
    BY <2>1, UsedIs DEF CInv
  <2>3. QED
    BY <2>1, <2>2 DEF Used
<1>2. QED
  BY <1>1, HonestInvariant, PTL

(* An outcome that is out is never changed, by no late report, pushed route,  *)
(* orphan settlement or cancel.                                               *)
THEOREM OutcomesLast == Spec => NoResurrection
<1>1. CInv /\ [Next]_vars =>
          [\A t \in Tasks : Over(task[t]) =>
              task'[t].status = task[t].status /\ task'[t].action = task[t].action]_vars
  BY NextHonest DEF HonestStep, Lasts
<1>2. QED
  BY <1>1, HonestInvariant, PTL DEF Spec, NoResurrection

(* A task whose cancel was requested never completes, is never suspended,     *)
(* requeued or handed out again.                                              *)
THEOREM CancelsLast == Spec => CancelSticks
<1>1. CInv /\ [Next]_vars =>
          [\A t \in Tasks : task[t].cancelReq =>
              /\ task'[t].cancelReq
              /\ task'[t].status \in {task[t].status, "cancelled", "failed"}]_vars
  BY NextHonest DEF HonestStep, Lasts
<1>2. QED
  BY <1>1, HonestInvariant, PTL DEF Spec, CancelSticks

(* Only a thread that already waited in the route slot routes a task whose    *)
(* worker may still be stopping.                                              *)
THEOREM RoutesWaitForTheWorker == Spec => OnlyWaitingThreadsRouteEarly
<1>1. CInv /\ [Next]_vars =>
          [\A t \in Tasks :
              IsStopping(task'[t]) /\ task'[t].route # "pending" =>
                  \/ IsStopping(task[t]) /\ task[t].route # "pending"
                  \/ IsStopping(task[t]) /\ routers[t] > 0]_vars
  BY NextHonest DEF HonestStep, RoutesInTime
<1>2. QED
  BY <1>1, HonestInvariant, PTL DEF Spec, OnlyWaitingThreadsRouteEarly
=============================================================================
