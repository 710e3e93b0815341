--------------------------- MODULE BranchFinalize ---------------------------
(***************************************************************************)
(* Finalizing an entry branch and routing its task: the SQLite claim row    *)
(* with its fencing generation (supervisor/branch_finalize_store.py), the   *)
(* merge of the branch into the parent conversation under the parent's file *)
(* lock, and the route of the completion inside a fenced transaction        *)
(* (_finalize_branch_task and _route_completed_task_with_branch in          *)
(* supervisor/task_router.py).                                              *)
(*                                                                         *)
(* Several supervisors may share one workspace (file_lock.py), or a new one *)
(* starts while the old one still runs.  Each has its own copy of the task; *)
(* a process may crash between any two steps, or stall for longer than its  *)
(* lease.  Whether a pid still lives may be told wrongly (reused pid).      *)
(***************************************************************************)
EXTENDS Naturals, FiniteSets

CONSTANTS
    Messages,       \* what the branch wrote after it was forked
    Supervisors,
    NoOne,
    PidsTell,       \* a dead owner is always told from a live one
    MaxPushes,      \* bound: how often each supervisor is told to route the task
    MaxCrashes        \* bound: how often each supervisor dies

ASSUME NoOneAssumption == NoOne \notin Supervisors
ASSUME SupervisorsAssumption == IsFiniteSet(Supervisors)
ASSUME FlagsAssumption == PidsTell \in BOOLEAN /\ MaxPushes \in Nat /\ MaxCrashes \in Nat

VARIABLES
    row,        \* the row of branch_finalize_claims
    writer,     \* who holds the SQLite write transaction across a step
    lock,       \* who holds the parent's branch-merge file lock
    parent,     \* how often the parent conversation holds each message
    branch,     \* the messages in the branch's file
    indexed,    \* the registry no longer knows the branch
    replies,    \* reply events in the event log
    log,        \* the task's last persisted snapshot
    pc,         \* where each supervisor's routing thread is
    claim,      \* the generation it claimed; 0: it holds no claim
    missing,    \* the messages it is about to append
    mine,       \* its own copy of the task
    seen,       \* its receipt table knows the reply
    pushes, crashes,
    gaps        \* history: what went wrong that no claim or receipt mends

vars == <<row, writer, lock, parent, branch, indexed, replies, log, pc, claim, missing, mine,
          seen, pushes, crashes, gaps>>

disk == <<parent, branch, indexed>>
counters == <<pushes, crashes, gaps>>
runs == <<pushes, crashes>>

(* unfinished: a route stopped between its reply and the record of it.        *)
(* unclaimed: a branch finalized before was routed, which takes no claim.     *)
(* unrecorded: an exception outside the try blocks ended a routing thread.    *)
(* stranded: an attempt was deferred to an owner no thread of which is left.  *)
Gaps == {"unfinished", "unclaimed", "unrecorded", "stranded"}

Task == [finalized: BOOLEAN, route: {"pending", "failed", "routed"}]

Fenced == {"owned", "locked", "appended", "merged", "indexed", "held", "sent"}
Places == Fenced \union {"down", "idle", "begin", "claim", "raise", "routeRaise", "route", "plainSent"}

TypeOK ==
    /\ row \in [status: {"none", "started", "failed", "completed"}, fence: Nat,
                leased: BOOLEAN, dead: BOOLEAN]
    /\ writer \in Supervisors \union {NoOne}
    /\ lock \in Supervisors \union {NoOne}
    /\ parent \in [Messages -> Nat]
    /\ branch \in SUBSET Messages
    /\ indexed \in BOOLEAN
    /\ replies \in Nat
    /\ log \in Task
    /\ pc \in [Supervisors -> Places]
    /\ claim \in [Supervisors -> Nat]
    /\ missing \in [Supervisors -> SUBSET Messages]
    /\ mine \in [Supervisors -> Task]
    /\ seen \in [Supervisors -> BOOLEAN]
    /\ pushes \in [Supervisors -> 0..MaxPushes]
    /\ crashes \in [Supervisors -> 0..MaxCrashes]
    /\ gaps \in SUBSET Gaps

Init ==
    /\ row = [status |-> "none", fence |-> 0, leased |-> FALSE, dead |-> FALSE]
    /\ writer = NoOne
    /\ lock = NoOne
    /\ parent = [m \in Messages |-> 0]
    /\ branch = Messages
    /\ indexed = FALSE
    /\ replies = 0
    /\ log = [finalized |-> FALSE, route |-> "pending"]
    /\ pc = [s \in Supervisors |-> "idle"]
    /\ claim = [s \in Supervisors |-> 0]
    /\ missing = [s \in Supervisors |-> {}]
    /\ mine = [s \in Supervisors |-> log]
    /\ seen = [s \in Supervisors |-> FALSE]
    /\ pushes = [s \in Supervisors |-> 0]
    /\ crashes = [s \in Supervisors |-> 0]
    /\ gaps = {}

At(s, place) == pc[s] = place
Goes(s, place) == pc' = [pc EXCEPT ![s] = place]

(* is_owner, and the WHERE of every conditional update. *)
IsOwner(s) == row.status = "started" /\ row.fence = claim[s]

Snapshot(s, t) ==
    /\ mine' = [mine EXCEPT ![s] = t]
    /\ log' = t

-----------------------------------------------------------------------------
(* A completion report, or another push of a route that did not finish. *)
Push(s) ==
    /\ At(s, "idle") /\ mine[s].route # "routed"
    /\ pushes[s] < MaxPushes
    /\ pushes' = [pushes EXCEPT ![s] = @ + 1]
    /\ Goes(s, "begin")
    /\ UNCHANGED <<row, writer, lock, disk, replies, log, claim, missing, mine, seen, crashes, gaps>>

(* _prepare_branch_finalize_locked: a branch finalized before is only routed. *)
Begin(s) ==
    /\ At(s, "begin")
    /\ Goes(s, IF mine[s].finalized THEN "route" ELSE "claim")
    /\ UNCHANGED <<row, writer, lock, disk, replies, log, claim, missing, mine, seen, counters>>

(* Mutant: nobody asks whether the owner still lives. *)
DeferredWhileLeased == row.status = "started" /\ row.leased

Deferred == row.status = "started" /\ row.leased /\ ~row.dead

Claimable == row.status # "completed" /\ ~Deferred

(* No thread is left of the owner, whose pid seems to live: the row is leased  *)
(* to nobody.                                                                 *)
LeasedToNobody ==
    /\ row.status = "started" /\ row.leased /\ ~row.dead
    /\ \A s \in Supervisors : claim[s] # row.fence

Taken == [status |-> "started", fence |-> row.fence + 1, leased |-> TRUE, dead |-> FALSE]

(* claim: owned with the next generation; a completed row, or somebody else's  *)
(* live claim, ends this attempt without a route.                             *)
Claim(s) ==
    /\ At(s, "claim") /\ writer = NoOne
    /\ IF Claimable
       THEN /\ row' = Taken
            /\ claim' = [claim EXCEPT ![s] = row.fence + 1]
            /\ Goes(s, "owned")
       ELSE Goes(s, "idle") /\ UNCHANGED <<row, claim>>
    /\ gaps' = IF LeasedToNobody THEN gaps \union {"stranded"} ELSE gaps
    /\ UNCHANGED <<writer, lock, disk, replies, log, missing, mine, seen, runs>>

(* What raises before the try block of _finalize_branch_task leaves no mark on *)
(* the task: the intent event of the plan ...                                 *)
PrepareRaises(s) ==
    /\ At(s, "begin")
    /\ Goes(s, "idle")
    /\ gaps' = gaps \union {"unrecorded"}
    /\ UNCHANGED <<row, writer, lock, disk, replies, log, claim, missing, mine, seen, runs>>

(* ... and the claim: its transaction, or the event appended after it, when    *)
(* the row is taken and no thread holds it.                                   *)
ClaimRaises(s) ==
    /\ At(s, "claim") /\ writer = NoOne
    /\ \/ row' = row
       \/ Claimable /\ row' = Taken
    /\ Goes(s, "idle")
    /\ gaps' = gaps \union {"unrecorded"}
    /\ UNCHANGED <<writer, lock, disk, replies, log, claim, missing, mine, seen, runs>>

(* The heartbeat thread renews a claim nobody took over, lapsed or not. *)
Heartbeat(s) ==
    /\ pc[s] \in Fenced /\ IsOwner(s) /\ writer = NoOne
    /\ ~row.leased
    /\ row' = [row EXCEPT !.leased = TRUE]
    /\ UNCHANGED <<writer, lock, disk, replies, log, pc, claim, missing, mine, seen, counters>>

LeaseLapses ==
    /\ row.leased
    /\ row' = [row EXCEPT !.leased = FALSE]
    /\ UNCHANGED <<writer, lock, disk, replies, log, pc, claim, missing, mine, seen, counters>>

-----------------------------------------------------------------------------
(* _execute_branch_finalize_io, under the parent's file lock. *)

(* Mutant: the messages are not compared with those of the parent. *)
MissingAll == branch

MissingFromParent == {m \in branch : parent[m] = 0}

(* Mutant: no lock is taken. *)
LoadUnlocked(s) ==
    /\ At(s, "owned") /\ IsOwner(s)
    /\ missing' = [missing EXCEPT ![s] = MissingFromParent]
    /\ Goes(s, "locked")
    /\ UNCHANGED <<row, writer, lock, disk, replies, log, claim, mine, seen, counters>>

(* The owner check comes before the lock, which may be long in coming: Load    *)
(* is the first step that has the lock, owner or not.                          *)
Load(s) ==
    /\ At(s, "owned") /\ lock = NoOne
    /\ lock' = s
    /\ missing' = [missing EXCEPT ![s] = MissingFromParent]
    /\ Goes(s, "locked")
    /\ UNCHANGED <<row, writer, disk, replies, log, claim, mine, seen, counters>>

Append(s) ==
    /\ At(s, "locked")
    /\ parent' = [m \in Messages |-> IF m \in missing[s] THEN parent[m] + 1 ELSE parent[m]]
    /\ Goes(s, "appended")
    /\ UNCHANGED <<row, writer, lock, branch, indexed, replies, log, claim, missing, mine, seen, counters>>

(* purge_session_files, then the lock is released. *)
Purge(s) ==
    /\ At(s, "appended")
    /\ branch' = {}
    /\ lock' = IF lock = s THEN NoOne ELSE lock
    /\ missing' = [missing EXCEPT ![s] = {}]
    /\ Goes(s, "merged")
    /\ UNCHANGED <<row, writer, parent, indexed, replies, log, claim, mine, seen, counters>>

-----------------------------------------------------------------------------
(* The fenced commits. *)

(* Mutant: an earlier attempt is trusted to have done the merge. *)
CommitIndexesFirst(s) ==
    /\ pc[s] \in {"owned", "merged"} /\ IsOwner(s) /\ writer = NoOne
    /\ indexed' = TRUE
    /\ Goes(s, "indexed")
    /\ UNCHANGED <<row, writer, lock, parent, branch, replies, log, claim, missing, mine, seen, counters>>

(* commit_indexes_and_registry *)
CommitIndexes(s) ==
    /\ At(s, "merged") /\ IsOwner(s) /\ writer = NoOne
    /\ indexed' = TRUE
    /\ Goes(s, "indexed")
    /\ UNCHANGED <<row, writer, lock, parent, branch, replies, log, claim, missing, mine, seen, counters>>

(* persist_finalize_receipt *)
PersistReceipt(s) ==
    /\ At(s, "indexed") /\ IsOwner(s) /\ writer = NoOne
    /\ Snapshot(s, [mine[s] EXCEPT !.finalized = TRUE])
    /\ Goes(s, "held")
    /\ UNCHANGED <<row, writer, lock, disk, replies, claim, missing, seen, counters>>

(* Mutant: nobody looks for an earlier reply. *)
SendReplyAgain(s) == replies' = replies + 1 /\ seen' = [seen EXCEPT ![s] = TRUE]

(* append_outbound_message: the receipt table drops what it knows. *)
SendReply(s) ==
    /\ replies' = IF seen[s] THEN replies ELSE replies + 1
    /\ seen' = [seen EXCEPT ![s] = TRUE]

(* Mutant: the route is not fenced. *)
FencedSendAnyway(s) ==
    /\ At(s, "held") /\ writer = NoOne
    /\ SendReply(s)
    /\ writer' = s
    /\ Goes(s, "sent")
    /\ UNCHANGED <<row, lock, disk, log, claim, missing, mine, counters>>

(* fenced_route: BEGIN IMMEDIATE, the owner check and the route. *)
FencedSend(s) ==
    /\ At(s, "held") /\ IsOwner(s) /\ writer = NoOne
    /\ SendReply(s)
    /\ writer' = s
    /\ Goes(s, "sent")
    /\ UNCHANGED <<row, lock, disk, log, claim, missing, mine, counters>>

(* The task_routed snapshot, status='completed' and COMMIT. *)
FencedComplete(s) ==
    /\ At(s, "sent")
    /\ Snapshot(s, [mine[s] EXCEPT !.route = "routed"])
    /\ row' = [row EXCEPT !.status = "completed", !.leased = FALSE]
    /\ writer' = NoOne
    /\ claim' = [claim EXCEPT ![s] = 0]
    /\ Goes(s, "idle")
    /\ UNCHANGED <<lock, disk, replies, missing, seen, counters>>

(* _route_completed_task_locked with no claim held: the branch was finalized. *)
PlainSend(s) ==
    /\ At(s, "route")
    /\ SendReply(s)
    /\ Goes(s, "plainSent")
    /\ gaps' = IF seen[s] THEN gaps ELSE gaps \union {"unclaimed"}
    /\ UNCHANGED <<row, writer, lock, disk, log, claim, missing, mine, runs>>

PlainRouted(s) ==
    /\ At(s, "plainSent")
    /\ Snapshot(s, [mine[s] EXCEPT !.route = "routed"])
    /\ Goes(s, "idle")
    /\ UNCHANGED <<row, writer, lock, disk, replies, claim, missing, seen, counters>>

-----------------------------------------------------------------------------
(* Failures. *)

(* Anything the finalize does may raise; it must where the claim was lost. *)
Raises(s) ==
    /\ pc[s] \in {"owned", "locked", "appended", "merged", "indexed"}
    /\ lock' = IF lock = s THEN NoOne ELSE lock
    /\ missing' = [missing EXCEPT ![s] = {}]
    /\ Goes(s, "raise")
    /\ UNCHANGED <<row, writer, disk, replies, log, claim, mine, seen, counters>>

(* The fence was lost before the route: the route itself did not run. *)
FenceLost(s) ==
    /\ At(s, "held") /\ ~IsOwner(s) /\ writer = NoOne
    /\ Goes(s, "routeRaise")
    /\ UNCHANGED <<row, writer, lock, disk, replies, log, claim, missing, mine, seen, counters>>

(* The route raises, before or after the reply was appended; the transaction  *)
(* rolls back.                                                                *)
RouteRaises(s) ==
    /\ \/ At(s, "held") /\ IsOwner(s) /\ writer = NoOne /\ Goes(s, "routeRaise") /\ UNCHANGED writer
       \/ At(s, "sent") /\ Goes(s, "routeRaise") /\ writer' = NoOne
       \/ pc[s] \in {"route", "plainSent"} /\ Goes(s, "idle") /\ UNCHANGED writer
    /\ Snapshot(s, [mine[s] EXCEPT !.route = "failed"])
    /\ gaps' = IF pc[s] \in {"sent", "plainSent"} THEN gaps \union {"unfinished"} ELSE gaps
    /\ UNCHANGED <<row, lock, disk, replies, claim, missing, seen, runs>>

(* store.fail; only a finalize that raised while it owned the row records it   *)
(* on the task, a route has done so itself.                                    *)
FailClaim(s) ==
    /\ pc[s] \in {"raise", "routeRaise"} /\ writer = NoOne
    /\ IF IsOwner(s)
       THEN row' = [row EXCEPT !.status = "failed", !.leased = FALSE]
       ELSE UNCHANGED row
    /\ IF IsOwner(s) /\ At(s, "raise")
       THEN Snapshot(s, [mine[s] EXCEPT !.route = "failed"])
       ELSE UNCHANGED <<mine, log>>
    /\ claim' = [claim EXCEPT ![s] = 0]
    /\ Goes(s, "idle")
    /\ UNCHANGED <<writer, lock, disk, replies, missing, seen, counters>>

(* store.fail raises, after its update or before it: nothing is recorded on    *)
(* the task but what a route recorded itself.                                 *)
FailRaises(s) ==
    /\ pc[s] \in {"raise", "routeRaise"} /\ writer = NoOne
    /\ \/ row' = row
       \/ IsOwner(s) /\ row' = [row EXCEPT !.status = "failed", !.leased = FALSE]
    /\ claim' = [claim EXCEPT ![s] = 0]
    /\ Goes(s, "idle")
    /\ gaps' = gaps \union {"unrecorded"}
    /\ UNCHANGED <<writer, lock, disk, replies, log, missing, mine, seen, runs>>

(* The process dies: its locks and its transaction go with it, what it was     *)
(* appending may be torn, and its pid is gone, or is soon somebody else's.     *)
Crash(s) ==
    /\ pc[s] # "down" /\ crashes[s] < MaxCrashes
    /\ \E torn \in SUBSET missing[s] :
           IF At(s, "locked")
           THEN parent' = [m \in Messages |-> IF m \in torn THEN parent[m] + 1 ELSE parent[m]]
           ELSE UNCHANGED parent
    /\ \E gone \in BOOLEAN :
           /\ PidsTell => gone
           /\ row' = [row EXCEPT !.dead = @ \/ (gone /\ claim[s] # 0 /\ IsOwner(s))]
    /\ writer' = IF writer = s THEN NoOne ELSE writer
    /\ lock' = IF lock = s THEN NoOne ELSE lock
    /\ claim' = [claim EXCEPT ![s] = 0]
    /\ missing' = [missing EXCEPT ![s] = {}]
    /\ crashes' = [crashes EXCEPT ![s] = @ + 1]
    /\ gaps' = IF pc[s] \in {"sent", "plainSent"} THEN gaps \union {"unfinished"} ELSE gaps
    /\ Goes(s, "down")
    /\ UNCHANGED <<branch, indexed, replies, log, mine, seen, pushes>>

(* A restart restores the task unless it was routed, and routes it once       *)
(* (recover_pending_completion_routes).                                       *)
Boot(s) ==
    /\ At(s, "down")
    /\ mine' = [mine EXCEPT ![s] = log]
    /\ seen' = [seen EXCEPT ![s] = replies > 0]
    /\ Goes(s, IF log.route = "routed" THEN "idle" ELSE "begin")
    /\ UNCHANGED <<row, writer, lock, disk, replies, log, claim, missing, counters>>

-----------------------------------------------------------------------------
(* What a routing thread does of itself, until it returns. *)
Work(s) ==
    \/ Begin(s) \/ PrepareRaises(s) \/ Claim(s) \/ ClaimRaises(s)
    \/ Load(s) \/ Append(s) \/ Purge(s)
    \/ CommitIndexes(s) \/ PersistReceipt(s)
    \/ FencedSend(s) \/ FencedComplete(s)
    \/ PlainSend(s) \/ PlainRouted(s)
    \/ Raises(s) \/ FenceLost(s) \/ RouteRaises(s) \/ FailClaim(s) \/ FailRaises(s)

Next ==
    \/ \E s \in Supervisors : Push(s) \/ Work(s) \/ Heartbeat(s) \/ Crash(s) \/ Boot(s)
    \/ LeaseLapses

Spec == Init /\ [][Next]_vars

(* A routing thread that can take a step gets to take it. *)
FairSpec == Spec /\ \A s \in Supervisors : WF_vars(Work(s))

-----------------------------------------------------------------------------
(* MergeIsExact: whatever owner stalls, loses its claim or crashes half-way    *)
(* through an append, no message of the branch is in the parent twice, and     *)
(* none is gone from the branch's file before the parent has it.               *)
MergeIsExact ==
    \A m \in Messages : parent[m] <= 1 /\ (m \in branch \/ parent[m] = 1)

(* ForgottenOnlyWhenMerged: neither the registry nor any persisted or          *)
(* in-memory receipt calls the branch finalized while its file has messages;   *)
(* a receipt makes every later attempt skip the merge.                         *)
ForgottenOnlyWhenMerged ==
    indexed \/ log.finalized \/ row.status = "completed" \/ (\E s \in Supervisors : mine[s].finalized)
        => branch = {}

(* The user sees the reply only after the history holds what led to it, and    *)
(* the whole protocol implements BranchMerge.                                  *)
Abstract == INSTANCE BranchMerge WITH replied <- replies > 0
ImplementsBranchMerge == Abstract!Spec

(* RouteInsideFence: while a supervisor sends the reply inside its fenced       *)
(* transaction, the row is its own: nobody claims, fails or completes it in     *)
(* between, so no second owner routes the same completion at the same time.     *)
RouteInsideFence ==
    \A s \in Supervisors : At(s, "sent") => writer = s /\ IsOwner(s)

(* FenceOnlyGrows: a generation is never handed out twice and a completed row   *)
(* never changes again: a stale owner cannot come back to life.                 *)
FenceOnlyGrows ==
    [][/\ row'.fence >= row.fence
       /\ row.status = "completed" =>
              row'.status = "completed" /\ row'.fence = row.fence]_vars

(* OneReplyEach: over restarts, repeated pushes and routes that raised after     *)
(* the reply was appended, no supervisor process sends the reply of a completion *)
(* that its own receipt table knows: two supervisors send at most two.           *)
OneReplyEach == replies <= Cardinality(Supervisors)

(* OneReply: what append_outbound_message says of its delivery ids, and the test  *)
(* of two supervisors that compete for one task: the user sees one reply.         *)
OneReply == replies <= 1

(* OneReplyUnlessCut: of any number of supervisors that route the completion one  *)
(* sends the reply, whoever stalls, is taken over, raises, dies or comes back     *)
(* late.  A second one takes a route that was cut off between the reply and its   *)
(* record, or one that took no claim.                                            *)
OneReplyUnlessCut == OneReply \/ gaps \intersect {"unfinished", "unclaimed"} # {}

Recorded ==
    \/ \E r \in Supervisors : mine[r].route \in {"routed", "failed"} \/ At(r, "down")
    \/ "unrecorded" \in gaps

(* RecoveredIsTried: a completion that a push or a restart hands to a router is   *)
(* routed, or recorded as failed, or a process that works on it dies, or an       *)
(* exception that nothing records ends the thread, or the attempt met the         *)
(* unexpired claim of an owner that is gone but whose pid seems to live.          *)
RecoveredIsTried == \A s \in Supervisors : At(s, "begin") ~> (Recorded \/ "stranded" \in gaps)
=============================================================================
