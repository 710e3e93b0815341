---------------------------- MODULE AsyncResults ----------------------------
(***************************************************************************)
(* The ledger of asynchronous dispatches (supervisor/async_dispatches.py)   *)
(* and the part of the router that hands their results back                 *)
(* (supervisor/task_router.py): a result settles into the await_dispatches  *)
(* join of the task that waits for it, is kept for a task that awaited it,  *)
(* is kept for the unfinished round of the node it goes home to, or becomes *)
(* a new round of that node.  All of it happens under the supervisor's lock *)
(* while rounds are claimed, suspend, are cancelled and fail.               *)
(*                                                                         *)
(* Rounds are the entry tasks of one node in one session; the sub-agents    *)
(* they dispatch without waiting are Children, whose results go home to     *)
(* that session.  Both are numbered in the order they are created.          *)
(***************************************************************************)
EXTENDS Naturals, FiniteSets, FiniteSetsExt

CONSTANTS
    MaxDispatches,  \* bound: asynchronous dispatches
    MaxMessages     \* bound: rounds that a user's message starts

ASSUME BoundsAssumption == MaxDispatches \in Nat /\ MaxMessages \in Nat

Children == 1..MaxDispatches

(* A result's event is written once, so there is at most one more round per child. *)
Rounds == 1..(MaxMessages + MaxDispatches)
NoRound == 0

VARIABLES
    round,      \* entry tasks
    child,      \* dispatched tasks
    record,     \* the ledger: SettledDispatch
    reserved,   \* who awaited a child that is still running
    join,       \* open await_dispatches of a round
    logged,     \* children whose inbound_message is in the event log
    handed,     \* history: how often the full result reached a model
    pulled      \* history: results taken out of a round that had not started

vars == <<round, child, record, reserved, join, logged, handed, pulled>>

Asks == [what: {"none", "wait", "compact"}] \union
        [what: {"await"}, handles: SUBSET Children, mode: {"all", "any"}]
NoAsk == [what |-> "none"]

TypeOK ==
    /\ round \in [Rounds -> [st: {"unborn", "pending", "running", "dispatching", "awaiting",
                                  "waiting", "compacting", "over", "stopped", "ended", "cancelled"},
                             ask: Asks, claimed: BOOLEAN, cancelReq: BOOLEAN,
                             carries: SUBSET Children, withdrawn: BOOLEAN]]
    /\ child \in [Children -> [st: {"none", "live", "over"}, by: Rounds \union {NoRound},
                               kind: {"none", "message", "silent"},
                               route: {"none", "pending", "failed", "routed"}]]
    /\ record \in [Children -> [known: BOOLEAN, delivered: {"", "inbound", "join", "dropped"},
                                heldFor: Rounds \union {NoRound}, hold: {"", "await", "round"},
                                callback: Rounds \union {NoRound}]]
    /\ \A c \in Children : record[c].heldFor = NoRound <=> record[c].hold = ""
    /\ reserved \in [Children -> Rounds \union {NoRound}]
    /\ join \in [Rounds -> [open: BOOLEAN, mode: {"all", "any"}, pending: SUBSET Children,
                            settled: SUBSET Children, earlier: SUBSET Children]]
    /\ logged \subseteq Children
    /\ handed \in [Children -> Nat]
    /\ pulled \subseteq Children

NoJoin == [open |-> FALSE, mode |-> "all", pending |-> {}, settled |-> {}, earlier |-> {}]

Init ==
    /\ round = [r \in Rounds |-> [st |-> "unborn", ask |-> NoAsk, claimed |-> FALSE,
                                  cancelReq |-> FALSE, carries |-> {}, withdrawn |-> FALSE]]
    /\ child = [c \in Children |-> [st |-> "none", by |-> NoRound, kind |-> "none", route |-> "none"]]
    /\ record = [c \in Children |-> [known |-> FALSE, delivered |-> "", heldFor |-> NoRound,
                                     hold |-> "", callback |-> NoRound]]
    /\ reserved = [c \in Children |-> NoRound]
    /\ join = [r \in Rounds |-> NoJoin]
    /\ logged = {}
    /\ handed = [c \in Children |-> 0]
    /\ pulled = {}

-----------------------------------------------------------------------------
(* A handler is a composition of functions from the supervisor's memory S to  *)
(* the memory they leave behind.                                              *)
Memory == [round |-> round, child |-> child, record |-> record, reserved |-> reserved,
           join |-> join, logged |-> logged, handed |-> handed, pulled |-> pulled]

Becomes(S) ==
    \E M \in {S} :
        /\ round' = M.round /\ child' = M.child /\ record' = M.record /\ reserved' = M.reserved
        /\ join' = M.join /\ logged' = M.logged /\ handed' = M.handed /\ pulled' = M.pulled

(* _alive: it will run on and can receive; so does one whose dispatch is being routed. *)
Alive(S, r) ==
    r # NoRound /\ S.round[r].st \in {"pending", "running", "dispatching", "awaiting",
                                      "waiting", "compacting"}

(* round_open_locked: not one that is suspended to wait, nor one told to stop. *)
RoundOpen(S, r) ==
    ~S.round[r].cancelReq /\ S.round[r].st \in {"pending", "running", "dispatching", "compacting"}

(* _unfinished_round_locked: a round at work before the first one in the queue. *)
Unfinished(S) ==
    LET open == {r \in Rounds : RoundOpen(S, r)}
        busy == {r \in open : S.round[r].st # "pending"}
    IN IF busy # {} THEN Min(busy) ELSE IF open # {} THEN Min(open) ELSE NoRound

NextRound(S) == Min({r \in Rounds : S.round[r].st = "unborn"})

Goes(S, r, st) == [S EXCEPT !.round[r].st = st, !.round[r].ask = NoAsk]

(* Over for good: what it was asked to do, or claimed, is not looked at again. *)
Ends(S, r, st) == [Goes(S, r, st) EXCEPT !.round[r].cancelReq = FALSE, !.round[r].claimed = FALSE]

(* _route_completed_task_inner_locked: who finishes, asks or fails has a message  *)
(* to hand back; who is cancelled or pre-empted is silent.                        *)
HasMessage(S, c) == S.child[c].kind = "message"

(* Mutant: the reason a result was kept stays behind. *)
ClearHolder(S, C) ==
    [S EXCEPT !.record = [c \in Children |->
        IF c \in C THEN [@[c] EXCEPT !.heldFor = NoRound] ELSE @[c]]]

Clear(S, C) ==
    [S EXCEPT !.record = [c \in Children |->
        IF c \in C THEN [@[c] EXCEPT !.heldFor = NoRound, !.hold = ""] ELSE @[c]]]

(* _deliver_dispatch_results_locked and _mark_inbound: one event per result     *)
(* that has none yet, and one new round for them together.                      *)
Deliver(S, C) ==
    LET fresh == C \ S.logged
        k == IF fresh = {} THEN NoRound ELSE NextRound(S)
        marked == [c \in Children |->
                     IF c \in C THEN [S.record[c] EXCEPT !.callback = k,
                                                         !.delivered = IF @ = "" THEN "inbound" ELSE @]
                     ELSE S.record[c]]
        T == [S EXCEPT !.record = marked, !.logged = @ \union fresh]
    IN IF fresh = {} THEN T
       ELSE [T EXCEPT !.round[k].st = "pending", !.round[k].carries = fresh]

(* _hand_back_locked *)
HandBack(S, C, drop) ==
    LET T == Clear(S, C)
        due == {c \in C : HasMessage(S, c)}
    IN IF drop
       THEN [T EXCEPT !.record = [c \in Children |->
                IF c \in C THEN [@[c] EXCEPT !.delivered = "dropped"] ELSE @[c]]]
       ELSE IF due = {} THEN T ELSE Deliver(T, due)

(* Mutant: what a join collected is forgotten with it. *)
UnreturnedNothing(S, r) == {}

(* _unreturned_join_results *)
Unreturned(S, r) ==
    {c \in S.join[r].settled \ S.join[r].earlier : S.record[c].delivered = "join"}

(* _release_waiter_locked: what r collected and what is kept for r goes back,   *)
(* or is dropped when r was cancelled.                                         *)
ReleaseWaiter(S, r) ==
    LET kept == {c \in Children : S.record[c].heldFor = r}
        back == Unreturned(S, r)
        T == [S EXCEPT !.join[r] = NoJoin,
                       !.reserved = [c \in Children |-> IF @[c] = r THEN NoRound ELSE @[c]],
                       !.record = [c \in Children |->
                            IF c \in back THEN [@[c] EXCEPT !.delivered = ""] ELSE @[c]]]
    IN IF kept \union back = {} THEN T
       ELSE HandBack(T, kept \union back, S.round[r].st \in {"stopped", "cancelled"})

(* release_round_holds_locked *)
ReleaseRoundHolds(S, r) ==
    LET kept == {c \in Children : S.record[c].heldFor = r /\ S.record[c].hold = "round"} IN
    IF kept = {} THEN S ELSE HandBack(S, kept, FALSE)

(* Mutant: nobody asks whether the round was claimed. *)
WithdrawableStarted(S, c) ==
    LET k == S.record[c].callback IN k # NoRound /\ c \in S.round[k].carries

(* _withdraw_from_callback_locked: which round can still give the result up. *)
Withdrawable(S, c) ==
    LET k == S.record[c].callback IN
    /\ k # NoRound
    /\ S.round[k].st = "pending" /\ ~S.round[k].claimed /\ ~S.round[k].cancelReq
    /\ c \in S.round[k].carries

(* _claim_settled: nobody has what was taken out of a round. *)
Loosed(S, c) == [S EXCEPT !.record[c].delivered = "", !.record[c].callback = NoRound,
                          !.pulled = @ \union {c}]

(* _withdraw_from_callback_locked: a round with nothing else to report is taken  *)
(* out of the queue, and what was kept for it is handed back.                    *)
Withdraw(S, c) ==
    LET k == S.record[c].callback
        kept == {d \in Children : S.record[d].heldFor = k}
        gone == [Ends(Clear(S, kept), k, "cancelled") EXCEPT !.round[k].withdrawn = TRUE]
        T == IF S.round[k].carries # {c}
             THEN [S EXCEPT !.round[k].carries = @ \ {c}]
             ELSE IF kept = {} THEN gone ELSE HandBack(gone, kept, FALSE)
    IN Loosed(T, c)

(* _claim_settled: into the join of r; what was handed over before is marked. *)
Collect(S, r, c) ==
    LET before == S.record[c].delivered \in {"inbound", "join"}
        joined == [S.join[r] EXCEPT !.pending = @ \ {c}, !.settled = @ \union {c},
                                    !.earlier = IF before THEN @ \union {c} ELSE @]
        marked == [S.record[c] EXCEPT !.delivered = IF before THEN @ ELSE "join",
                                      !.heldFor = NoRound, !.hold = ""]
    IN [S EXCEPT !.join[r] = joined, !.reserved[c] = NoRound, !.record[c] = marked]

ClaimSettled(S, r, c) ==
    Collect(IF S.record[c].delivered = "inbound" /\ Withdrawable(S, c) THEN Withdraw(S, c) ELSE S,
            r, c)

(* Join.satisfied *)
Satisfied(j) == j.pending = {} \/ (j.mode = "any" /\ j.settled # {})

(* _resume_join_locked: r goes back to the queue with what the join collected;   *)
(* what still runs stays reserved for r.                                         *)
ResumeJoin(S, r) ==
    IF S.round[r].st # "awaiting" \/ S.round[r].cancelReq THEN ReleaseWaiter(S, r)
    ELSE LET full == S.join[r].settled \ S.join[r].earlier IN
         [Goes(S, r, "pending") EXCEPT
             !.join[r] = NoJoin,
             !.handed = [c \in Children |-> IF c \in full THEN @[c] + 1 ELSE @[c]]]

ResumeIfSatisfied(S, r) == IF Satisfied(S.join[r]) THEN ResumeJoin(S, r) ELSE S

-----------------------------------------------------------------------------
(* settle_locked: the memory it leaves, and whether the result has found its place. *)
Known(S, c) == [S EXCEPT !.record[c].known = TRUE]
Settled(S, c) == S.record[c].delivered # "" \/ S.record[c].heldFor # NoRound
Awaited(S, c) == Alive(S, S.reserved[c])

(* Mutant: an awaited result that no join waits for goes home at once. *)
SettleUnheld(S, c) ==
    LET T == Known(S, c)
        w == S.reserved[c]
    IN IF Settled(S, c) THEN T
       ELSE IF Awaited(S, c) /\ c \in S.join[w].pending
       THEN ResumeIfSatisfied(ClaimSettled(T, w, c), w)
       ELSE [T EXCEPT !.reserved[c] = NoRound]

Settle(S, c) ==
    LET T == Known(S, c)
        w == S.reserved[c]
    IN IF Settled(S, c) THEN T
       ELSE IF ~Awaited(S, c) THEN [T EXCEPT !.reserved[c] = NoRound]
       ELSE IF c \in S.join[w].pending THEN ResumeIfSatisfied(ClaimSettled(T, w, c), w)
       ELSE [T EXCEPT !.record[c].heldFor = w, !.record[c].hold = "await"]

(* _inject_dispatch_result_via_origin_locked *)
Inject(S, c) ==
    LET T == Settle(S, c)
        holder == Unfinished(T)
    IN IF Settled(T, c) THEN T
       ELSE IF holder # NoRound
       THEN [T EXCEPT !.record[c].heldFor = holder, !.record[c].hold = "round"]
       ELSE Deliver(T, {c})

(* _settled_without_hook_locked: over and routed, but never entered in the ledger *)
(* (a session reset ends its tasks that way).                                     *)
Unhooked(S, c) == ~S.record[c].known /\ S.child[c].st = "over" /\ S.child[c].route = "routed"
WithoutHook(S, c) ==
    [Known(S, c) EXCEPT !.record[c].delivered = IF c \in S.logged THEN "inbound" ELSE @]

(* _record_holder: who else the result is kept for, or whose join has it. *)
RecordHolder(S, r, c) ==
    IF S.record[c].heldFor \notin {NoRound, r} /\ S.record[c].hold # "round" THEN S.record[c].heldFor
    ELSE LET others == {o \in Rounds \ {r} : c \in S.join[o].settled} IN
         IF others = {} THEN NoRound ELSE Min(others)

(* Mutant: a child that somebody else awaits is promised again. *)
AdmitAnybody(S, r, c) ==
    IF S.record[c].known
    THEN IF Alive(S, RecordHolder(S, r, c)) THEN S ELSE ClaimSettled(S, r, c)
    ELSE [S EXCEPT !.reserved[c] = r, !.join[r].pending = @ \union {c}]

(* _admit_locked: one handle of an await_dispatches; a refused one changes nothing. *)
Admit(S, r, c) ==
    LET T == IF Unhooked(S, c) THEN WithoutHook(S, c) ELSE S
        other == S.reserved[c]
    IN IF T.record[c].known
       THEN IF Alive(T, RecordHolder(T, r, c)) THEN T ELSE ClaimSettled(T, r, c)
       ELSE IF other \notin {NoRound, r} /\ Alive(S, other) THEN T
       ELSE [T EXCEPT !.reserved[c] = r, !.join[r].pending = @ \union {c}]

(* route_await_locked *)
RouteAwait(S, r, handles, mode) ==
    LET opened == [S EXCEPT !.join[r] = [NoJoin EXCEPT !.open = TRUE, !.mode = mode]]
        admitted == FoldSet(LAMBDA c, T : Admit(T, r, c), opened, handles)
        suspended == ReleaseRoundHolds(Goes(admitted, r, "awaiting"), r)
    IN ResumeIfSatisfied(suspended, r)

(* _catch_up_join_locked *)
CatchUp(S, r) ==
    LET lost == {c \in S.join[r].pending : S.record[c].known \/ Unhooked(S, c)} IN
    FoldSet(LAMBDA c, T : ClaimSettled(IF Unhooked(T, c) THEN WithoutHook(T, c) ELSE T, r, c), S, lost)

-----------------------------------------------------------------------------
(* _create_entry_task_for_inbound_locked, for a message of the user. *)
UserMessage ==
    /\ Cardinality({r \in Rounds : round[r].st # "unborn" /\ round[r].carries = {}
                                  /\ ~round[r].withdrawn}) < MaxMessages
    /\ \E r \in Rounds : round[r].st = "unborn"
    /\ round' = [round EXCEPT ![NextRound(Memory)].st = "pending"]
    /\ UNCHANGED <<child, record, reserved, join, logged, handed, pulled>>

(* An engine claims a round and reads what it was sent. *)
ClaimRound(r) ==
    /\ round[r].st = "pending"
    /\ round' = [round EXCEPT ![r].st = "running", ![r].claimed = TRUE]
    /\ handed' = [c \in Children |->
                    IF c \in round[r].carries /\ ~round[r].claimed THEN handed[c] + 1 ELSE handed[c]]
    /\ UNCHANGED <<child, record, reserved, join, logged, pulled>>

(* dispatcher_refusal_locked: nobody who is over or told to stop dispatches. *)
Dispatch(r) ==
    /\ round[r].st = "running" /\ ~round[r].cancelReq
    /\ \E c \in Children :
         /\ \A d \in Children : child[d].st = "none" <=> d >= c
         /\ child' = [child EXCEPT ![c].st = "live", ![c].by = r]
    /\ UNCHANGED <<round, record, reserved, join, logged, handed, pulled>>

(* complete_task: a round ends, or suspends for something; its route comes later. *)
Report(r) ==
    /\ round[r].st = "running"
    /\ IF round[r].cancelReq
       THEN round' = Ends(Memory, r, "stopped").round
       ELSE \/ round' = Ends(Memory, r, "over").round
            \/ \E ask \in Asks \ {NoAsk} :
                 /\ ask.what = "await" =>
                        /\ ask.handles # {} /\ \A c \in ask.handles : child[c].st # "none"
                        /\ ask.mode = "any" => Cardinality(ask.handles) > 1
                 /\ round' = [round EXCEPT ![r].st = "dispatching", ![r].ask = ask]
    /\ UNCHANGED <<child, record, reserved, join, logged, handed, pulled>>

(* _call_off_dispatch_locked, then _route_completed_task_inner_locked and what   *)
(* the routed round leaves behind (release_if_ended_locked).                     *)
RouteRound(r) ==
    LET st == round[r].st
        ask == round[r].ask
        Releases(end) == ReleaseWaiter(Ends(Memory, r, end), r)
    IN /\ st \in {"dispatching", "over", "stopped"}
       /\ Becomes(
            IF st = "over" THEN Releases("ended")
            ELSE IF st = "stopped" \/ round[r].cancelReq THEN Releases("cancelled")
            ELSE IF ask.what = "await" THEN RouteAwait(Memory, r, ask.handles, ask.mode)
            ELSE IF ask.what = "wait" THEN ReleaseRoundHolds(Goes(Memory, r, "waiting"), r)
            ELSE Goes(Memory, r, "compacting"))

(* _resume_suspended_task_locked: its sub-agents, or the compactor, are done. *)
ResumeSuspended(r) ==
    /\ round[r].st \in {"waiting", "compacting"}
    /\ round' = [round EXCEPT ![r].st = "pending"]
    /\ UNCHANGED <<child, record, reserved, join, logged, handed, pulled>>

(* _fail_task_locked: out of time.  Whoever runs is told to stop and routed later. *)
Fail(r) ==
    /\ Alive(Memory, r) /\ round[r].st # "dispatching"
    /\ IF round[r].st = "running"
       THEN /\ round' = Ends(Memory, r, "over").round
            /\ UNCHANGED <<child, record, reserved, join, logged, handed, pulled>>
       ELSE Becomes(ReleaseWaiter(Ends(Memory, r, "ended"), r))

(* _terminate_cancelled_locked and _settle_cancelled_task_locked, for a child. *)
Terminate(S, c) ==
    Settle([S EXCEPT !.child[c].st = "over", !.child[c].kind = "silent"], c)

(* cancel_single_task: the round first, then the dispatches below it; those that *)
(* run are asked to stop and end later.                                          *)
CancelRound(r) ==
    /\ Alive(Memory, r)
    /\ \E queued \in SUBSET {c \in Children : child[c].st = "live" /\ child[c].by = r} :
         LET T == IF round[r].st \in {"running", "dispatching"}
                  THEN [Memory EXCEPT !.round[r].cancelReq = TRUE]
                  ELSE ReleaseWaiter(Ends(Memory, r, "cancelled"), r)
         IN Becomes(FoldSet(LAMBDA c, S : Terminate(S, c), T, queued))

-----------------------------------------------------------------------------
(* A child reports how it ended. *)
ChildEnds(c) ==
    /\ child[c].st = "live"
    /\ \E kind \in {"message", "silent"} :
         child' = [child EXCEPT ![c].st = "over", ![c].kind = kind, ![c].route = "pending"]
    /\ UNCHANGED <<round, record, reserved, join, logged, handed, pulled>>

(* _route_completed_task_locked, for a child; a route whose last snapshot cannot *)
(* be written is pushed again.                                                   *)
RouteChild(c) ==
    /\ child[c].route \in {"pending", "failed"}
    /\ \E end \in {"routed"} \union (IF child[c].route = "failed" THEN {} ELSE {"failed"}) :
         LET S == [Memory EXCEPT !.child[c].route = end] IN
         Becomes(IF HasMessage(S, c) THEN Inject(S, c) ELSE Settle(S, c))

(* cancel_locked: cancel_dispatches of a dispatch that is still queued. *)
CancelChild(c) ==
    /\ child[c].st = "live"
    /\ Becomes(Terminate(Memory, c))

(* reset_session of the child's own session: over and routed, with no hook run. *)
ResetChild(c) ==
    /\ child[c].st = "live"
    /\ child' = [child EXCEPT ![c].st = "over", ![c].kind = "silent", ![c].route = "routed"]
    /\ UNCHANGED <<round, record, reserved, join, logged, handed, pulled>>

(* expire_due_locked: the joins whose deadline has passed, those that can be      *)
(* satisfied now, and what holders leave behind who are gone.                     *)
ExpireJoin(S, r, due) ==
    IF ~S.join[r].open THEN S
    ELSE IF ~Alive(S, r) THEN ReleaseWaiter(S, r)
    ELSE LET T == CatchUp(S, r) IN
         IF Satisfied(T.join[r]) \/ r \in due THEN ResumeJoin(T, r) ELSE T

Holders(S) == {S.reserved[c] : c \in Children} \union {S.record[c].heldFor : c \in Children}

ExpireDue(due) ==
    LET joined == FoldSet(LAMBDA r, S : ExpireJoin(S, r, due), Memory,
                          {r \in Rounds : join[r].open})
        gone == {r \in Holders(joined) \ {NoRound} : ~Alive(joined, r)}
    IN Becomes(FoldSet(LAMBDA r, S : ReleaseWaiter(S, r), joined, gone))

TimerFires == \E due \in SUBSET {r \in Rounds : join[r].open} : ExpireDue(due)

Next ==
    \/ UserMessage \/ TimerFires
    \/ \E r \in Rounds :
          \/ ClaimRound(r) \/ Report(r) \/ RouteRound(r) \/ ResumeSuspended(r)
          \/ Fail(r) \/ CancelRound(r) \/ Dispatch(r)
    \/ \E c \in Children : ChildEnds(c) \/ RouteChild(c) \/ CancelChild(c) \/ ResetChild(c)

Spec == Init /\ [][Next]_vars

(* Threads that route get to run, the timer is armed for the earliest deadline,   *)
(* and the reaper fails a task that exceeds its life span, however often it is    *)
(* suspended and resumed.  Weak and strong fairness are spelled out with the      *)
(* guards of the actions: each guard is ENABLED of its action.                    *)
Routing(r) == round[r].st \in {"dispatching", "over", "stopped"}
Unrouted(c) == child[c].route \in {"pending", "failed"}
Joined == {r \in Rounds : join[r].open}

FairSpec ==
    /\ Spec
    /\ []<>(Joined = {}) \/ []<><<ExpireDue(Joined)>>_vars
    /\ \A r \in Rounds :
         /\ []<>~Routing(r) \/ []<><<RouteRound(r)>>_vars
         /\ <>[](~Alive(Memory, r) \/ round[r].st = "dispatching") \/ []<><<Fail(r)>>_vars
    /\ \A c \in Children : []<>~Unrouted(c) \/ []<><<RouteChild(c)>>_vars

-----------------------------------------------------------------------------
(* HandedOnce: whatever joins, holds, withdrawals and repeated routes a result    *)
(* goes through, a model is handed it in full at most once; every other time it   *)
(* is marked as delivered earlier.                                                *)
HandedOnce == \A c \in Children : handed[c] <= 1

(* A join is open only for a suspended round, something it waits for   *)
(* is outstanding, and what has not ended was promised to nobody else.            *)
JoinsWait ==
    \A r \in Rounds : join[r].open =>
        /\ round[r].st = "awaiting"
        /\ ~Satisfied(join[r])
        /\ \A c \in join[r].pending : ~record[c].known => reserved[c] = r

(* A result that is kept for somebody was handed to nobody,    *)
(* and no round in the queue carries it.                                          *)
HeldIsUndelivered ==
    \A c \in Children : record[c].heldFor # NoRound =>
        /\ record[c].delivered \in {"", "dropped"}
        /\ handed[c] = 0
        /\ \A r \in Rounds : c \in round[r].carries => round[r].withdrawn

(* PromisesHold: whoever waits for a result (a suspended round with its join, a   *)
(* task a result is kept for) is the only one that will get it.                   *)
PromisesHold == JoinsWait /\ HeldIsUndelivered

(* AwaitedStaysHome: the result of a child that a task awaited never becomes a    *)
(* round of its own while that task lives on.                                     *)
AwaitedStaysHome ==
    [][\A c \in Children, w \in Rounds :
         reserved[c] = w /\ Alive(Memory, w) /\ Alive(Memory, w)' =>
            \A r \in Rounds : c \in round'[r].carries => c \in round[r].carries]_vars

(* ResultsArrive: no result that a child reported stays lost: it is handed to a    *)
(* model, carried by a round that was not withdrawn, or dropped with the cancelled *)
(* task it was kept for.  Excepted is what was taken out of a queued round: when it *)
(* is handed back, the event of that round counts as its delivery.                 *)
Arrived(c) ==
    \/ handed[c] > 0 \/ record[c].delivered = "dropped"
    \/ \E r \in Rounds : c \in round[r].carries /\ ~round[r].withdrawn

ResultsArrive ==
    \A c \in Children :
        []<>(child[c].st = "over" /\ HasMessage(Memory, c) => Arrived(c) \/ c \in pulled)
=============================================================================
