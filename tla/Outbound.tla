------------------------------ MODULE Outbound ------------------------------
(***************************************************************************)
(* Delivery of replies from the supervisor's event stream to the chat       *)
(* platform: the receive cursor and the durable outbox                      *)
(* (clonoth_sdk/outbound_store.py), the router that receives, claims and    *)
(* delivers rows in the order of a conversation (clonoth_sdk/event_router,  *)
(* delivery_lanes), and the two-phase idempotency store of the adapter that *)
(* guards each platform call (adapters/_shared/send_guard.py).              *)
(*                                                                         *)
(* The replies 1..NReplies of one conversation are numbered by their        *)
(* sequence in the event log and are all in it from the start.  A reply is  *)
(* sent as Parts messages; the parts in Planned have a frozen message plan. *)
(* Bots are processes that share the two databases.                         *)
(***************************************************************************)
EXTENDS Naturals, FiniteSets, SequencesExt

CONSTANTS
    NReplies,   \* replies of the conversation
    NBots,      \* bot processes that may run; the first is up from the start
    Parts,      \* messages a reply is split into
    Planned,    \* the parts that carry stickers
    MaxReplays, \* bound: forced replays of one row
    MaxFaults   \* bound: crashes, stops, lost answers, lapsed leases, failed writes

ASSUME BoundsAssumption ==
    /\ NReplies \in Nat \ {0} /\ NBots \in Nat \ {0} /\ Parts \in Nat \ {0}
    /\ MaxReplays \in Nat /\ MaxFaults \in Nat /\ Planned \subseteq Nat

Replies == 1..NReplies
Bots == 1..NBots
NoBot == 0

(* The identity of a platform call: replaying a row changes its identities.  *)
Keys == Replies \X (0..MaxReplays) \X (1..Parts)
IsPlanned(k) == k[3] \in Planned

VARIABLES
    row,        \* the outbox
    received,   \* received_seq
    claim,      \* the idempotency store
    bot,        \* phase of each process
    stream,     \* last reply taken from the process's WebSocket
    lane,       \* rows queued on the conversation's lane, the one worked on first
    job,        \* where the lane's worker is
    accepted,   \* history: calls the platform accepted
    doubt,      \* history: why the outcome of a call is not established
    tried,      \* history: replies claimed at least once
    faults

vars == <<row, received, claim, bot, stream, lane, job, accepted, doubt, tried, faults>>

Offline == NReplies + 1
Idle == [stage |-> "idle", part |-> 1, gen |-> 0]

TypeOK ==
    /\ row \in [Replies -> [st: {"none", "pending", "delivering", "sent", "dead", "pruned"},
                            owner: Bots \union {NoBot}, live: BOOLEAN,
                            retry: {"now", "later", "past"}, gen: 0..MaxReplays]]
    /\ \A e \in Replies : row[e].owner # NoBot <=> row[e].st = "delivering"
    /\ received \in 0..NReplies
    /\ claim \in [Keys -> [st: {"none", "pending", "sent", "ambiguous"},
                           owner: Bots \union {NoBot}, live: BOOLEAN]]
    /\ \A k \in Keys : claim[k].owner # NoBot <=> claim[k].st = "pending"
    /\ bot \in [Bots -> {"new", "up", "closing", "down"}]
    /\ stream \in [Bots -> 0..Offline]
    /\ lane \in [Bots -> Seq(Replies)]
    /\ \A b \in Bots : IsInjective(lane[b])
    /\ job \in [Bots -> [stage: {"idle", "begin", "wait", "again", "send", "commit", "ack", "retry", "dead"},
                         part: 1..Parts, gen: 0..MaxReplays]]
    /\ \A b \in Bots : job[b].stage # "idle" => lane[b] # <<>>
    /\ accepted \in [Keys -> Nat]
    /\ doubt \in [Keys -> SUBSET {"lapse", "reset", "contender"}]
    /\ tried \subseteq Replies
    /\ faults \in 0..MaxFaults

NewRow == [st |-> "pending", owner |-> NoBot, live |-> FALSE, retry |-> "now", gen |-> 0]
Closed(r, st) == [r EXCEPT !.st = st, !.owner = NoBot, !.live = FALSE, !.retry = "now"]
NoClaim == [st |-> "none", owner |-> NoBot, live |-> FALSE]
Settled(st) == [st |-> st, owner |-> NoBot, live |-> FALSE]

Init ==
    /\ row = [e \in Replies |-> [NewRow EXCEPT !.st = "none"]]
    /\ received = 0
    /\ claim = [k \in Keys |-> NoClaim]
    /\ bot = [b \in Bots |-> IF b = 1 THEN "up" ELSE "new"]
    /\ stream = [b \in Bots |-> Offline]
    /\ lane = [b \in Bots |-> <<>>]
    /\ job = [b \in Bots |-> Idle]
    /\ accepted = [k \in Keys |-> 0]
    /\ doubt = [k \in Keys |-> {}]
    /\ tried = {}
    /\ faults = 0

Fault == faults < MaxFaults /\ faults' = faults + 1
Running(b) == bot[b] \in {"up", "closing"}
Head1(b) == lane[b][1]
Key(b) == <<Head1(b), job[b].gen, job[b].part>>

UnchangedStores == UNCHANGED <<row, received, claim, accepted, doubt, tried>>
UnchangedGuard == UNCHANGED <<claim, accepted, doubt>>
UnchangedProcess == UNCHANGED <<bot, stream, lane, job>>

-----------------------------------------------------------------------------
(* Receiving.                                                                *)

IsDueWhilePending(e) == row[e].st = "pending" /\ row[e].retry # "later"

(* due(): what the recovery scan submits, ordered by next_retry, then seq.    *)
IsDue(e) == \/ row[e].st = "pending" /\ row[e].retry # "later"
            \/ row[e].st = "delivering" /\ ~row[e].live

ScanAnyOrder(s) == TRUE

ScanOrder(s) ==
    \A i, j \in 1..Len(s) : i < j =>
        /\ row[s[j]].retry = "now" => row[s[i]].retry = "now"
        /\ row[s[i]].retry = "now" /\ row[s[j]].retry = "now" => s[i] < s[j]

Scanned(b) == {s \in SetToSeqs({e \in Replies : IsDue(e) /\ e \notin Range(lane[b])}) : ScanOrder(s)}

(* run(): the recovery loop scans before the stream delivers anything.        *)
Start(b) ==
    /\ bot[b] \in {"new", "down"}
    /\ bot' = [bot EXCEPT ![b] = "up"]
    /\ \E s \in Scanned(b) : lane' = [lane EXCEPT ![b] = s]
    /\ UnchangedStores /\ UNCHANGED <<stream, job, faults>>

Scan(b) ==
    /\ bot[b] = "up"
    /\ \E s \in Scanned(b) : s # <<>> /\ lane' = [lane EXCEPT ![b] = @ \o s]
    /\ UnchangedStores /\ UNCHANGED <<bot, stream, job, faults>>

(* ws_connect(last_seq=received_seq): the server replays what follows it,     *)
(* then streams, without a gap.                                              *)
Connect(b) ==
    /\ bot[b] = "up" /\ stream[b] = Offline
    /\ stream' = [stream EXCEPT ![b] = received]
    /\ UnchangedStores /\ UNCHANGED <<bot, lane, job, faults>>

DisconnectSkipping(b) ==
    /\ bot[b] = "up" /\ stream[b] < NReplies
    /\ stream' = [stream EXCEPT ![b] = @ + 1]
    /\ received' = IF stream[b] + 1 > received THEN stream[b] + 1 ELSE received
    /\ Fault
    /\ UNCHANGED <<row, claim, accepted, doubt, tried, bot, lane, job>>

(* The connection drops, or the row could not be made durable.               *)
Disconnect(b) ==
    /\ bot[b] = "up" /\ stream[b] # Offline
    /\ stream' = [stream EXCEPT ![b] = Offline]
    /\ Fault
    /\ UnchangedStores /\ UNCHANGED <<bot, lane, job>>

Enqueue(e) == IF row[e].st \in {"none", "pruned"} THEN [row EXCEPT ![e] = NewRow] ELSE row

(* _persist_durable_outbound hands back a row unless it is sent or deferred.  *)
Submits(b, e) == row[e].st # "sent" /\ row[e].retry # "later" /\ e \notin Range(lane[b])

Take(b, e) ==
    /\ bot[b] = "up" /\ e <= NReplies
    /\ row' = Enqueue(e)
    /\ lane' = IF Submits(b, e) THEN [lane EXCEPT ![b] = Append(@, e)] ELSE lane

AdvanceCursor(e) == IF e > received THEN e ELSE received

Receive(b) ==
    /\ stream[b] < NReplies
    /\ LET e == stream[b] + 1 IN
       /\ Take(b, e)
       /\ received' = AdvanceCursor(e)
       /\ stream' = [stream EXCEPT ![b] = e]
    /\ UnchangedGuard /\ UNCHANGED <<bot, job, tried, faults>>

(* The row is durable and queued, but writing the cursor fails.               *)
ReceiveLosesCursor(b) ==
    /\ stream[b] < NReplies
    /\ Take(b, stream[b] + 1)
    /\ stream' = [stream EXCEPT ![b] = Offline]
    /\ Fault
    /\ UnchangedGuard /\ UNCHANGED <<received, bot, job, tried>>

-----------------------------------------------------------------------------
(* The lane's worker.                                                        *)

Pop(b) ==
    /\ lane' = [lane EXCEPT ![b] = Tail(@)]
    /\ job' = [job EXCEPT ![b] = Idle]

GoTo(b, stage) ==
    /\ job' = [job EXCEPT ![b].stage = stage]
    /\ UNCHANGED lane

NextPart(b) ==
    /\ job' = [job EXCEPT ![b] = IF job[b].part < Parts
                                 THEN [job[b] EXCEPT !.stage = "begin", !.part = job[b].part + 1]
                                 ELSE [job[b] EXCEPT !.stage = "ack"]]
    /\ UNCHANGED lane

(* claim(): the queued record may be stale, the row decides.                  *)
ClaimRow(b) ==
    /\ Running(b) /\ lane[b] # <<>> /\ job[b].stage = "idle"
    /\ LET e == Head1(b) IN
       IF IsDue(e)
       THEN /\ row' = [row EXCEPT ![e] = [@ EXCEPT !.st = "delivering", !.owner = b, !.live = TRUE]]
            /\ job' = [job EXCEPT ![b] = [stage |-> "begin", part |-> 1, gen |-> row[e].gen]]
            /\ tried' = tried \union {e}
            /\ UNCHANGED lane
       ELSE Pop(b) /\ UNCHANGED <<row, tried>>
    /\ UnchangedGuard /\ UNCHANGED <<received, bot, stream, faults>>

(* _prune_locked: a pending claim whose lease expired is forgotten; if it has *)
(* a plan its outcome is unknown instead.                                    *)
Expired(k) == claim[k].st = "pending" /\ ~claim[k].live

PrunedWithoutPlans == [k \in Keys |-> IF Expired(k) THEN NoClaim ELSE claim[k]]

Pruned == [k \in Keys |->
    IF ~Expired(k) THEN claim[k]
    ELSE IF IsPlanned(k) THEN Settled("ambiguous") ELSE NoClaim]

PrunedWith(k, c) == [Pruned EXCEPT ![k] = c]

Forgetting == [k \in Keys |->
    IF Expired(k) /\ ~IsPlanned(k) THEN doubt[k] \union {"lapse"} ELSE doubt[k]]

Prunes(c) == claim' = c /\ doubt' = Forgetting

Acquire(b) ==
    /\ Prunes(PrunedWith(Key(b), [st |-> "pending", owner |-> b, live |-> TRUE]))
    /\ GoTo(b, "send")

(* begin(): the phase of the claim decides.  A contender that took the claim  *)
(* between the wait and the second attempt counts as having delivered.       *)
Begin(b) ==
    /\ job[b].stage \in {"begin", "again"}
    /\ LET st == Pruned[Key(b)].st IN
       \/ st = "none" /\ Acquire(b)
       \/ st = "sent" /\ Prunes(Pruned) /\ NextPart(b)
       \/ st = "ambiguous" /\ Prunes(Pruned) /\ GoTo(b, "dead")
       \/ st = "pending" /\ job[b].stage = "begin" /\ Prunes(Pruned) /\ GoTo(b, "wait")
       \/ /\ st = "pending" /\ job[b].stage = "again"
          /\ claim' = Pruned
          /\ doubt' = [Forgetting EXCEPT ![Key(b)] = @ \union {"contender"}]
          /\ NextPart(b)
    /\ UNCHANGED <<row, received, bot, stream, accepted, tried, faults>>

(* The adapter raises before any part: quiet hours and a missing connection   *)
(* are tried again later, an invalid target is not.                          *)
RaiseEarly(b) ==
    /\ job[b].stage = "begin" /\ job[b].part = 1
    /\ Fault
    /\ \E stage \in {"retry", "dead"} : GoTo(b, stage)
    /\ UnchangedStores /\ UNCHANGED <<bot, stream>>

(* wait_for_resolution(): until the other owner is done, or 30 seconds.       *)
Wait(b) ==
    /\ job[b].stage = "wait"
    /\ LET st == Pruned[Key(b)].st IN
       \/ st \in {"sent", "ambiguous"} /\ NextPart(b)
       \/ st = "none" /\ GoTo(b, "again")
       \/ st = "pending" /\ GoTo(b, "retry")
    /\ Prunes(Pruned)
    /\ UNCHANGED <<row, received, bot, stream, accepted, tried, faults>>

(* The claim is still this sender's: otherwise the write raises an ownership  *)
(* error, which is retryable.                                                *)
Holds(b) == claim[Key(b)].st = "pending" /\ claim[Key(b)].owner = b

SettleClaim(b, st, stage) ==
    IF Holds(b)
    THEN claim' = [claim EXCEPT ![Key(b)] = Settled(st)] /\ GoTo(b, stage)
    ELSE UNCHANGED claim /\ GoTo(b, "retry")

Accepting(b) == [accepted EXCEPT ![Key(b)] = @ + 1]

(* The platform accepts the message and says so.                             *)
SendAccepted(b) ==
    /\ job[b].stage = "send"
    /\ accepted' = Accepting(b)
    /\ GoTo(b, "commit")
    /\ UNCHANGED <<row, received, claim, bot, stream, doubt, tried, faults>>

(* No usable answer: the platform may have accepted the message.              *)
SendUnknown(b) ==
    /\ job[b].stage = "send"
    /\ Fault
    /\ accepted' \in {accepted, Accepting(b)}
    /\ SettleClaim(b, "ambiguous", "dead")
    /\ UNCHANGED <<row, received, bot, stream, doubt, tried>>

(* The platform did not take the message: retryable, or for good.             *)
SendRefused(b) ==
    /\ job[b].stage = "send"
    /\ Fault
    /\ \E stage \in {"retry", "dead"} : SettleClaim(b, "none", stage)
    /\ UNCHANGED <<row, received, bot, stream, accepted, doubt, tried>>

(* A connection reset is classified as retryable, though the platform may     *)
(* have accepted the message.                                                *)
SendReset(b) ==
    /\ job[b].stage = "send"
    /\ Fault
    /\ accepted' = Accepting(b)
    /\ SettleClaim(b, "none", "retry")
    /\ doubt' = [doubt EXCEPT ![Key(b)] = @ \union {"reset"}]
    /\ UNCHANGED <<row, received, bot, stream, tried>>

Commit(b) ==
    /\ job[b].stage = "commit"
    /\ IF Holds(b)
       THEN Prunes(PrunedWith(Key(b), Settled("sent"))) /\ NextPart(b)
       ELSE UNCHANGED <<claim, doubt>> /\ GoTo(b, "retry")
    /\ UNCHANGED <<row, received, bot, stream, accepted, tried, faults>>

CommitFails(b) ==
    /\ job[b].stage = "commit"
    /\ Fault
    /\ SettleClaim(b, "ambiguous", "dead")
    /\ UNCHANGED <<row, received, bot, stream, accepted, doubt, tried>>

OwnsAnyOwner(b, e) == row[e].st = "delivering"

(* The outbox writes of the row's owner; a sender that lost the row changes   *)
(* nothing and leaves it to the new owner.                                   *)
Owns(b, e) == row[e].st = "delivering" /\ row[e].owner = b

WriteRow(b, new) ==
    /\ row' = IF Owns(b, Head1(b)) THEN [row EXCEPT ![Head1(b)] = new] ELSE row
    /\ Pop(b)

Retried(e) == [Closed(row[e], "pending") EXCEPT !.retry = "later"]

Acknowledge(b) ==
    /\ job[b].stage = "ack"
    /\ WriteRow(b, Closed(row[Head1(b)], "sent"))
    /\ UnchangedGuard /\ UNCHANGED <<received, bot, stream, tried, faults>>

AcknowledgeFails(b) ==
    /\ job[b].stage = "ack"
    /\ Fault
    /\ WriteRow(b, Retried(Head1(b)))
    /\ UnchangedGuard /\ UNCHANGED <<received, bot, stream, tried>>

MarkFailed(b) ==
    /\ job[b].stage = "retry"
    /\ WriteRow(b, Retried(Head1(b)))
    /\ UnchangedGuard /\ UNCHANGED <<received, bot, stream, tried, faults>>

MarkDeadLetter(b) ==
    /\ job[b].stage = "dead"
    /\ WriteRow(b, Closed(row[Head1(b)], "dead"))
    /\ UnchangedGuard /\ UNCHANGED <<received, bot, stream, tried, faults>>

-----------------------------------------------------------------------------
(* Processes that stop, leases that lapse, the operator, and time.           *)

(* A stop cancels the lane.  A send in its protected window swallows the      *)
(* cancellation and its lane goes on; otherwise a claimed row is released.   *)
Protected(b) == job[b].stage \in {"send", "commit"}

Close(b) ==
    /\ bot[b] = "up"
    /\ job[b].stage \in {"idle", "begin", "wait", "again", "send", "commit"}
    /\ Fault
    /\ stream' = [stream EXCEPT ![b] = Offline]
    /\ IF Protected(b)
       THEN bot' = [bot EXCEPT ![b] = "closing"] /\ UNCHANGED <<row, lane, job>>
       ELSE /\ bot' = [bot EXCEPT ![b] = "down"]
            /\ row' = IF job[b].stage # "idle" /\ Owns(b, Head1(b))
                      THEN [row EXCEPT ![Head1(b)] = [Closed(@, "pending") EXCEPT !.retry = row[Head1(b)].retry]]
                      ELSE row
            /\ lane' = [lane EXCEPT ![b] = <<>>]
            /\ job' = [job EXCEPT ![b] = Idle]
    /\ UnchangedGuard /\ UNCHANGED <<received, tried>>

Stop(b) ==
    /\ bot[b] = "closing" /\ lane[b] = <<>>
    /\ bot' = [bot EXCEPT ![b] = "down"]
    /\ UnchangedStores /\ UNCHANGED <<stream, lane, job, faults>>

Crash(b) ==
    /\ Running(b)
    /\ Fault
    /\ bot' = [bot EXCEPT ![b] = "down"]
    /\ stream' = [stream EXCEPT ![b] = Offline]
    /\ lane' = [lane EXCEPT ![b] = <<>>]
    /\ job' = [job EXCEPT ![b] = Idle]
    /\ UnchangedStores

(* A lease is renewed while its job runs; renewal itself may fail.            *)
Delivers(e) == LET b == row[e].owner IN lane[b] # <<>> /\ Head1(b) = e /\ job[b].stage # "idle"
Sends(k) == LET b == claim[k].owner IN
    lane[b] # <<>> /\ Key(b) = k /\ job[b].stage \in {"send", "commit"}

RowLeaseLapses(e) ==
    /\ row[e].st = "delivering" /\ row[e].live
    /\ row' = [row EXCEPT ![e].live = FALSE]
    /\ IF Delivers(e) THEN Fault ELSE UNCHANGED faults
    /\ UnchangedGuard /\ UnchangedProcess /\ UNCHANGED <<received, tried>>

ClaimLeaseLapses(k) ==
    /\ claim[k].st = "pending" /\ claim[k].live
    /\ claim' = [claim EXCEPT ![k].live = FALSE]
    /\ IF Sends(k) THEN Fault ELSE UNCHANGED faults
    /\ UnchangedProcess /\ UNCHANGED <<row, received, accepted, doubt, tried>>

BackoffEnds(e) ==
    /\ row[e].st = "pending" /\ row[e].retry = "later"
    /\ row' = [row EXCEPT ![e].retry = "past"]
    /\ UnchangedGuard /\ UnchangedProcess /\ UNCHANGED <<received, tried, faults>>

ForceReplay(e) ==
    /\ row[e].st \notin {"none", "pruned"} /\ row[e].gen < MaxReplays
    /\ ~(row[e].st = "delivering" /\ row[e].live)
    /\ row' = [row EXCEPT ![e] = [NewRow EXCEPT !.gen = row[e].gen + 1]]
    /\ UnchangedGuard /\ UnchangedProcess /\ UNCHANGED <<received, tried, faults>>

(* Acknowledging a row moved processed_seq to it, so received_seq decides.    *)
Prunable(e) == row[e].st = "sent" /\ e <= received

PruneSent(e) ==
    /\ Prunable(e)
    /\ row' = [row EXCEPT ![e] = [NewRow EXCEPT !.st = "pruned"]]
    /\ UnchangedGuard /\ UnchangedProcess /\ UNCHANGED <<received, tried, faults>>

-----------------------------------------------------------------------------
Work(b) ==
    \/ ClaimRow(b) \/ Begin(b) \/ Wait(b) \/ SendAccepted(b) \/ Commit(b)
    \/ Acknowledge(b) \/ MarkFailed(b) \/ MarkDeadLetter(b)
    \/ Stop(b)

Trouble(b) ==
    \/ RaiseEarly(b) \/ SendUnknown(b) \/ SendRefused(b) \/ SendReset(b)
    \/ CommitFails(b) \/ AcknowledgeFails(b)
    \/ Disconnect(b) \/ ReceiveLosesCursor(b) \/ Close(b) \/ Crash(b)

Next ==
    \/ \E b \in Bots : Start(b) \/ Scan(b) \/ Connect(b) \/ Receive(b) \/ Work(b) \/ Trouble(b)
    \/ \E e \in Replies : RowLeaseLapses(e) \/ BackoffEnds(e) \/ ForceReplay(e) \/ PruneSent(e)
    \/ \E k \in Keys : ClaimLeaseLapses(k)

Spec == Init /\ [][Next]_vars

(* The first process is started again after it ends; running processes scan,  *)
(* reconnect, read their stream and work their lane; leases and backoffs end. *)
Fairness ==
    /\ WF_vars(Start(1))
    /\ \A b \in Bots : WF_vars(Scan(b)) /\ WF_vars(Connect(b)) /\ WF_vars(Receive(b)) /\ WF_vars(Work(b))
    /\ \A e \in Replies : WF_vars(RowLeaseLapses(e)) /\ WF_vars(BackoffEnds(e))
    /\ \A k \in Keys : WF_vars(ClaimLeaseLapses(k))

FairSpec == Spec /\ Fairness

-----------------------------------------------------------------------------
(* Every reply up to the receive cursor was made durable: whatever process    *)
(* asks the stream for what follows it misses nothing.                       *)
CursorBehindOutbox ==
    \A e \in Replies : e <= received => row[e].st # "none"

(* The platform accepts a message twice only if its claim lapsed while a      *)
(* sender without a plan was at work, or if a reset connection was taken for  *)
(* a message that was not accepted.                                          *)
AcceptedOnce ==
    \A k \in Keys : accepted[k] > 1 =>
        "reset" \in doubt[k] \/ ("lapse" \in doubt[k] /\ ~IsPlanned(k))

(* A reply recorded as sent was accepted part by part in this generation, but *)
(* for parts whose outcome the operator is shown as unknown, and for a part   *)
(* that a contender had claimed between the wait for the last owner and the   *)
(* second attempt to claim it.                                               *)
SentIsAccountedFor ==
    \A e \in Replies : row[e].st = "sent" =>
        \A p \in 1..Parts :
            LET k == <<e, row[e].gen, p>> IN
            accepted[k] > 0 \/ claim[k].st = "ambiguous" \/ "contender" \in doubt[k]

(* With one process, the first attempts of a conversation are made in order.  *)
FirstAttemptsInOrder ==
    [][\A e \in Replies, f \in Replies :
         /\ e \in tried' \ tried /\ f < e /\ row[f].st # "none"
         /\ \A b \in Bots \ {1} : bot[b] = "new"
         => f \in tried]_vars

(* Once crashes, lost answers and replays are over, every reply ends sent or  *)
(* as a dead letter.                                                         *)
EveryReplySettles ==
    <>[](\A e \in Replies : row[e].st \in {"sent", "dead", "pruned"})
=============================================================================
