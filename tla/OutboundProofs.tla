---------------------------- MODULE OutboundProofs ----------------------------
(* For any number of replies, parts, processes, replays and faults: the       *)
(* types, the receive cursor behind the outbox, the platform's single         *)
(* acceptance of a message, the account of every reply recorded as sent, and  *)
(* the order in which a process that is alone tries new replies.              *)
EXTENDS Outbound, FiniteSetTheorems, TLAPS

Row == [st : {"none", "pending", "delivering", "sent", "dead", "pruned"},
        owner : Bots \union {NoBot}, live : BOOLEAN,
        retry : {"now", "later", "past"}, gen : 0..MaxReplays]
Claim == [st : {"none", "pending", "sent", "ambiguous"},
          owner : Bots \union {NoBot}, live : BOOLEAN]
Stages == {"idle", "begin", "wait", "again", "send", "commit", "ack", "retry", "dead"}
Job == [stage : Stages, part : 1..Parts, gen : 0..MaxReplays]

OwnedRow(r) == r \in Row /\ (r.owner # NoBot <=> r.st = "delivering")
OwnedClaim(c) == c \in Claim /\ (c.owner # NoBot <=> c.st = "pending")

RowsOK == row \in [Replies -> Row] /\ \A e \in Replies : OwnedRow(row[e])
ClaimsOK == claim \in [Keys -> Claim] /\ \A k \in Keys : OwnedClaim(claim[k])

\* A process that does not run has no lane.
LanesOK ==
    /\ bot \in [Bots -> {"new", "up", "closing", "down"}]
    /\ stream \in [Bots -> 0..Offline]
    /\ lane \in [Bots -> Seq(Replies)]
    /\ \A b \in Bots : IsInjective(lane[b])
    /\ job \in [Bots -> Job]
    /\ \A b \in Bots : job[b].stage # "idle" => lane[b] # <<>>
    /\ \A b \in Bots : lane[b] # <<>> => Running(b)

CountsOK ==
    /\ received \in 0..NReplies
    /\ accepted \in [Keys -> Nat]
    /\ doubt \in [Keys -> SUBSET {"lapse", "reset", "contender"}]
    /\ tried \subseteq Replies
    /\ faults \in 0..MaxFaults

TInv == RowsOK /\ ClaimsOK /\ LanesOK /\ CountsOK

LEMMA TInvType == TInv => TypeOK
BY DEF TInv, TypeOK, RowsOK, ClaimsOK, LanesOK, CountsOK, OwnedRow, OwnedClaim, Row, Claim, Job, Stages

-----------------------------------------------------------------------------
(* Lanes.                                                                     *)
LEMMA TailOf ==
  ASSUME NEW s \in Seq(Replies), s # <<>>, IsInjective(s)
  PROVE  Tail(s) \in Seq(Replies) /\ IsInjective(Tail(s))
<1>1. Tail(s) \in Seq(Replies) /\ Len(Tail(s)) = Len(s) - 1
      /\ \A i \in 1..Len(Tail(s)) : Tail(s)[i] = s[i + 1]
  OBVIOUS
<1>2. \A i, j \in 1..Len(s) : s[i] = s[j] => i = j
  BY DEF IsInjective
<1>3. Len(s) \in Nat
  OBVIOUS
<1>4. \A i, j \in 1..Len(Tail(s)) : Tail(s)[i] = Tail(s)[j] => i = j
  BY <1>1, <1>2, <1>3
<1>5. QED
  BY <1>1, <1>4 DEF IsInjective

LEMMA JoinOf ==
  ASSUME NEW s \in Seq(Replies), NEW t \in Seq(Replies), IsInjective(s), IsInjective(t),
         \A i \in 1..Len(t) : t[i] \notin Range(s)
  PROVE  /\ s \o t \in Seq(Replies) /\ IsInjective(s \o t)
         /\ s # <<>> => s \o t # <<>> /\ (s \o t)[1] = s[1]
<1>1. s \o t \in Seq(Replies) /\ Len(s \o t) = Len(s) + Len(t)
      /\ \A i \in 1..Len(s \o t) : (s \o t)[i] = IF i <= Len(s) THEN s[i] ELSE t[i - Len(s)]
  OBVIOUS
<1>2. \A i \in 1..Len(s), j \in 1..Len(t) : s[i] # t[j]
  BY DEF Range
<1>3. \A i, j \in 1..Len(s) : s[i] = s[j] => i = j
  BY DEF IsInjective
<1>4. \A i, j \in 1..Len(t) : t[i] = t[j] => i = j
  BY DEF IsInjective
<1>5. Len(s) \in Nat /\ Len(t) \in Nat
  OBVIOUS
<1>6. ASSUME NEW i \in 1..Len(s \o t), NEW j \in 1..Len(s \o t), (s \o t)[i] = (s \o t)[j]
      PROVE  i = j
  BY <1>1, <1>2, <1>3, <1>4, <1>5, <1>6
<1>7. IsInjective(s \o t)
  BY <1>1, <1>6 DEF IsInjective
<1>8. s # <<>> => s \o t # <<>> /\ (s \o t)[1] = s[1]
  BY <1>1, <1>5
<1>9. QED
  BY <1>1, <1>7, <1>8

LEMMA AppendOf ==
  ASSUME NEW s \in Seq(Replies), NEW e \in Replies, IsInjective(s), e \notin Range(s)
  PROVE  /\ Append(s, e) \in Seq(Replies) /\ IsInjective(Append(s, e))
         /\ Append(s, e) # <<>>
         /\ s # <<>> => Append(s, e)[1] = s[1]
<1>1. Append(s, e) \in Seq(Replies) /\ Len(Append(s, e)) = Len(s) + 1
      /\ \A i \in 1..Len(Append(s, e)) : Append(s, e)[i] = IF i <= Len(s) THEN s[i] ELSE e
  OBVIOUS
<1>2. \A i \in 1..Len(s) : s[i] # e
  BY DEF Range
<1>3. \A i, j \in 1..Len(s) : s[i] = s[j] => i = j
  BY DEF IsInjective
<1>4. Len(s) \in Nat
  OBVIOUS
<1>5. \A i, j \in 1..Len(Append(s, e)) : Append(s, e)[i] = Append(s, e)[j] => i = j
  BY <1>1, <1>2, <1>3, <1>4
<1>6. IsInjective(Append(s, e))
  BY <1>1, <1>5 DEF IsInjective
<1>7. QED
  BY <1>1, <1>4, <1>6

LEMMA ScannedIs ==
  ASSUME NEW b \in Bots, NEW s \in Scanned(b)
  PROVE  /\ s \in Seq(Replies) /\ IsInjective(s)
         /\ \A i \in 1..Len(s) : s[i] \in Replies /\ IsDue(s[i]) /\ s[i] \notin Range(lane[b])
<1> DEFINE S == {e \in Replies : IsDue(e) /\ e \notin Range(lane[b])}
<1>1. IsFiniteSet(S) /\ Cardinality(S) \in Nat
  <2>1. IsFiniteSet(Replies)
    BY FS_Interval, BoundsAssumption DEF Replies
  <2>2. QED
    BY <2>1, FS_Subset, FS_CardinalityType
<1>2. s \in [1..Cardinality(S) -> S] /\ \A i, j \in 1..Cardinality(S) : i # j => s[i] # s[j]
  BY DEF Scanned, SetToSeqs
<1>3. s \in Seq(Replies) /\ Len(s) = Cardinality(S)
  BY <1>1, <1>2
<1>4. QED
  BY <1>2, <1>3 DEF IsInjective

\* The head of a lane is a reply, and its part has a key.
LEMMA KeyIs ==
  ASSUME LanesOK, NEW b \in Bots, lane[b] # <<>>
  PROVE  Head1(b) \in Replies /\ Key(b) \in Keys
<1>1. lane[b] \in Seq(Replies) /\ job[b] \in Job
  BY DEF LanesOK
<1>2. lane[b][1] \in Replies
  BY <1>1
<1>3. QED
  BY <1>1, <1>2 DEF Head1, Key, Keys, Job

LEMMA BusyIs ==
  ASSUME LanesOK, NEW b \in Bots, job[b].stage # "idle"
  PROVE  lane[b] # <<>> /\ Running(b) /\ Head1(b) \in Replies /\ Key(b) \in Keys
BY KeyIs DEF LanesOK

LEMMA PopKeeps ==
  ASSUME LanesOK, NEW b \in Bots, lane[b] # <<>>, Pop(b), UNCHANGED <<bot, stream>>
  PROVE  LanesOK'
<1>1. Tail(lane[b]) \in Seq(Replies) /\ IsInjective(Tail(lane[b]))
  BY TailOf DEF LanesOK
<1>2. Idle \in Job
  BY BoundsAssumption DEF Idle, Job, Stages
<1>3. QED
  BY <1>1, <1>2 DEF LanesOK, Pop, Idle, Running

\* A busy process changes its stage or goes on to the next part.
LEMMA JobKeeps ==
  ASSUME LanesOK, NEW b \in Bots, lane[b] # <<>>, NEW j \in Job,
         job' = [job EXCEPT ![b] = j], UNCHANGED <<lane, bot, stream>>
  PROVE  LanesOK'
BY DEF LanesOK, Running

LEMMA GoToKeeps ==
  ASSUME LanesOK, NEW b \in Bots, lane[b] # <<>>, NEW stage \in Stages,
         GoTo(b, stage), UNCHANGED <<bot, stream>>
  PROVE  LanesOK'
<1> DEFINE j == [job[b] EXCEPT !.stage = stage]
<1>0. job[b] \in Job
  BY DEF LanesOK
<1>1. j \in Job
  BY <1>0 DEF Job
<1>2. job' = [job EXCEPT ![b] = j]
  BY DEF GoTo, LanesOK
<1>3. QED
  BY <1>1, <1>2, JobKeeps DEF GoTo

LEMMA NextPartKeeps ==
  ASSUME LanesOK, NEW b \in Bots, lane[b] # <<>>,
         NextPart(b), UNCHANGED <<bot, stream>>
  PROVE  LanesOK'
<1> DEFINE j == IF job[b].part < Parts THEN [job[b] EXCEPT !.stage = "begin", !.part = job[b].part + 1]
                ELSE [job[b] EXCEPT !.stage = "ack"]
<1>0. job[b] \in Job
  BY DEF LanesOK
<1>1. j \in Job
  <2>1. CASE job[b].part < Parts
    <3>1. job[b].part + 1 \in 1..Parts
      BY <1>0, <2>1, BoundsAssumption DEF Job
    <3>2. QED
      BY <1>0, <2>1, <3>1 DEF Job, Stages
  <2>2. CASE ~(job[b].part < Parts)
    BY <1>0, <2>2 DEF Job, Stages
  <2>3. QED
    BY <2>1, <2>2
<1>2. job' = [job EXCEPT ![b] = j]
  BY DEF NextPart, LanesOK
<1>3. QED
  BY <1>1, <1>2, JobKeeps DEF NextPart

\* A process stops or dies: its lane is gone.
LEMMA LeaveKeeps ==
  ASSUME LanesOK, NEW b \in Bots, NEW p \in {"closing", "down"}, bot' = [bot EXCEPT ![b] = p],
         \/ p = "closing" /\ UNCHANGED <<lane, job>>
         \/ lane' = [lane EXCEPT ![b] = <<>>] /\ job' = [job EXCEPT ![b] = Idle]
         \/ lane[b] = <<>> /\ UNCHANGED <<lane, job>>,
         stream' \in {stream, [stream EXCEPT ![b] = Offline]}
  PROVE  LanesOK'
<1>0. Offline \in 0..Offline
  BY BoundsAssumption DEF Offline
<1>1. Idle \in Job /\ Idle.stage = "idle"
  BY BoundsAssumption DEF Idle, Job, Stages
<1>2. stream' \in [Bots -> 0..Offline]
  BY <1>0 DEF LanesOK
<1>3. <<>> \in Seq(Replies) /\ IsInjective(<<>>)
  BY DEF IsInjective
<1>4. lane' \in [Bots -> Seq(Replies)] /\ \A c \in Bots : IsInjective(lane'[c])
  BY <1>3 DEF LanesOK
<1>5. job' \in [Bots -> Job]
  BY <1>1 DEF LanesOK
<1>6. \A c \in Bots : job'[c].stage # "idle" => lane'[c] # <<>>
  BY <1>1 DEF LanesOK
<1>7. \A c \in Bots : lane'[c] # <<>> => Running(c)'
  BY DEF LanesOK, Running
<1>8. QED
  BY <1>2, <1>4, <1>5, <1>6, <1>7 DEF LanesOK

\* A running process queues further replies.
LEMMA QueueKeeps ==
  ASSUME LanesOK, NEW b \in Bots, NEW s \in Seq(Replies), IsInjective(s),
         lane[b] # <<>> => s # <<>>,
         lane' = [lane EXCEPT ![b] = s],
         bot' \in {bot, [bot EXCEPT ![b] = "up"]}, bot'[b] = "up",
         UNCHANGED job, stream' \in [Bots -> 0..Offline]
  PROVE  LanesOK'
BY DEF LanesOK, Running

LEMMA TakeKeeps ==
  ASSUME LanesOK, NEW b \in Bots, NEW e \in Replies, Take(b, e),
         UNCHANGED <<bot, job>>, stream' \in [Bots -> 0..Offline]
  PROVE  LanesOK'
<1>0. lane[b] \in Seq(Replies) /\ IsInjective(lane[b]) /\ bot[b] = "up"
  BY DEF LanesOK, Take
<1>1. CASE Submits(b, e)
  <2>1. e \notin Range(lane[b])
    BY <1>1 DEF Submits
  <2>2. /\ Append(lane[b], e) \in Seq(Replies) /\ IsInjective(Append(lane[b], e))
        /\ Append(lane[b], e) # <<>>
    BY <1>0, <2>1, AppendOf
  <2>3. lane' = [lane EXCEPT ![b] = Append(lane[b], e)]
    BY <1>1 DEF Take
  <2>4. QED
    BY <1>0, <2>2, <2>3, QueueKeeps
<1>2. CASE ~Submits(b, e)
  <2>1. lane' = lane
    BY <1>2 DEF Take
  <2>2. QED
    BY <2>1 DEF LanesOK, Running
<1>3. QED
  BY <1>1, <1>2

LEMMA ScanKeeps ==
  ASSUME LanesOK, NEW b \in Bots, Scan(b)
  PROVE  LanesOK'
<1>1. PICK s \in Scanned(b) : lane' = [lane EXCEPT ![b] = lane[b] \o s]
  BY DEF Scan
<1>2. lane[b] \in Seq(Replies) /\ IsInjective(lane[b])
  BY DEF LanesOK
<1>3. /\ s \in Seq(Replies) /\ IsInjective(s)
      /\ \A i \in 1..Len(s) : s[i] \notin Range(lane[b])
  BY ScannedIs
<1>4. /\ lane[b] \o s \in Seq(Replies) /\ IsInjective(lane[b] \o s)
      /\ lane[b] # <<>> => lane[b] \o s # <<>>
  BY <1>2, <1>3, JoinOf
<1>5. bot' = bot /\ bot[b] = "up" /\ job' = job /\ stream' \in [Bots -> 0..Offline]
  BY DEF Scan, LanesOK
<1>6. QED
  BY <1>1, <1>4, <1>5, QueueKeeps

LEMMA StartKeeps ==
  ASSUME LanesOK, NEW b \in Bots, Start(b)
  PROVE  LanesOK'
<1>1. PICK s \in Scanned(b) : lane' = [lane EXCEPT ![b] = s]
  BY DEF Start
<1>2. s \in Seq(Replies) /\ IsInjective(s)
  BY ScannedIs
<1>3. lane[b] = <<>>
  BY DEF LanesOK, Start, Running
<1>4. /\ bot' = [bot EXCEPT ![b] = "up"] /\ bot'[b] = "up" /\ job' = job
      /\ stream' \in [Bots -> 0..Offline]
  BY DEF Start, LanesOK
<1>5. QED
  BY <1>1, <1>2, <1>3, <1>4, QueueKeeps

-----------------------------------------------------------------------------
(* Rows.                                                                      *)
LEMMA RowSet ==
  ASSUME RowsOK, NEW e \in Replies, NEW r, OwnedRow(r),
         row' = [row EXCEPT ![e] = r]
  PROVE  RowsOK'
BY DEF RowsOK, OwnedRow

LEMMA NewRowIs == OwnedRow(NewRow) /\ NewRow.gen = 0 /\ NewRow.st = "pending"
BY BoundsAssumption DEF OwnedRow, NewRow, Row, NoBot, Bots

LEMMA ClosedIs ==
  ASSUME NEW r \in Row, NEW st \in {"none", "pending", "sent", "dead", "pruned"},
         NEW retry \in {"now", "later", "past"}
  PROVE  /\ OwnedRow(Closed(r, st)) /\ Closed(r, st).gen = r.gen /\ Closed(r, st).st = st
         /\ OwnedRow([Closed(r, st) EXCEPT !.retry = retry])
         /\ [Closed(r, st) EXCEPT !.retry = retry].gen = r.gen
         /\ [Closed(r, st) EXCEPT !.retry = retry].st = st
<1>1. NoBot \in Bots \union {NoBot}
  OBVIOUS
<1>2. /\ Closed(r, st) \in Row /\ Closed(r, st).gen = r.gen /\ Closed(r, st).st = st
      /\ Closed(r, st).owner = NoBot
  BY <1>1 DEF Closed, Row
<1>3. /\ [Closed(r, st) EXCEPT !.retry = retry] \in Row
      /\ [Closed(r, st) EXCEPT !.retry = retry].gen = r.gen
      /\ [Closed(r, st) EXCEPT !.retry = retry].st = st
      /\ [Closed(r, st) EXCEPT !.retry = retry].owner = NoBot
  BY <1>2 DEF Row
<1>4. QED
  BY <1>2, <1>3 DEF OwnedRow

LEMMA TakenIs ==
  ASSUME NEW r \in Row, NEW b \in Bots
  PROVE  LET t == [r EXCEPT !.st = "delivering", !.owner = b, !.live = TRUE]
         IN OwnedRow(t) /\ t.st = "delivering" /\ t.owner = b /\ t.gen = r.gen
<1> DEFINE t == [r EXCEPT !.st = "delivering", !.owner = b, !.live = TRUE]
<1>1. t \in Row /\ t.st = "delivering" /\ t.owner = b /\ t.gen = r.gen
  BY DEF Row
<1>2. b # NoBot
  BY DEF Bots, NoBot
<1>3. QED
  BY <1>1, <1>2 DEF OwnedRow

LEMMA WriteRowSets ==
  ASSUME RowsOK, LanesOK, NEW b \in Bots, lane[b] # <<>>, NEW r, OwnedRow(r), WriteRow(b, r)
  PROVE  RowsOK'
<1>1. Head1(b) \in Replies
  BY KeyIs
<1>2. CASE Owns(b, Head1(b))
  BY <1>1, <1>2, RowSet DEF WriteRow
<1>3. CASE ~Owns(b, Head1(b))
  BY <1>3 DEF WriteRow, RowsOK
<1>4. QED
  BY <1>2, <1>3

LEMMA EnqueueKeeps ==
  ASSUME RowsOK, NEW e \in Replies, row' = Enqueue(e)
  PROVE  RowsOK'
<1>1. CASE row[e].st \in {"none", "pruned"}
  BY <1>1, RowSet, NewRowIs DEF Enqueue
<1>2. CASE row[e].st \notin {"none", "pruned"}
  BY <1>2 DEF Enqueue, RowsOK
<1>3. QED
  BY <1>1, <1>2

-----------------------------------------------------------------------------
(* Claims.                                                                    *)
LEMMA NoClaimIs == OwnedClaim(NoClaim) /\ NoClaim.st = "none"
BY DEF OwnedClaim, NoClaim, Claim

LEMMA SettledIs ==
  ASSUME NEW st \in {"none", "sent", "ambiguous"}
  PROVE  OwnedClaim(Settled(st)) /\ Settled(st).st = st
BY DEF OwnedClaim, Settled, Claim

LEMMA PrunedIs ==
  ASSUME ClaimsOK
  PROVE  Pruned \in [Keys -> Claim] /\ \A k \in Keys : OwnedClaim(Pruned[k])
<1>1. \A k \in Keys : OwnedClaim(IF ~Expired(k) THEN claim[k]
                                 ELSE IF IsPlanned(k) THEN Settled("ambiguous") ELSE NoClaim)
  BY NoClaimIs, SettledIs DEF ClaimsOK
<1>2. \A k \in Keys : OwnedClaim(Pruned[k])
  BY <1>1 DEF Pruned
<1>3. QED
  BY <1>1, <1>2 DEF Pruned, OwnedClaim

LEMMA PrunedWithIs ==
  ASSUME ClaimsOK, NEW k \in Keys, NEW c, OwnedClaim(c)
  PROVE  /\ PrunedWith(k, c) \in [Keys -> Claim]
         /\ \A i \in Keys : OwnedClaim(PrunedWith(k, c)[i])
BY PrunedIs DEF PrunedWith, OwnedClaim

LEMMA SettleKeeps ==
  ASSUME ClaimsOK, LanesOK, NEW b \in Bots, lane[b] # <<>>,
         NEW st \in {"none", "sent", "ambiguous"}, NEW stage, SettleClaim(b, st, stage)
  PROVE  ClaimsOK'
<1>1. Key(b) \in Keys
  BY KeyIs
<1>2. CASE Holds(b)
  <2>1. claim' = [claim EXCEPT ![Key(b)] = Settled(st)]
    BY <1>2 DEF SettleClaim
  <2>2. QED
    BY <1>1, <2>1, SettledIs DEF ClaimsOK, OwnedClaim
<1>3. CASE ~Holds(b)
  BY <1>3 DEF SettleClaim, ClaimsOK
<1>4. QED
  BY <1>2, <1>3

-----------------------------------------------------------------------------
(* Types are kept.                                                            *)

\* A step that leaves the two stores alone.
LEMMA StoresSame == ASSUME TInv, UnchangedStores PROVE RowsOK' /\ ClaimsOK' /\ UNCHANGED <<received, accepted, doubt, tried>>
BY DEF TInv, UnchangedStores, RowsOK, ClaimsOK

LEMMA RowsSame == ASSUME RowsOK, UNCHANGED row PROVE RowsOK'
BY DEF RowsOK

LEMMA ClaimsSame == ASSUME ClaimsOK, UNCHANGED claim PROVE ClaimsOK'
BY DEF ClaimsOK

LEMMA LanesSame == ASSUME LanesOK, UNCHANGED <<bot, stream, lane, job>> PROVE LanesOK'
BY DEF LanesOK, Running

LEMMA FaultIs == ASSUME CountsOK, Fault PROVE faults' \in 0..MaxFaults
BY BoundsAssumption DEF CountsOK, Fault

\* Of the counters and histories.
LEMMA DoubtIs ==
  ASSUME CountsOK, NEW k \in Keys
  PROVE  /\ Forgetting \in [Keys -> SUBSET {"lapse", "reset", "contender"}]
         /\ [Forgetting EXCEPT ![k] = Forgetting[k] \union {"contender"}]
              \in [Keys -> SUBSET {"lapse", "reset", "contender"}]
         /\ [doubt EXCEPT ![k] = doubt[k] \union {"reset"}]
              \in [Keys -> SUBSET {"lapse", "reset", "contender"}]
<1>1. \A i \in Keys : doubt[i] \in SUBSET {"lapse", "reset", "contender"}
  BY DEF CountsOK
<1>2. \A i \in Keys : doubt[i] \union {"lapse"} \in SUBSET {"lapse", "reset", "contender"}
  BY <1>1
<1>3. Forgetting \in [Keys -> SUBSET {"lapse", "reset", "contender"}]
  BY <1>1, <1>2 DEF Forgetting
<1>4. /\ Forgetting[k] \union {"contender"} \in SUBSET {"lapse", "reset", "contender"}
      /\ doubt[k] \union {"reset"} \in SUBSET {"lapse", "reset", "contender"}
  BY <1>1, <1>3
<1>5. QED
  BY <1>1, <1>3, <1>4 DEF CountsOK

LEMMA TypeOfStream ==
  ASSUME TInv, NEW b \in Bots,
         Start(b) \/ Scan(b) \/ Connect(b) \/ Receive(b) \/ ReceiveLosesCursor(b) \/ Disconnect(b)
  PROVE  TInv'
<1> USE DEF TInv
<1>0. Offline \in 0..Offline /\ received \in 0..Offline
  BY BoundsAssumption DEF Offline, CountsOK
<1>1. CASE Start(b)
  BY <1>1, StartKeeps, StoresSame DEF Start, CountsOK
<1>2. CASE Scan(b)
  BY <1>2, ScanKeeps, StoresSame DEF Scan, CountsOK
<1>3. CASE Connect(b)
  <2>1. LanesOK'
    BY <1>0, <1>3 DEF Connect, LanesOK, Running
  <2>2. QED
    BY <1>3, <2>1, StoresSame DEF Connect, CountsOK
<1>4. CASE Disconnect(b)
  <2>1. LanesOK'
    BY <1>0, <1>4 DEF Disconnect, LanesOK, Running
  <2>2. QED
    BY <1>4, <2>1, StoresSame, FaultIs DEF Disconnect, CountsOK
<1>5. ASSUME stream[b] < NReplies, NEW e, e = stream[b] + 1, Take(b, e)
      PROVE  e \in Replies /\ e \in 0..Offline /\ RowsOK'
  <2>1. stream[b] \in Nat
    BY DEF LanesOK
  <2>2. e \in Replies /\ e \in 0..Offline
    BY <1>5, <2>1, BoundsAssumption DEF Replies, Offline
  <2>3. QED
    BY <1>5, <2>2, EnqueueKeeps DEF Take
<1>6. CASE Receive(b)
  <2> DEFINE e == stream[b] + 1
  <2>1. stream[b] < NReplies /\ Take(b, e) /\ received' = AdvanceCursor(e)
        /\ stream' = [stream EXCEPT ![b] = e] /\ UNCHANGED <<bot, job, tried, faults, claim, accepted, doubt>>
    BY <1>6 DEF Receive, UnchangedGuard
  <2>2. e \in Replies /\ e \in 0..Offline /\ RowsOK'
    BY <1>5, <2>1
  <2>3. stream' \in [Bots -> 0..Offline]
    BY <2>1, <2>2 DEF LanesOK
  <2>4. LanesOK'
    BY <2>1, <2>2, <2>3, TakeKeeps
  <2>5. CountsOK'
    BY <2>1, <2>2 DEF CountsOK, AdvanceCursor, Replies
  <2>6. QED
    BY <2>1, <2>2, <2>4, <2>5, ClaimsSame
<1>7. CASE ReceiveLosesCursor(b)
  <2> DEFINE e == stream[b] + 1
  <2>1. stream[b] < NReplies /\ Take(b, e) /\ Fault
        /\ stream' = [stream EXCEPT ![b] = Offline] /\ UNCHANGED <<bot, job, tried, received, claim, accepted, doubt>>
    BY <1>7 DEF ReceiveLosesCursor, UnchangedGuard
  <2>2. e \in Replies /\ e \in 0..Offline /\ RowsOK'
    BY <1>5, <2>1
  <2>3. stream' \in [Bots -> 0..Offline]
    BY <1>0, <2>1 DEF LanesOK
  <2>4. LanesOK'
    BY <2>1, <2>2, <2>3, TakeKeeps
  <2>5. CountsOK'
    BY <2>1, FaultIs DEF CountsOK
  <2>6. QED
    BY <2>1, <2>2, <2>4, <2>5, ClaimsSame
<1>8. QED
  BY <1>1, <1>2, <1>3, <1>4, <1>6, <1>7

LEMMA TypeOfClaimRow ==
  ASSUME TInv, NEW b \in Bots, ClaimRow(b)
  PROVE  TInv'
<1> USE DEF TInv
<1> DEFINE e == Head1(b)
<1>1. /\ lane[b] # <<>> /\ e \in Replies /\ row[e] \in Row
      /\ UNCHANGED <<received, bot, stream, faults, claim, accepted, doubt>>
  BY KeyIs DEF ClaimRow, UnchangedGuard, RowsOK
<1>2. CASE IsDue(e)
  <2> DEFINE r == [row[e] EXCEPT !.st = "delivering", !.owner = b, !.live = TRUE]
             j == [stage |-> "begin", part |-> 1, gen |-> row[e].gen]
  <2>1. row' = [row EXCEPT ![e] = r] /\ job' = [job EXCEPT ![b] = j] /\ lane' = lane
        /\ tried' = tried \union {e}
    BY <1>2 DEF ClaimRow
  <2>2. OwnedRow(r)
    BY <1>1, TakenIs
  <2>3. j \in Job
    BY <1>1, BoundsAssumption DEF Job, Stages, Row
  <2>4. RowsOK'
    BY <1>1, <2>1, <2>2, RowSet
  <2>5. LanesOK'
    BY <1>1, <2>1, <2>3, JobKeeps
  <2>6. CountsOK'
    BY <1>1, <2>1 DEF CountsOK
  <2>7. QED
    BY <1>1, <2>4, <2>5, <2>6, ClaimsSame
<1>3. CASE ~IsDue(e)
  <2>1. Pop(b) /\ UNCHANGED <<row, tried>>
    BY <1>3 DEF ClaimRow
  <2>2. QED
    BY <1>1, <2>1, PopKeeps, RowsSame, ClaimsSame DEF CountsOK
<1>4. QED
  BY <1>2, <1>3

LEMMA TypeOfAsking ==
  ASSUME TInv, NEW b \in Bots, Begin(b) \/ Wait(b)
  PROVE  TInv'
<1> USE DEF TInv
<1>1. /\ lane[b] # <<>> /\ Key(b) \in Keys
      /\ UNCHANGED <<row, received, bot, stream, accepted, tried, faults>>
  BY BusyIs DEF Begin, Wait
<1>2. RowsOK'
  BY <1>1, RowsSame
<1>3. ASSUME NEW c, Prunes(c), c \in [Keys -> Claim], \A k \in Keys : OwnedClaim(c[k])
      PROVE  ClaimsOK' /\ CountsOK'
  BY <1>1, <1>3, DoubtIs DEF Prunes, ClaimsOK, CountsOK
<1>4. Prunes(Pruned) => ClaimsOK' /\ CountsOK'
  BY <1>3, PrunedIs
<1>5. CASE Begin(b)
  <2>1. CASE Acquire(b)
    <3>1. OwnedClaim([st |-> "pending", owner |-> b, live |-> TRUE])
      BY DEF OwnedClaim, Claim, Bots, NoBot
    <3>2. ClaimsOK' /\ CountsOK'
      BY <1>1, <1>3, <2>1, <3>1, PrunedWithIs DEF Acquire
    <3>3. LanesOK'
      BY <1>1, <2>1, GoToKeeps DEF Acquire, Stages
    <3>4. QED
      BY <1>2, <3>2, <3>3
  <2>2. CASE Prunes(Pruned) /\ NextPart(b)
    BY <1>1, <1>2, <1>4, <2>2, NextPartKeeps
  <2>3. CASE Prunes(Pruned) /\ GoTo(b, "dead")
    BY <1>1, <1>2, <1>4, <2>3, GoToKeeps DEF Stages
  <2>4. CASE Prunes(Pruned) /\ GoTo(b, "wait")
    BY <1>1, <1>2, <1>4, <2>4, GoToKeeps DEF Stages
  <2>5. CASE /\ claim' = Pruned /\ NextPart(b)
             /\ doubt' = [Forgetting EXCEPT ![Key(b)] = Forgetting[Key(b)] \union {"contender"}]
    <3>1. ClaimsOK' /\ CountsOK'
      BY <1>1, <2>5, PrunedIs, DoubtIs DEF ClaimsOK, CountsOK
    <3>2. QED
      BY <1>1, <1>2, <2>5, <3>1, NextPartKeeps
  <2>6. QED
    BY <1>5, <2>1, <2>2, <2>3, <2>4, <2>5 DEF Begin
<1>6. CASE Wait(b)
  <2>1. ClaimsOK' /\ CountsOK'
    BY <1>4, <1>6 DEF Wait
  <2>2. LanesOK'
    BY <1>1, <1>6, NextPartKeeps, GoToKeeps DEF Wait, Stages
  <2>3. QED
    BY <1>2, <2>1, <2>2
<1>7. QED
  BY <1>5, <1>6

\* The answers of the platform.
LEMMA TypeOfSending ==
  ASSUME TInv, NEW b \in Bots,
         \/ SendAccepted(b) \/ SendUnknown(b) \/ SendRefused(b) \/ SendReset(b)
         \/ Commit(b) \/ CommitFails(b) \/ RaiseEarly(b)
  PROVE  TInv'
<1> USE DEF TInv
<1>1. lane[b] # <<>> /\ Key(b) \in Keys /\ RowsOK' /\ UNCHANGED <<received, bot, stream, tried>>
  BY BusyIs, RowsSame, StoresSame
     DEF SendAccepted, SendUnknown, SendRefused, SendReset, Commit, CommitFails, RaiseEarly,
         UnchangedStores
<1>2. Accepting(b) \in [Keys -> Nat]
  BY <1>1 DEF Accepting, CountsOK
<1>3. ASSUME NEW st \in {"none", "sent", "ambiguous"}, NEW stage \in Stages, SettleClaim(b, st, stage)
      PROVE  ClaimsOK' /\ LanesOK'
  <2>1. ClaimsOK'
    BY <1>1, <1>3, SettleKeeps
  <2>2. GoTo(b, stage) \/ GoTo(b, "retry")
    BY <1>3 DEF SettleClaim
  <2>3. QED
    BY <1>1, <2>1, <2>2, GoToKeeps DEF Stages
<1>4. CASE SendAccepted(b)
  <2>1. LanesOK'
    BY <1>1, <1>4, GoToKeeps DEF SendAccepted, Stages
  <2>2. QED
    BY <1>1, <1>2, <1>4, <2>1, ClaimsSame DEF SendAccepted, CountsOK
<1>5. CASE SendUnknown(b)
  <2>1. ClaimsOK' /\ LanesOK'
    BY <1>3, <1>5 DEF SendUnknown, Stages
  <2>2. QED
    BY <1>1, <1>2, <1>5, <2>1, FaultIs DEF SendUnknown, CountsOK
<1>6. CASE SendRefused(b)
  <2>1. ClaimsOK' /\ LanesOK'
    BY <1>3, <1>6 DEF SendRefused, Stages
  <2>2. QED
    BY <1>1, <1>6, <2>1, FaultIs DEF SendRefused, CountsOK
<1>7. CASE SendReset(b)
  <2>1. ClaimsOK' /\ LanesOK'
    BY <1>3, <1>7 DEF SendReset, Stages
  <2>2. doubt' = [doubt EXCEPT ![Key(b)] = doubt[Key(b)] \union {"reset"}]
    BY <1>7 DEF SendReset
  <2>3. QED
    BY <1>1, <1>2, <1>7, <2>1, <2>2, FaultIs, DoubtIs DEF SendReset, CountsOK
<1>8. CASE Commit(b)
  <2>1. CASE Holds(b)
    <3>1. Prunes(PrunedWith(Key(b), Settled("sent"))) /\ NextPart(b)
      BY <1>8, <2>1 DEF Commit
    <3>2. ClaimsOK' /\ CountsOK'
      BY <1>1, <1>8, <3>1, PrunedWithIs, SettledIs, DoubtIs DEF Prunes, ClaimsOK, CountsOK, Commit
    <3>3. QED
      BY <1>1, <3>1, <3>2, NextPartKeeps
  <2>2. CASE ~Holds(b)
    BY <1>1, <1>8, <2>2, ClaimsSame, GoToKeeps DEF Commit, Stages, CountsOK
  <2>3. QED
    BY <2>1, <2>2
<1>9. CASE CommitFails(b)
  <2>1. ClaimsOK' /\ LanesOK'
    BY <1>3, <1>9 DEF CommitFails, Stages
  <2>2. QED
    BY <1>1, <1>9, <2>1, FaultIs DEF CommitFails, CountsOK
<1>10. CASE RaiseEarly(b)
  <2>1. LanesOK'
    BY <1>1, <1>10, GoToKeeps DEF RaiseEarly, Stages
  <2>2. QED
    BY <1>1, <1>10, <2>1, StoresSame, FaultIs DEF RaiseEarly, CountsOK
<1>11. QED
  BY <1>4, <1>5, <1>6, <1>7, <1>8, <1>9, <1>10

\* What a sender makes of its row: another state, of the same generation.
LEMMA RetriedIs ==
  ASSUME RowsOK, NEW e \in Replies
  PROVE  /\ row[e] \in Row
         /\ OwnedRow(Retried(e)) /\ Retried(e).gen = row[e].gen /\ Retried(e).st = "pending"
BY ClosedIs, ZenonT(60) DEF Retried, RowsOK

LEMMA TypeOfWriting ==
  ASSUME TInv, NEW b \in Bots,
         Acknowledge(b) \/ AcknowledgeFails(b) \/ MarkFailed(b) \/ MarkDeadLetter(b)
  PROVE  TInv'
<1> USE DEF TInv
<1> DEFINE e == Head1(b)
<1>1. /\ lane[b] # <<>> /\ e \in Replies /\ row[e] \in Row
      /\ UNCHANGED <<received, bot, stream, tried, claim, accepted, doubt>>
  BY BusyIs DEF Acknowledge, AcknowledgeFails, MarkFailed, MarkDeadLetter, UnchangedGuard, RowsOK
<1>2. ASSUME NEW r, WriteRow(b, r), OwnedRow(r)
      PROVE  RowsOK' /\ LanesOK'
  <2>1. RowsOK'
    BY <1>1, <1>2, WriteRowSets
  <2>2. Pop(b)
    BY <1>2 DEF WriteRow
  <2>3. QED
    BY <1>1, <2>1, <2>2, PopKeeps
<1>3. OwnedRow(Closed(row[e], "sent")) /\ OwnedRow(Closed(row[e], "dead")) /\ OwnedRow(Retried(e))
  BY <1>1, ClosedIs, RetriedIs
<1>4. RowsOK' /\ LanesOK'
  BY <1>2, <1>3 DEF Acknowledge, AcknowledgeFails, MarkFailed, MarkDeadLetter
<1>5. faults' \in 0..MaxFaults
  BY FaultIs DEF Acknowledge, AcknowledgeFails, MarkFailed, MarkDeadLetter, CountsOK
<1>6. QED
  BY <1>1, <1>4, <1>5, ClaimsSame DEF CountsOK

LEMMA TypeOfLeaving ==
  ASSUME TInv, NEW b \in Bots, Close(b) \/ Stop(b) \/ Crash(b)
  PROVE  TInv'
<1> USE DEF TInv
<1>1. CASE Close(b)
  <2>1. UNCHANGED <<received, tried, claim, accepted, doubt>> /\ Fault
        /\ stream' = [stream EXCEPT ![b] = Offline]
    BY <1>1 DEF Close, UnchangedGuard
  <2>2. CountsOK' /\ ClaimsOK'
    BY <2>1, FaultIs, ClaimsSame DEF CountsOK
  <2>3. CASE Protected(b)
    <3>1. bot' = [bot EXCEPT ![b] = "closing"] /\ UNCHANGED <<row, lane, job>>
      BY <1>1, <2>3 DEF Close
    <3>2. QED
      BY <2>1, <2>2, <3>1, LeaveKeeps, RowsSame
  <2>4. CASE ~Protected(b)
    <3> DEFINE e == Head1(b)
               r == [Closed(row[e], "pending") EXCEPT !.retry = row[e].retry]
    <3>1. /\ bot' = [bot EXCEPT ![b] = "down"]
          /\ lane' = [lane EXCEPT ![b] = <<>>] /\ job' = [job EXCEPT ![b] = Idle]
          /\ row' = IF job[b].stage # "idle" /\ Owns(b, e) THEN [row EXCEPT ![e] = r] ELSE row
      BY <1>1, <2>4 DEF Close
    <3>2. LanesOK'
      BY <2>1, <3>1, LeaveKeeps
    <3>3. CASE job[b].stage # "idle" /\ Owns(b, e)
      <4>1. e \in Replies /\ row[e] \in Row
        BY <3>3, BusyIs DEF RowsOK
      <4>2. row[e].retry \in {"now", "later", "past"}
        BY <4>1 DEF Row
      <4>3. OwnedRow(r)
        BY <4>1, <4>2, ClosedIs, ZenonT(60)
      <4>4. QED
        BY <2>2, <3>1, <3>2, <3>3, <4>1, <4>3, RowSet
    <3>4. CASE ~(job[b].stage # "idle" /\ Owns(b, e))
      <4>1. row' = row
        BY <3>1, <3>4
      <4>2. QED
        BY <2>2, <3>2, <4>1, RowsSame
    <3>5. QED
      BY <3>3, <3>4
  <2>5. QED
    BY <2>3, <2>4
<1>2. CASE Stop(b)
  <2>1. LanesOK'
    BY <1>2, LeaveKeeps DEF Stop
  <2>2. QED
    BY <1>2, <2>1, StoresSame DEF Stop, CountsOK
<1>3. CASE Crash(b)
  <2>1. LanesOK'
    BY <1>3, LeaveKeeps DEF Crash
  <2>2. QED
    BY <1>3, <2>1, StoresSame, FaultIs DEF Crash, CountsOK
<1>4. QED
  BY <1>1, <1>2, <1>3

\* Time, leases and the operator.
LEMMA TypeOfTime ==
  ASSUME TInv,
         \/ \E e \in Replies : RowLeaseLapses(e) \/ BackoffEnds(e) \/ ForceReplay(e) \/ PruneSent(e)
         \/ \E k \in Keys : ClaimLeaseLapses(k)
  PROVE  TInv'
<1> USE DEF TInv
<1>1. ASSUME NEW e \in Replies, RowLeaseLapses(e) \/ BackoffEnds(e) \/ ForceReplay(e) \/ PruneSent(e)
      PROVE  TInv'
  <2>1. row[e] \in Row /\ OwnedRow(row[e])
    BY DEF RowsOK
  <2>2. /\ UNCHANGED <<received, tried, claim, accepted, doubt, bot, stream, lane, job>>
        /\ Fault \/ UNCHANGED faults
    BY <1>1 DEF RowLeaseLapses, BackoffEnds, ForceReplay, PruneSent, UnchangedGuard, UnchangedProcess
  <2>3. LanesOK' /\ ClaimsOK' /\ CountsOK'
    BY <2>2, LanesSame, ClaimsSame, FaultIs DEF CountsOK
  <2>4. CASE RowLeaseLapses(e)
    <3>1. OwnedRow([row[e] EXCEPT !.live = FALSE])
      BY <2>1 DEF OwnedRow, Row
    <3>2. row' = [row EXCEPT ![e] = [row[e] EXCEPT !.live = FALSE]]
      BY <2>4 DEF RowLeaseLapses, RowsOK
    <3>3. QED
      BY <2>3, <3>1, <3>2, RowSet
  <2>5. CASE BackoffEnds(e)
    <3>1. OwnedRow([row[e] EXCEPT !.retry = "past"])
      BY <2>1 DEF OwnedRow, Row
    <3>2. row' = [row EXCEPT ![e] = [row[e] EXCEPT !.retry = "past"]]
      BY <2>5 DEF BackoffEnds, RowsOK
    <3>3. QED
      BY <2>3, <3>1, <3>2, RowSet
  <2>6. CASE ForceReplay(e)
    <3>1. row[e].gen + 1 \in 0..MaxReplays
      BY <2>1, <2>6, BoundsAssumption DEF ForceReplay, Row
    <3>2. OwnedRow([NewRow EXCEPT !.gen = row[e].gen + 1])
      BY <3>1, NewRowIs DEF OwnedRow, Row
    <3>3. QED
      BY <2>3, <2>6, <3>2, RowSet DEF ForceReplay
  <2>7. CASE PruneSent(e)
    <3>1. OwnedRow([NewRow EXCEPT !.st = "pruned"])
      BY NewRowIs DEF OwnedRow, Row
    <3>2. QED
      BY <2>3, <2>7, <3>1, RowSet DEF PruneSent
  <2>8. QED
    BY <1>1, <2>4, <2>5, <2>6, <2>7
<1>2. ASSUME NEW k \in Keys, ClaimLeaseLapses(k)
      PROVE  TInv'
  <2>1. UNCHANGED <<row, received, accepted, doubt, tried, bot, stream, lane, job>>
        /\ (Fault \/ UNCHANGED faults)
    BY <1>2 DEF ClaimLeaseLapses, UnchangedProcess
  <2>2. OwnedClaim(claim[k])
    BY DEF ClaimsOK
  <2>3. OwnedClaim([claim[k] EXCEPT !.live = FALSE])
    BY <2>2 DEF OwnedClaim, Claim
  <2>4. claim' = [claim EXCEPT ![k] = [claim[k] EXCEPT !.live = FALSE]]
    BY <1>2 DEF ClaimLeaseLapses, ClaimsOK
  <2>5. ClaimsOK'
    BY <2>3, <2>4 DEF ClaimsOK, OwnedClaim
  <2>6. QED
    BY <2>1, <2>5, LanesSame, RowsSame, FaultIs DEF CountsOK
<1>3. QED
  BY <1>1, <1>2

LEMMA TypeStep == ASSUME TInv, [Next]_vars PROVE TInv'
<1>1. CASE UNCHANGED vars
  BY <1>1, RowsSame, ClaimsSame, LanesSame DEF vars, TInv, CountsOK
<1>2. ASSUME NEW b \in Bots, Start(b) \/ Scan(b) \/ Connect(b) \/ Receive(b) \/ Work(b) \/ Trouble(b)
      PROVE  TInv'
  BY <1>2, TypeOfStream, TypeOfClaimRow, TypeOfAsking, TypeOfSending, TypeOfWriting, TypeOfLeaving
     DEF Work, Trouble
<1>3. QED
  BY <1>1, <1>2, TypeOfTime DEF Next

LEMMA TypeInit == ASSUME Init PROVE TInv
<1>1. OwnedRow([NewRow EXCEPT !.st = "none"])
  BY NewRowIs DEF OwnedRow, Row
<1>2. RowsOK
  BY <1>1 DEF Init, RowsOK, OwnedRow
<1>3. ClaimsOK
  BY NoClaimIs DEF Init, ClaimsOK, OwnedClaim
<1>4. LanesOK
  <2>1. Idle \in Job /\ Offline \in 0..Offline /\ Idle.stage = "idle"
    BY BoundsAssumption DEF Idle, Job, Stages, Offline
  <2>2. <<>> \in Seq(Replies) /\ IsInjective(<<>>)
    BY DEF IsInjective
  <2>3. QED
    BY <2>1, <2>2 DEF Init, LanesOK
<1>5. CountsOK
  BY BoundsAssumption DEF Init, CountsOK
<1>6. QED
  BY <1>2, <1>3, <1>4, <1>5 DEF TInv

(* The tables, lanes and workers of the delivery keep their types: an owner   *)
(* is recorded exactly while a row or a claim is held, no lane queues a reply *)
(* twice, and a worker that is busy has a reply at the head of its lane.      *)
THEOREM TypeCorrect == Spec => []TypeOK
<1>1. TInv /\ [Next]_vars => TInv'
  BY TypeStep
<1>2. Spec => []TInv
  BY <1>1, TypeInit, PTL DEF Spec
<1>3. QED
  BY <1>2, TInvType, PTL

-----------------------------------------------------------------------------
(* What a step can make of a row.                                             *)

\* Process b is about to acknowledge its reply e.
Acknowledging(b, e) == job[b].stage = "ack" /\ Head1(b) = e /\ Owns(b, e)

\* Process b takes the reply e at the head of its lane.
Takes(b, e) ==
    /\ job[b].stage = "idle" /\ job'[b].stage = "begin"
    /\ Head1(b) = e /\ Head1(b)' = e
    /\ job'[b].part = 1 /\ job'[b].gen = row[e].gen

\* A row does not vanish, becomes sent only through its owner, and gets an
\* owner only when it is taken; its generation changes with neither.
RowMove(e) ==
    /\ row[e].st # "none" => row'[e].st # "none"
    /\ row'[e].st = "sent" =>
         /\ row'[e].gen = row[e].gen
         /\ row[e].st = "sent" \/ \E b \in Bots : Acknowledging(b, e)
    /\ \A b \in Bots : row'[e].st = "delivering" /\ row'[e].owner = b =>
         /\ row'[e].gen = row[e].gen
         /\ (row[e].st = "delivering" /\ row[e].owner = b) \/ Takes(b, e)

LEMMA RowRests == ASSUME NEW e \in Replies, row'[e] = row[e] PROVE RowMove(e)
BY DEF RowMove

LEMMA RowsRest == ASSUME UNCHANGED row PROVE \A e \in Replies : RowMove(e)
BY DEF RowMove

\* One row changes.
LEMMA RowAlone ==
  ASSUME RowsOK, NEW e \in Replies, NEW r, row' = [row EXCEPT ![e] = r],
         \/ /\ r.st \notin {"none", "sent", "delivering"}
         \/ r.st = row[e].st /\ r.owner = row[e].owner /\ r.gen = row[e].gen
  PROVE  \A f \in Replies : RowMove(f)
<1>1. TAKE f \in Replies
<1>2. CASE f # e
  BY <1>2, RowRests DEF RowsOK
<1>3. CASE f = e
  <2>1. row'[e] = r
    BY DEF RowsOK
  <2>2. QED
    BY <1>3, <2>1 DEF RowMove
<1>4. QED
  BY <1>2, <1>3

LEMMA RowWritten ==
  ASSUME RowsOK, LanesOK, NEW b \in Bots, lane[b] # <<>>, NEW r, WriteRow(b, r),
         r.st \in {"pending", "dead"}
  PROVE  \A f \in Replies : RowMove(f)
<1>1. Head1(b) \in Replies
  BY KeyIs
<1>2. CASE Owns(b, Head1(b))
  BY <1>1, <1>2, RowAlone DEF WriteRow
<1>3. CASE ~Owns(b, Head1(b))
  BY <1>3, RowsRest DEF WriteRow
<1>4. QED
  BY <1>2, <1>3

LEMMA RowQueued ==
  ASSUME RowsOK, NEW e \in Replies, row' = Enqueue(e)
  PROVE  row'[e].st # "none" /\ \A f \in Replies : RowMove(f)
<1>1. CASE row[e].st \in {"none", "pruned"}
  <2>1. row' = [row EXCEPT ![e] = NewRow] /\ NewRow.st = "pending"
    BY <1>1, NewRowIs DEF Enqueue
  <2>2. row'[e].st = "pending"
    BY <2>1 DEF RowsOK
  <2>3. QED
    BY <2>1, <2>2, RowAlone
<1>2. CASE row[e].st \notin {"none", "pruned"}
  <2>1. row' = row
    BY <1>2 DEF Enqueue
  <2>2. QED
    BY <1>2, <2>1, RowsRest
<1>3. QED
  BY <1>1, <1>2

LEMMA RowClaimed ==
  ASSUME TInv, NEW b \in Bots, ClaimRow(b)
  PROVE  \A f \in Replies : RowMove(f)
<1> DEFINE e == Head1(b)
<1>1. e \in Replies /\ row[e] \in Row /\ job[b].stage = "idle"
  BY KeyIs DEF ClaimRow, TInv, RowsOK
<1>2. CASE IsDue(e)
  <2> DEFINE r == [row[e] EXCEPT !.st = "delivering", !.owner = b, !.live = TRUE]
             j == [stage |-> "begin", part |-> 1, gen |-> row[e].gen]
  <2>1. row' = [row EXCEPT ![e] = r] /\ job' = [job EXCEPT ![b] = j] /\ lane' = lane
    BY <1>2 DEF ClaimRow
  <2>2. r.st = "delivering" /\ r.owner = b /\ r.gen = row[e].gen
    BY <1>1, TakenIs
  <2>3. Takes(b, e)
    <3>1. job'[b] = j
      BY <2>1 DEF TInv, LanesOK
    <3>2. Head1(b)' = e
      BY <2>1 DEF Head1
    <3>3. QED
      BY <1>1, <3>1, <3>2 DEF Takes
  <2>4. row'[e] = r
    BY <1>1, <2>1 DEF TInv, RowsOK
  <2>5. RowMove(e)
    BY <2>2, <2>3, <2>4 DEF RowMove
  <2>6. ASSUME NEW f \in Replies, f # e PROVE RowMove(f)
    <3>1. row'[f] = row[f]
      BY <1>1, <2>1, <2>6 DEF TInv, RowsOK
    <3>2. QED
      BY <3>1, RowRests
  <2>7. QED
    BY <2>5, <2>6
<1>3. CASE ~IsDue(e)
  BY <1>3, RowsRest DEF ClaimRow
<1>4. QED
  BY <1>2, <1>3

LEMMA RowAcknowledged ==
  ASSUME TInv, NEW b \in Bots, Acknowledge(b)
  PROVE  \A f \in Replies : RowMove(f)
<1> DEFINE e == Head1(b)
           r == Closed(row[e], "sent")
<1>1. e \in Replies /\ row[e] \in Row /\ job[b].stage = "ack"
  BY BusyIs DEF Acknowledge, TInv, RowsOK
<1>2. r.st = "sent" /\ r.gen = row[e].gen
  BY <1>1, ClosedIs
<1>3. CASE Owns(b, e)
  <2>1. row' = [row EXCEPT ![e] = r]
    BY <1>3 DEF Acknowledge, WriteRow
  <2>2. row'[e] = r
    BY <1>1, <2>1 DEF TInv, RowsOK
  <2>3. RowMove(e)
    BY <1>1, <1>2, <1>3, <2>2 DEF RowMove, Acknowledging
  <2>4. ASSUME NEW f \in Replies, f # e PROVE RowMove(f)
    <3>1. row'[f] = row[f]
      BY <1>1, <2>1, <2>4 DEF TInv, RowsOK
    <3>2. QED
      BY <3>1, RowRests
  <2>5. QED
    BY <2>3, <2>4
<1>4. CASE ~Owns(b, e)
  BY <1>4, RowsRest DEF Acknowledge, WriteRow
<1>5. QED
  BY <1>3, <1>4

LEMMA RowReleased ==
  ASSUME TInv, NEW b \in Bots, Close(b)
  PROVE  \A f \in Replies : RowMove(f)
<1> DEFINE e == Head1(b)
           r == [Closed(row[e], "pending") EXCEPT !.retry = row[e].retry]
<1>1. CASE ~Protected(b) /\ job[b].stage # "idle" /\ Owns(b, e)
  <2>1. row' = [row EXCEPT ![e] = r]
    BY <1>1 DEF Close
  <2>2. e \in Replies /\ row[e] \in Row
    BY <1>1, BusyIs DEF TInv, RowsOK
  <2>3. row[e].retry \in {"now", "later", "past"}
    BY <2>2 DEF Row
  <2>4. r.st = "pending"
    BY <2>2, <2>3, ClosedIs, ZenonT(60)
  <2>5. QED
    BY <2>1, <2>2, <2>4, RowAlone DEF TInv
<1>2. CASE ~(~Protected(b) /\ job[b].stage # "idle" /\ Owns(b, e))
  BY <1>2, RowsRest DEF Close
<1>3. QED
  BY <1>1, <1>2

LEMMA RowMoves ==
  ASSUME TInv, Next
  PROVE  \A f \in Replies : RowMove(f)
<1>1. ASSUME NEW b \in Bots, Start(b) \/ Scan(b) \/ Connect(b) \/ Disconnect(b) \/ Begin(b) \/ Wait(b)
             \/ SendAccepted(b) \/ SendUnknown(b) \/ SendRefused(b) \/ SendReset(b)
             \/ Commit(b) \/ CommitFails(b) \/ RaiseEarly(b) \/ Stop(b) \/ Crash(b)
      PROVE  \A f \in Replies : RowMove(f)
  BY <1>1, RowsRest DEF Start, Scan, Connect, Disconnect, Begin, Wait, SendAccepted, SendUnknown,
     SendRefused, SendReset, Commit, CommitFails, RaiseEarly, Stop, Crash, UnchangedStores
<1>2. ASSUME NEW b \in Bots, Receive(b) \/ ReceiveLosesCursor(b)
      PROVE  \A f \in Replies : RowMove(f)
  <2>1. PICK e : e = stream[b] + 1 /\ e <= NReplies /\ row' = Enqueue(e)
    BY <1>2 DEF Receive, ReceiveLosesCursor, Take
  <2>2. e \in Replies
    BY <2>1, BoundsAssumption DEF TInv, LanesOK, Offline, Replies
  <2>3. QED
    BY <2>1, <2>2, RowQueued DEF TInv
<1>3. ASSUME NEW b \in Bots, AcknowledgeFails(b) \/ MarkFailed(b) \/ MarkDeadLetter(b)
      PROVE  \A f \in Replies : RowMove(f)
  <2> DEFINE e == Head1(b)
  <2>1. lane[b] # <<>> /\ e \in Replies /\ row[e] \in Row
    BY <1>3, BusyIs DEF AcknowledgeFails, MarkFailed, MarkDeadLetter, TInv, RowsOK
  <2>2. Closed(row[e], "dead").st = "dead" /\ Retried(e).st = "pending"
    BY <2>1, ClosedIs, RetriedIs DEF TInv
  <2>3. QED
    BY <1>3, <2>1, <2>2, RowWritten DEF AcknowledgeFails, MarkFailed, MarkDeadLetter, TInv
<1>4. ASSUME NEW e \in Replies, RowLeaseLapses(e) \/ BackoffEnds(e)
      PROVE  \A f \in Replies : RowMove(f)
  <2>1. row[e] \in Row
    BY DEF TInv, RowsOK
  <2>2. PICK r \in {[row[e] EXCEPT !.live = FALSE], [row[e] EXCEPT !.retry = "past"]} :
            row' = [row EXCEPT ![e] = r]
    BY <1>4 DEF RowLeaseLapses, BackoffEnds, TInv, RowsOK
  <2>3. r.st = row[e].st /\ r.owner = row[e].owner /\ r.gen = row[e].gen
    BY <2>1, <2>2 DEF Row
  <2>4. QED
    BY <2>2, <2>3, RowAlone DEF TInv
<1>5. ASSUME NEW e \in Replies, ForceReplay(e) \/ PruneSent(e)
      PROVE  \A f \in Replies : RowMove(f)
  <2>1. PICK r \in {[NewRow EXCEPT !.gen = row[e].gen + 1], [NewRow EXCEPT !.st = "pruned"]} :
            row' = [row EXCEPT ![e] = r]
    BY <1>5 DEF ForceReplay, PruneSent
  <2>2. r.st \in {"pending", "pruned"}
    BY <2>1 DEF NewRow
  <2>3. QED
    BY <2>1, <2>2, RowAlone DEF TInv
<1>6. ASSUME NEW k \in Keys, ClaimLeaseLapses(k)
      PROVE  \A f \in Replies : RowMove(f)
  BY <1>6, RowsRest DEF ClaimLeaseLapses
<1>7. QED
  BY <1>1, <1>2, <1>3, <1>4, <1>5, <1>6, RowClaimed, RowAcknowledged, RowReleased
     DEF Next, Work, Trouble

-----------------------------------------------------------------------------
(* The receive cursor.                                                        *)

\* No process has been told of a reply behind the cursor.
CursorInv ==
    /\ CursorBehindOutbox
    /\ \A b \in Bots : stream[b] # Offline => stream[b] <= received

LEMMA CursorStep == ASSUME TInv, CursorInv, [Next]_vars PROVE CursorInv'
<1>1. CASE UNCHANGED vars
  BY <1>1 DEF vars, CursorInv, CursorBehindOutbox
<1>2. CASE Next
  <2>1. \A e \in Replies : row[e].st # "none" => row'[e].st # "none"
    BY <1>2, RowMoves DEF RowMove
  <2>2. received \in 0..NReplies /\ stream \in [Bots -> 0..Offline] /\ NReplies \in Nat
    BY BoundsAssumption DEF TInv, CountsOK, LanesOK
  <2>3. ASSUME received' = received,
               \A b \in Bots : stream'[b] \in {stream[b], Offline, received}
        PROVE  CursorInv'
    BY <2>1, <2>2, <2>3 DEF CursorInv, CursorBehindOutbox
  <2>4. ASSUME NEW b \in Bots, Receive(b)
        PROVE  CursorInv'
    <3> DEFINE e == stream[b] + 1
    <3>1. /\ stream[b] < NReplies /\ row' = Enqueue(e) /\ received' = AdvanceCursor(e)
          /\ stream' = [stream EXCEPT ![b] = e]
      BY <2>4 DEF Receive, Take
    <3>2. e \in Replies /\ stream[b] <= received /\ stream[b] \in Nat
      BY <2>2, <3>1 DEF Replies, CursorInv, Offline
    <3>3. row'[e].st # "none"
      BY <3>1, <3>2, RowQueued DEF TInv
    <3>4. \A f \in Replies : f <= received' => f <= received \/ f = e
      BY <2>2, <3>1, <3>2 DEF AdvanceCursor, Replies
    <3>5. CursorBehindOutbox'
      BY <2>1, <3>3, <3>4 DEF CursorInv, CursorBehindOutbox
    <3>6. \A c \in Bots : stream'[c] # Offline => stream'[c] <= received'
      BY <2>2, <3>1, <3>2 DEF AdvanceCursor, CursorInv
    <3>7. QED
      BY <3>5, <3>6 DEF CursorInv, Offline
  <2>5. ASSUME NEW b \in Bots,
               Connect(b) \/ Disconnect(b) \/ ReceiveLosesCursor(b) \/ Close(b) \/ Crash(b)
        PROVE  CursorInv'
    BY <2>2, <2>3, <2>5 DEF Connect, Disconnect, ReceiveLosesCursor, Close, Crash, UnchangedStores
  <2>6. ASSUME NEW b \in Bots, Start(b) \/ Scan(b) \/ Work(b) \/ RaiseEarly(b) \/ SendUnknown(b)
               \/ SendRefused(b) \/ SendReset(b) \/ CommitFails(b) \/ AcknowledgeFails(b)
        PROVE  UNCHANGED <<received, stream>>
    BY <2>6 DEF Start, Scan, Work, RaiseEarly, SendUnknown, SendRefused, SendReset, CommitFails,
       AcknowledgeFails, ClaimRow, Begin, Wait, SendAccepted, Commit, Acknowledge, MarkFailed,
       MarkDeadLetter, Stop, UnchangedStores
  <2>7. ASSUME \/ \E e \in Replies : RowLeaseLapses(e) \/ BackoffEnds(e) \/ ForceReplay(e) \/ PruneSent(e)
               \/ \E k \in Keys : ClaimLeaseLapses(k)
        PROVE  UNCHANGED <<received, stream>>
    BY <2>7 DEF RowLeaseLapses, BackoffEnds, ForceReplay, PruneSent, ClaimLeaseLapses, UnchangedProcess
  <2>8. QED
    BY <1>2, <2>3, <2>4, <2>5, <2>6, <2>7 DEF Next, Trouble
<1>3. QED
  BY <1>1, <1>2

(* Every reply up to the receive cursor has a row in the outbox, however      *)
(* processes connect, disconnect, crash and fail to write the cursor.         *)
THEOREM NothingSkipped == Spec => []CursorBehindOutbox
<1>1. Init => CursorInv
  BY BoundsAssumption DEF Init, CursorInv, CursorBehindOutbox, Replies
<1>2. TInv /\ CursorInv /\ [Next]_vars => TInv' /\ CursorInv'
  BY TypeStep, CursorStep
<1>3. CursorInv => CursorBehindOutbox
  BY DEF CursorInv
<1>4. QED
  BY <1>1, <1>2, <1>3, TypeInit, PTL DEF Spec

-----------------------------------------------------------------------------
(* What a step can make of a worker's job.                                    *)
Stays(b) ==
    /\ job'[b] = job[b]
    /\ job[b].stage # "idle" => Head1(b)' = Head1(b)

Rests(b) == job'[b].stage = "idle"

SameReply(b) == Head1(b)' = Head1(b) /\ job'[b].gen = job[b].gen

\* To another stage of the same part.
Turns(b, stage) ==
    /\ job[b].stage # "idle" /\ SameReply(b)
    /\ job'[b].stage = stage /\ job'[b].part = job[b].part

Advances(b) ==
    /\ job[b].stage # "idle" /\ SameReply(b)
    /\ \/ job'[b].stage = "begin" /\ job'[b].part = job[b].part + 1
       \/ job'[b].stage = "ack" /\ job[b].part = Parts

OthersStay(b) == \A c \in Bots : c # b => Stays(c)

LEMMA StayAll == ASSUME UNCHANGED <<lane, job>> PROVE \A c \in Bots : Stays(c)
BY DEF Stays, Head1

LEMMA PopMoves ==
  ASSUME LanesOK, NEW b \in Bots, Pop(b)
  PROVE  Rests(b) /\ OthersStay(b)
BY DEF LanesOK, Pop, Rests, OthersStay, Stays, Head1, Idle

LEMMA GoToMoves ==
  ASSUME LanesOK, NEW b \in Bots, job[b].stage # "idle", NEW stage, GoTo(b, stage)
  PROVE  Turns(b, stage) /\ OthersStay(b)
<1>1. job[b] \in Job
  BY DEF LanesOK
<1>2. job' = [job EXCEPT ![b] = [job[b] EXCEPT !.stage = stage]]
  BY DEF GoTo, LanesOK
<1>3. job'[b] = [job[b] EXCEPT !.stage = stage]
  BY <1>2 DEF LanesOK
<1>4. Turns(b, stage)
  BY <1>1, <1>3 DEF GoTo, Turns, SameReply, Head1, Job
<1>5. OthersStay(b)
  BY <1>2 DEF GoTo, OthersStay, Stays, Head1, LanesOK
<1>6. QED
  BY <1>4, <1>5

LEMMA NextPartMoves ==
  ASSUME LanesOK, NEW b \in Bots, job[b].stage # "idle", NextPart(b)
  PROVE  Advances(b) /\ OthersStay(b)
<1>1. job[b] \in Job
  BY DEF LanesOK
<1>2. job'[b] = IF job[b].part < Parts
                THEN [job[b] EXCEPT !.stage = "begin", !.part = job[b].part + 1]
                ELSE [job[b] EXCEPT !.stage = "ack"]
  BY DEF NextPart, LanesOK
<1>3. SameReply(b)
  BY <1>1, <1>2 DEF NextPart, SameReply, Head1, Job
<1>4. Advances(b)
  <2>1. CASE job[b].part < Parts
    BY <1>1, <1>2, <1>3, <2>1 DEF Advances, Job
  <2>2. CASE ~(job[b].part < Parts)
    <3>1. job[b].part = Parts
      BY <1>1, <2>2, BoundsAssumption DEF Job
    <3>2. job'[b].stage = "ack"
      BY <1>1, <1>2, <2>2 DEF Job
    <3>3. QED
      BY <1>3, <3>1, <3>2 DEF Advances
  <2>3. QED
    BY <2>1, <2>2
<1>5. OthersStay(b)
  BY DEF NextPart, OthersStay, Stays, Head1, LanesOK
<1>6. QED
  BY <1>4, <1>5

\* Of the steps in which no sender asks the idempotency store.
LEMMA QueueMoves ==
  ASSUME TInv, NEW b \in Bots,
         Start(b) \/ Scan(b) \/ Connect(b) \/ Disconnect(b) \/ Receive(b) \/ ReceiveLosesCursor(b)
  PROVE  \A c \in Bots : Stays(c)
<1> USE DEF TInv
<1>0. lane[b] \in Seq(Replies) /\ IsInjective(lane[b]) /\ lane \in [Bots -> Seq(Replies)]
  BY DEF LanesOK
<1>1. job' = job
  BY DEF Start, Scan, Connect, Disconnect, Receive, ReceiveLosesCursor
<1>2. ASSUME NEW s, lane' = [lane EXCEPT ![b] = s], lane[b] # <<>> => s[1] = lane[b][1]
      PROVE  \A c \in Bots : Stays(c)
  BY <1>0, <1>1, <1>2, BusyIs DEF Stays, Head1
<1>3. CASE Start(b)
  BY <1>2, <1>3 DEF Start, LanesOK, Running
<1>4. CASE Scan(b)
  <2>1. PICK s \in Scanned(b) : lane' = [lane EXCEPT ![b] = lane[b] \o s]
    BY <1>4 DEF Scan
  <2>2. lane[b] # <<>> => (lane[b] \o s)[1] = lane[b][1]
    BY <1>0, ScannedIs, JoinOf
  <2>3. QED
    BY <1>2, <2>1, <2>2
<1>5. CASE Connect(b) \/ Disconnect(b)
  BY <1>5, StayAll DEF Connect, Disconnect
<1>6. CASE Receive(b) \/ ReceiveLosesCursor(b)
  <2>1. PICK e : e = stream[b] + 1 /\ e <= NReplies /\ Take(b, e)
    BY <1>6 DEF Receive, ReceiveLosesCursor, Take
  <2>2. e \in Replies
    BY <2>1, BoundsAssumption DEF LanesOK, Offline, Replies
  <2>3. CASE Submits(b, e)
    <3>1. lane[b] # <<>> => Append(lane[b], e)[1] = lane[b][1]
      BY <1>0, <2>2, <2>3, AppendOf DEF Submits
    <3>2. lane' = [lane EXCEPT ![b] = Append(lane[b], e)]
      BY <2>1, <2>3 DEF Take
    <3>3. QED
      BY <1>2, <3>1, <3>2
  <2>4. CASE ~Submits(b, e)
    BY <1>1, <2>1, <2>4, StayAll DEF Take
  <2>5. QED
    BY <2>3, <2>4
<1>7. QED
  BY <1>3, <1>4, <1>5, <1>6

\* A worker that rests, takes a reply or gives up a part is not in a call.
LEMMA OutsideMoves ==
  ASSUME TInv, NEW b \in Bots,
         \/ ClaimRow(b) \/ RaiseEarly(b) \/ Acknowledge(b) \/ AcknowledgeFails(b)
         \/ MarkFailed(b) \/ MarkDeadLetter(b) \/ Close(b) \/ Stop(b) \/ Crash(b)
  PROVE  /\ OthersStay(b)
         /\ \/ Stays(b) \/ Rests(b) \/ Takes(b, Head1(b))
            \/ Turns(b, "retry") \/ Turns(b, "dead")
<1> USE DEF TInv
<1>1. CASE ClaimRow(b)
  <2> DEFINE j == [stage |-> "begin", part |-> 1, gen |-> row[Head1(b)].gen]
  <2>1. CASE IsDue(Head1(b))
    <3>1. job' = [job EXCEPT ![b] = j] /\ lane' = lane /\ job[b].stage = "idle"
      BY <1>1, <2>1 DEF ClaimRow
    <3>2. job'[b] = j /\ Head1(b)' = Head1(b)
      BY <3>1 DEF LanesOK, Head1
    <3>3. OthersStay(b)
      BY <3>1 DEF OthersStay, Stays, Head1, LanesOK
    <3>4. QED
      BY <3>1, <3>2, <3>3 DEF Takes
  <2>2. CASE ~IsDue(Head1(b))
    BY <1>1, <2>2, PopMoves DEF ClaimRow
  <2>3. QED
    BY <2>1, <2>2
<1>2. CASE RaiseEarly(b)
  BY <1>2, GoToMoves DEF RaiseEarly
<1>3. CASE Acknowledge(b) \/ AcknowledgeFails(b) \/ MarkFailed(b) \/ MarkDeadLetter(b)
  <2>1. Pop(b)
    BY <1>3 DEF Acknowledge, AcknowledgeFails, MarkFailed, MarkDeadLetter, WriteRow
  <2>2. QED
    BY <2>1, PopMoves
<1>4. CASE Close(b) \/ Stop(b) \/ Crash(b)
  <2>1. \/ UNCHANGED <<lane, job>>
        \/ lane' = [lane EXCEPT ![b] = <<>>] /\ job' = [job EXCEPT ![b] = Idle]
    BY <1>4 DEF Close, Stop, Crash
  <2>2. ASSUME lane' = [lane EXCEPT ![b] = <<>>], job' = [job EXCEPT ![b] = Idle]
        PROVE  Rests(b) /\ OthersStay(b)
    BY <2>2 DEF Rests, OthersStay, Stays, Head1, LanesOK, Idle
  <2>3. UNCHANGED <<lane, job>> => Stays(b) /\ OthersStay(b)
    BY StayAll DEF OthersStay
  <2>4. QED
    BY <2>1, <2>2, <2>3
<1>5. QED
  BY <1>1, <1>2, <1>3, <1>4

-----------------------------------------------------------------------------
(* The platform accepts a message once.                                       *)

\* Process b is between claiming the call k and recording its outcome.
InFlight(b, k) == job[b].stage \in {"send", "commit"} /\ Key(b) = k

\* Nothing happened to the call that the store cannot tell from a refusal.
Certain(k) == "reset" \notin doubt[k] /\ ("lapse" \in doubt[k] => IsPlanned(k))

\* Whoever is in flight holds the claim, or its outcome is already unknown and
\* nobody else can take it; a free claim means that nothing was accepted.
Once(k) ==
    /\ accepted[k] <= 1
    /\ claim[k].st = "none" => accepted[k] = 0
    /\ \A b \in Bots : InFlight(b, k) =>
         /\ (claim[k].st = "pending" /\ claim[k].owner = b) \/ claim[k].st = "ambiguous"
         /\ job[b].stage = "send" => accepted[k] = 0
         /\ \A c \in Bots : InFlight(c, k) => c = b

OnceInv == \A k \in Keys : Certain(k) => Once(k)

LEMMA StaysOut ==
  ASSUME NEW c \in Bots, NEW k, Stays(c), InFlight(c, k)'
  PROVE  InFlight(c, k) /\ job'[c].stage = job[c].stage
BY DEF Stays, InFlight, Key

LEMMA MovesOut ==
  ASSUME NEW c \in Bots, NEW k, InFlight(c, k)'
  PROVE  ~Rests(c) /\ ~Advances(c) /\ ~Turns(c, "retry") /\ ~Turns(c, "dead") /\ ~Turns(c, "wait")
         /\ ~Turns(c, "again") /\ \A e : ~Takes(c, e)
BY DEF InFlight, Rests, Advances, Turns, Takes

\* What the store may make of a claim while nobody settles or takes it.
Ages(k) ==
    \/ claim'[k].st = claim[k].st /\ claim'[k].owner = claim[k].owner
    \/ claim[k].st = "pending" /\ claim'[k].st = "ambiguous"
    \/ ~IsPlanned(k) /\ "lapse" \in doubt'[k]

LEMMA OnceKept ==
  ASSUME OnceInv, NEW k \in Keys, doubt[k] \subseteq doubt'[k], Ages(k), accepted'[k] = accepted[k],
         \A c \in Bots : InFlight(c, k)' => InFlight(c, k) /\ job'[c].stage = job[c].stage
  PROVE  Certain(k)' => Once(k)'
<1> SUFFICES ASSUME Certain(k)' PROVE Once(k)'
  OBVIOUS
<1>1. Certain(k)
  BY DEF Certain, IsPlanned
<1>2. Once(k)
  BY <1>1 DEF OnceInv
<1>3. \/ claim'[k].st = claim[k].st /\ claim'[k].owner = claim[k].owner
      \/ claim[k].st = "pending" /\ claim'[k].st = "ambiguous"
  BY DEF Ages, Certain, IsPlanned
<1>4. accepted'[k] <= 1 /\ (claim'[k].st = "none" => accepted'[k] = 0)
  BY <1>2, <1>3 DEF Once
<1>5. ASSUME NEW b \in Bots, InFlight(b, k)'
      PROVE  /\ (claim'[k].st = "pending" /\ claim'[k].owner = b) \/ claim'[k].st = "ambiguous"
             /\ job'[b].stage = "send" => accepted'[k] = 0
             /\ \A c \in Bots : InFlight(c, k)' => c = b
  BY <1>2, <1>3, <1>5 DEF Once
<1>6. QED
  BY <1>4, <1>5 DEF Once

LEMMA PruningAges ==
  ASSUME ClaimsOK, CountsOK, NEW k \in Keys, claim'[k] = Pruned[k], Forgetting[k] \subseteq doubt'[k]
  PROVE  Ages(k) /\ doubt[k] \subseteq doubt'[k]
<1>1. Pruned[k] = IF ~Expired(k) THEN claim[k]
                  ELSE IF IsPlanned(k) THEN Settled("ambiguous") ELSE NoClaim
  BY DEF Pruned
<1>2. Forgetting[k] = IF Expired(k) /\ ~IsPlanned(k) THEN doubt[k] \union {"lapse"} ELSE doubt[k]
  BY DEF Forgetting
<1>3. Settled("ambiguous").st = "ambiguous"
  BY SettledIs
<1>4. QED
  BY <1>1, <1>2, <1>3 DEF Ages, Expired

\* A step in which nobody enters or settles a call.
LEMMA OnceAside ==
  ASSUME OnceInv, UNCHANGED <<claim, accepted, doubt>>,
         \A c \in Bots, k \in Keys : InFlight(c, k)' => InFlight(c, k) /\ job'[c].stage = job[c].stage
  PROVE  OnceInv'
BY OnceKept DEF OnceInv, Ages

\* The sender b leaves its call k; the others stay.
LEMMA OnceSettled ==
  ASSUME OnceInv, NEW b \in Bots, NEW k \in Keys, InFlight(b, k), OthersStay(b), ~InFlight(b, k)',
         doubt[k] \subseteq doubt'[k],
         Certain(k)' => /\ accepted'[k] \in Nat /\ accepted'[k] <= 1
                        /\ claim'[k].st = "none" => accepted'[k] = 0
  PROVE  Certain(k)' => Once(k)'
<1> SUFFICES ASSUME Certain(k)' PROVE Once(k)'
  OBVIOUS
<1>1. Certain(k)
  BY DEF Certain, IsPlanned
<1>2. \A c \in Bots : InFlight(c, k) => c = b
  BY <1>1 DEF OnceInv, Once
<1>3. \A c \in Bots : ~InFlight(c, k)'
  BY <1>2, StaysOut DEF OthersStay
<1>4. QED
  BY <1>3 DEF Once

LEMMA OnceAsking ==
  ASSUME TInv, OnceInv, NEW b \in Bots, Begin(b) \/ Wait(b)
  PROVE  OnceInv'
<1> USE DEF TInv
<1>0. PICK i \in Keys : i = Key(b)
  BY BusyIs DEF Begin, Wait
<1>1. /\ job[b].stage \in {"begin", "again", "wait"}
      /\ accepted' = accepted
      /\ Forgetting \in [Keys -> SUBSET {"lapse", "reset", "contender"}]
  BY BusyIs, DoubtIs DEF Begin, Wait
<1>2. ASSUME claim' = Pruned, \A k \in Keys : Forgetting[k] \subseteq doubt'[k],
             OthersStay(b), ~job'[b].stage \in {"send", "commit"}
      PROVE  OnceInv'
  <2>1. ASSUME NEW k \in Keys PROVE Certain(k)' => Once(k)'
    <3>1. Ages(k) /\ doubt[k] \subseteq doubt'[k]
      BY <1>2, PruningAges
    <3>2. \A c \in Bots : InFlight(c, k)' => InFlight(c, k) /\ job'[c].stage = job[c].stage
      BY <1>2, StaysOut DEF OthersStay, InFlight
    <3>3. QED
      BY <1>1, <3>1, <3>2, OnceKept
  <2>2. QED
    BY <2>1 DEF OnceInv
<1>3. Prunes(Pruned) => claim' = Pruned /\ \A k \in Keys : Forgetting[k] \subseteq doubt'[k]
  BY DEF Prunes
<1>4. NextPart(b) => OthersStay(b) /\ ~job'[b].stage \in {"send", "commit"}
  BY <1>1, NextPartMoves DEF Advances
<1>5. \A stage \in {"dead", "wait", "again", "retry"} :
         GoTo(b, stage) => OthersStay(b) /\ ~job'[b].stage \in {"send", "commit"}
  BY <1>1, GoToMoves DEF Turns
<1>6. CASE Begin(b) /\ Acquire(b) /\ Pruned[i].st = "none"
  <2> DEFINE mine == [st |-> "pending", owner |-> b, live |-> TRUE]
  <2>1. /\ claim' = PrunedWith(i, mine) /\ doubt' = Forgetting
        /\ OthersStay(b) /\ Turns(b, "send")
    BY <1>0, <1>1, <1>6, GoToMoves DEF Acquire, Prunes
  <2>2. claim'[i] = mine /\ \A k \in Keys : k # i => claim'[k] = Pruned[k]
    BY <1>1, <2>1, PrunedIs DEF PrunedWith
  <2>3. Key(b)' = i /\ job'[b].stage = "send"
    BY <1>0, <2>1 DEF Turns, SameReply, Key
  <2>4. ASSUME NEW k \in Keys, k # i PROVE Certain(k)' => Once(k)'
    <3>1. Ages(k) /\ doubt[k] \subseteq doubt'[k]
      BY <2>1, <2>2, <2>4, PruningAges
    <3>2. \A c \in Bots : InFlight(c, k)' => InFlight(c, k) /\ job'[c].stage = job[c].stage
      BY <2>1, <2>3, <2>4, StaysOut DEF OthersStay, InFlight
    <3>3. QED
      BY <1>1, <3>1, <3>2, OnceKept
  <2>5. ASSUME Certain(i)' PROVE Once(i)'
    <3>1. claim[i].st = "none"
      <4>1. Forgetting[i] = IF Expired(i) /\ ~IsPlanned(i) THEN doubt[i] \union {"lapse"} ELSE doubt[i]
        BY <1>1 DEF Forgetting
      <4>2. ~(Expired(i) /\ ~IsPlanned(i))
        BY <2>1, <2>5, <4>1 DEF Certain, IsPlanned
      <4>3. Pruned[i] = IF ~Expired(i) THEN claim[i] ELSE Settled("ambiguous")
        BY <1>1, <4>2 DEF Pruned
      <4>4. QED
        BY <1>6, <4>3, SettledIs
    <3>2. doubt[i] \subseteq doubt'[i]
      BY <1>1, <2>1 DEF Forgetting
    <3>3. Certain(i)
      BY <2>5, <3>2 DEF Certain, IsPlanned
    <3>4. accepted[i] = 0 /\ \A c \in Bots : ~InFlight(c, i)
      BY <3>1, <3>3 DEF OnceInv, Once
    <3>5. \A c \in Bots : InFlight(c, i)' => c = b
      BY <2>1, <3>4, StaysOut DEF OthersStay
    <3>6. QED
      BY <1>1, <2>2, <3>4, <3>5 DEF Once
  <2>6. QED
    BY <2>4, <2>5 DEF OnceInv
<1>7. CASE Begin(b) /\ ~(Acquire(b) /\ Pruned[i].st = "none")
  <2>1. CASE Prunes(Pruned) /\ (NextPart(b) \/ GoTo(b, "dead") \/ GoTo(b, "wait"))
    BY <1>2, <1>3, <1>4, <1>5, <2>1
  <2>2. CASE /\ claim' = Pruned /\ NextPart(b)
             /\ doubt' = [Forgetting EXCEPT ![i] = Forgetting[i] \union {"contender"}]
    BY <1>0, <1>1, <1>2, <1>4, <2>2
  <2>3. QED
    BY <1>0, <1>7, <2>1, <2>2 DEF Begin
<1>8. CASE Wait(b)
  BY <1>2, <1>3, <1>4, <1>5, <1>8 DEF Wait
<1>9. QED
  BY <1>6, <1>7, <1>8

\* Of the steps that settle the claim of the call, or fail to.
LEMMA Settling ==
  ASSUME TInv, NEW b \in Bots, job[b].stage \in {"send", "commit"},
         NEW st \in {"none", "sent", "ambiguous"}, NEW stage \in {"dead", "retry"},
         SettleClaim(b, st, stage)
  PROVE  /\ Key(b) \in Keys /\ InFlight(b, Key(b)) /\ OthersStay(b)
         /\ Turns(b, "dead") \/ Turns(b, "retry")
         /\ \A k \in Keys : k # Key(b) => claim'[k] = claim[k]
         /\ \/ claim[Key(b)].st = "pending" /\ claim'[Key(b)].st = st
            \/ ~Holds(b) /\ claim'[Key(b)] = claim[Key(b)]
<1> USE DEF TInv
<1>1. Key(b) \in Keys /\ InFlight(b, Key(b))
  BY BusyIs DEF InFlight
<1>2. GoTo(b, stage) \/ GoTo(b, "retry")
  BY DEF SettleClaim
<1>3. OthersStay(b) /\ (Turns(b, "dead") \/ Turns(b, "retry"))
  BY <1>2, GoToMoves
<1>4. CASE Holds(b)
  <2>1. claim' = [claim EXCEPT ![Key(b)] = Settled(st)]
    BY <1>4 DEF SettleClaim
  <2>2. QED
    BY <1>1, <1>3, <1>4, <2>1, SettledIs DEF ClaimsOK, Holds
<1>5. CASE ~Holds(b)
  BY <1>1, <1>3, <1>5 DEF SettleClaim
<1>6. QED
  BY <1>4, <1>5

LEMMA OnceSending ==
  ASSUME TInv, OnceInv, NEW b \in Bots,
         \/ SendAccepted(b) \/ SendUnknown(b) \/ SendRefused(b) \/ SendReset(b)
         \/ Commit(b) \/ CommitFails(b)
  PROVE  OnceInv'
<1> USE DEF TInv
<1>0. PICK i \in Keys : i = Key(b)
  BY BusyIs DEF SendAccepted, SendUnknown, SendRefused, SendReset, Commit, CommitFails
<1>1. InFlight(b, i)
  BY <1>0 DEF InFlight, SendAccepted, SendUnknown, SendRefused, SendReset, Commit, CommitFails
<1>2. job[b].stage \in {"send", "commit"} /\ accepted[i] \in Nat /\ i \in DOMAIN doubt
  BY <1>1 DEF InFlight, CountsOK
<1>3. Certain(i) => /\ accepted[i] <= 1
                    /\ job[b].stage = "send" => accepted[i] = 0
                    /\ claim[i].st # "none"
                    /\ claim[i].st = "pending" => Holds(b)
  BY <1>0, <1>1 DEF OnceInv, Once, Holds
<1>4. ASSUME OthersStay(b), ~job'[b].stage \in {"send", "commit"},
             \A k \in Keys : /\ doubt[k] \subseteq doubt'[k]
                             /\ k # i => Ages(k) /\ accepted'[k] = accepted[k],
             Certain(i)' => /\ accepted'[i] \in Nat /\ accepted'[i] <= 1
                            /\ claim'[i].st = "none" => accepted'[i] = 0
      PROVE  OnceInv'
  <2>1. Certain(i)' => Once(i)'
    BY <1>1, <1>4, OnceSettled DEF InFlight
  <2>2. ASSUME NEW k \in Keys, k # i PROVE Certain(k)' => Once(k)'
    <3>1. \A c \in Bots : InFlight(c, k)' => InFlight(c, k) /\ job'[c].stage = job[c].stage
      BY <1>4, StaysOut DEF OthersStay, InFlight
    <3>2. QED
      BY <1>4, <2>2, <3>1, OnceKept
  <2>3. QED
    BY <2>1, <2>2 DEF OnceInv
<1>5. ASSUME NEW st \in {"none", "sent", "ambiguous"}, NEW stage \in {"dead", "retry"},
             SettleClaim(b, st, stage)
      PROVE  /\ OthersStay(b) /\ ~job'[b].stage \in {"send", "commit"}
             /\ \A k \in Keys : k # i => Ages(k)
             /\ claim'[i].st = st \/ (~Holds(b) /\ claim'[i] = claim[i])
  BY <1>0, <1>2, <1>5, Settling DEF Turns, Ages
<1>6. Accepting(b)[i] = accepted[i] + 1 /\ \A k \in Keys : k # i => Accepting(b)[k] = accepted[k]
  BY <1>0 DEF Accepting, CountsOK
<1>7. CASE SendAccepted(b)
  <2>1. Turns(b, "commit") /\ OthersStay(b)
    BY <1>2, <1>7, GoToMoves DEF SendAccepted
  <2>2. Key(b)' = i /\ job'[b].stage = "commit"
    BY <1>0, <2>1 DEF Turns, SameReply, Key
  <2>3. UNCHANGED <<claim, doubt>> /\ accepted' = Accepting(b) /\ job[b].stage = "send"
    BY <1>7 DEF SendAccepted
  <2>4. ASSUME Certain(i)' PROVE Once(i)'
    <3>1. Certain(i)
      BY <2>3, <2>4 DEF Certain, IsPlanned
    <3>2. Once(i)
      BY <3>1 DEF OnceInv
    <3>3. accepted'[i] = 1 /\ claim'[i].st # "none"
      BY <1>3, <1>6, <2>3, <3>1
    <3>4. \A c \in Bots : InFlight(c, i)' => c = b
      BY <1>1, <2>1, <3>2, StaysOut DEF OthersStay, Once
    <3>5. (claim'[i].st = "pending" /\ claim'[i].owner = b) \/ claim'[i].st = "ambiguous"
      BY <1>1, <2>3, <3>2 DEF Once
    <3>6. QED
      BY <2>2, <3>3, <3>4, <3>5 DEF Once
  <2>5. ASSUME NEW k \in Keys, k # i PROVE Certain(k)' => Once(k)'
    <3>1. Ages(k) /\ doubt[k] \subseteq doubt'[k] /\ accepted'[k] = accepted[k]
      BY <1>6, <2>3, <2>5 DEF Ages
    <3>2. \A c \in Bots : InFlight(c, k)' => InFlight(c, k) /\ job'[c].stage = job[c].stage
      BY <2>1, <2>2, <2>5, StaysOut DEF OthersStay, InFlight
    <3>3. QED
      BY <3>1, <3>2, OnceKept
  <2>6. QED
    BY <2>4, <2>5 DEF OnceInv
<1>8. CASE SendUnknown(b)
  <2>1. /\ SettleClaim(b, "ambiguous", "dead") /\ doubt' = doubt
        /\ accepted' \in {accepted, Accepting(b)} /\ job[b].stage = "send"
    BY <1>8 DEF SendUnknown
  <2>2. Certain(i)' => Certain(i)
    BY <2>1 DEF Certain, IsPlanned
  <2>3. Certain(i)' => accepted'[i] \in {0, 1} /\ claim'[i].st # "none"
    BY <1>3, <1>5, <1>6, <2>1, <2>2
  <2>4. QED
    BY <1>4, <1>5, <1>6, <2>1, <2>3
<1>9. CASE SendRefused(b)
  <2>1. /\ \E stage \in {"retry", "dead"} : SettleClaim(b, "none", stage)
        /\ UNCHANGED <<doubt, accepted>> /\ job[b].stage = "send"
    BY <1>9 DEF SendRefused
  <2>2. Certain(i)' => Certain(i)
    BY <2>1 DEF Certain, IsPlanned
  <2>3. Certain(i)' => accepted'[i] = 0
    BY <1>3, <2>1, <2>2
  <2>4. QED
    BY <1>4, <1>5, <2>1, <2>3
<1>10. CASE SendReset(b)
  <2>1. /\ SettleClaim(b, "none", "retry") /\ accepted' = Accepting(b)
        /\ doubt' = [doubt EXCEPT ![i] = doubt[i] \union {"reset"}]
    BY <1>0, <1>10 DEF SendReset
  <2>2. ~Certain(i)' /\ \A k \in Keys : doubt[k] \subseteq doubt'[k]
    BY <2>1 DEF Certain, CountsOK
  <2>3. QED
    BY <1>4, <1>5, <1>6, <2>1, <2>2
<1>11. CASE CommitFails(b)
  <2>1. SettleClaim(b, "ambiguous", "dead") /\ UNCHANGED <<doubt, accepted>>
    BY <1>11 DEF CommitFails
  <2>2. Certain(i)' => Certain(i)
    BY <2>1 DEF Certain, IsPlanned
  <2>3. Certain(i)' => accepted'[i] <= 1 /\ claim'[i].st # "none"
    BY <1>3, <1>5, <2>1, <2>2
  <2>4. QED
    BY <1>2, <1>4, <1>5, <2>1, <2>3
<1>12. CASE Commit(b) /\ Holds(b)
  <2>1. /\ claim' = PrunedWith(i, Settled("sent")) /\ doubt' = Forgetting /\ accepted' = accepted
        /\ OthersStay(b) /\ Advances(b)
    BY <1>0, <1>2, <1>12, NextPartMoves DEF Commit, Prunes
  <2>2. /\ claim'[i].st = "sent" /\ \A k \in Keys : k # i => claim'[k] = Pruned[k]
        /\ \A k \in Keys : doubt[k] \subseteq doubt'[k]
    BY <2>1, PrunedIs, SettledIs DEF PrunedWith, Forgetting
  <2>3. \A k \in Keys : k # i => Ages(k)
    BY <2>1, <2>2, PruningAges
  <2>4. Certain(i)' => Certain(i)
    BY <2>2 DEF Certain, IsPlanned
  <2>5. Certain(i)' => accepted'[i] <= 1
    BY <1>3, <2>1, <2>4
  <2>6. QED
    BY <1>2, <1>4, <2>1, <2>2, <2>3, <2>5 DEF Advances
<1>13. CASE Commit(b) /\ ~Holds(b)
  <2>1. UNCHANGED <<claim, doubt, accepted>> /\ OthersStay(b) /\ Turns(b, "retry")
    BY <1>2, <1>13, GoToMoves DEF Commit
  <2>2. Certain(i)' => Certain(i)
    BY <2>1 DEF Certain, IsPlanned
  <2>3. QED
    BY <1>2, <1>3, <1>4, <2>1, <2>2 DEF Turns, Ages
<1>14. QED
  BY <1>7, <1>8, <1>9, <1>10, <1>11, <1>12, <1>13

LEMMA OnceStep == ASSUME TInv, OnceInv, [Next]_vars PROVE OnceInv'
<1>1. ASSUME NEW b \in Bots, OthersStay(b), UNCHANGED <<claim, accepted, doubt>>,
             Stays(b) \/ ~job'[b].stage \in {"send", "commit"}
      PROVE  OnceInv'
  <2>1. \A c \in Bots, k \in Keys : InFlight(c, k)' => InFlight(c, k) /\ job'[c].stage = job[c].stage
    BY <1>1, StaysOut DEF OthersStay, InFlight
  <2>2. QED
    BY <1>1, <2>1, OnceAside
<1>2. ASSUME UNCHANGED <<lane, job, accepted, doubt>>, \A k \in Keys : Ages(k)
      PROVE  OnceInv'
  <2>1. \A c \in Bots, k \in Keys : InFlight(c, k)' => InFlight(c, k) /\ job'[c].stage = job[c].stage
    BY <1>2, StayAll, StaysOut
  <2>2. QED
    BY <1>2, <2>1, OnceKept DEF OnceInv
<1>3. ASSUME NEW b \in Bots,
             Start(b) \/ Scan(b) \/ Connect(b) \/ Disconnect(b) \/ Receive(b) \/ ReceiveLosesCursor(b)
      PROVE  OnceInv'
  <2>1. UNCHANGED <<claim, accepted, doubt>>
    BY <1>3 DEF Start, Scan, Connect, Disconnect, Receive, ReceiveLosesCursor, UnchangedStores, UnchangedGuard
  <2>2. QED
    BY <1>1, <1>3, <2>1, QueueMoves DEF OthersStay
<1>4. ASSUME NEW b \in Bots,
             \/ ClaimRow(b) \/ RaiseEarly(b) \/ Acknowledge(b) \/ AcknowledgeFails(b)
             \/ MarkFailed(b) \/ MarkDeadLetter(b) \/ Close(b) \/ Stop(b) \/ Crash(b)
      PROVE  OnceInv'
  <2>1. UNCHANGED <<claim, accepted, doubt>>
    BY <1>4 DEF ClaimRow, RaiseEarly, Acknowledge, AcknowledgeFails, MarkFailed, MarkDeadLetter,
       Close, Stop, Crash, UnchangedStores, UnchangedGuard
  <2>2. QED
    BY <1>1, <1>4, <2>1, OutsideMoves DEF Rests, Takes, Turns
<1>5. ASSUME NEW e \in Replies, RowLeaseLapses(e) \/ BackoffEnds(e) \/ ForceReplay(e) \/ PruneSent(e)
      PROVE  OnceInv'
  BY <1>2, <1>5 DEF RowLeaseLapses, BackoffEnds, ForceReplay, PruneSent, UnchangedGuard, UnchangedProcess, Ages
<1>6. ASSUME NEW k \in Keys, ClaimLeaseLapses(k)
      PROVE  OnceInv'
  <2>1. claim[k] \in Claim
    BY DEF TInv, ClaimsOK
  <2>2. claim' = [claim EXCEPT ![k] = [claim[k] EXCEPT !.live = FALSE]]
    BY <1>6 DEF ClaimLeaseLapses, TInv, ClaimsOK
  <2>3. \A i \in Keys : Ages(i)
    BY <2>1, <2>2 DEF Ages, Claim, TInv, ClaimsOK
  <2>4. QED
    BY <1>2, <1>6, <2>3 DEF ClaimLeaseLapses, UnchangedProcess
<1>7. CASE UNCHANGED vars
  BY <1>2, <1>7 DEF vars, Ages
<1>8. QED
  BY <1>3, <1>4, <1>5, <1>6, <1>7, OnceAsking, OnceSending DEF Next, Work, Trouble

(* The platform accepts a message twice only after a reset connection or a    *)
(* claim without a plan that lapsed, whatever the number of processes,        *)
(* crashes, stalls and replays.                                              *)
THEOREM SentOnce == Spec => []AcceptedOnce
<1>1. Init => OnceInv
  BY DEF Init, OnceInv, Once, InFlight, Idle
<1>2. TInv /\ OnceInv /\ [Next]_vars => TInv' /\ OnceInv'
  BY TypeStep, OnceStep
<1>3. TInv /\ OnceInv => AcceptedOnce
  BY DEF TInv, CountsOK, OnceInv, Once, Certain, AcceptedOnce
<1>4. QED
  BY <1>1, <1>2, <1>3, TypeInit, PTL DEF Spec

-----------------------------------------------------------------------------
(* What is recorded as sent is accounted for.                                 *)
Accounted(k) == accepted[k] > 0 \/ claim[k].st = "ambiguous" \/ "contender" \in doubt[k]

\* Of the idempotency store: what it calls sent was accepted, and so was what a
\* worker is about to call sent.
SentWasAccepted ==
    /\ \A k \in Keys : claim[k].st = "sent" => accepted[k] > 0
    /\ \A b \in Bots : job[b].stage = "commit" => accepted[Key(b)] > 0

\* A step of the store takes nothing back.
StoreMove(k) ==
    /\ accepted[k] > 0 => accepted'[k] > 0
    /\ claim[k].st = "ambiguous" => claim'[k].st = "ambiguous"
    /\ "contender" \in doubt[k] => "contender" \in doubt'[k]
    /\ claim'[k].st = "sent" => accepted'[k] > 0

LEMMA StoreRests ==
  ASSUME SentWasAccepted, UNCHANGED <<claim, accepted, doubt>>
  PROVE  \A k \in Keys : StoreMove(k)
BY DEF SentWasAccepted, StoreMove

LEMMA StorePruned ==
  ASSUME TInv, SentWasAccepted, NEW k \in Keys, claim'[k] = Pruned[k], UNCHANGED accepted,
         Forgetting[k] \subseteq doubt'[k]
  PROVE  StoreMove(k)
<1>1. Pruned[k] = IF ~Expired(k) THEN claim[k]
                  ELSE IF IsPlanned(k) THEN Settled("ambiguous") ELSE NoClaim
  BY DEF Pruned
<1>2. Settled("ambiguous").st = "ambiguous" /\ NoClaim.st = "none"
  BY SettledIs, NoClaimIs
<1>3. doubt[k] \subseteq Forgetting[k]
  BY DEF Forgetting
<1>4. QED
  BY <1>1, <1>2, <1>3 DEF StoreMove, SentWasAccepted, Expired

LEMMA StoreAsked ==
  ASSUME TInv, SentWasAccepted, NEW b \in Bots, Begin(b) \/ Wait(b)
  PROVE  \A k \in Keys : StoreMove(k)
<1>0. PICK i \in Keys : i = Key(b)
  BY BusyIs DEF Begin, Wait, TInv
<1>1. accepted' = accepted /\ Forgetting \in [Keys -> SUBSET {"lapse", "reset", "contender"}]
  BY DoubtIs, <1>0 DEF Begin, Wait, TInv
<1>2. CASE Acquire(b) /\ Pruned[i].st = "none"
  <2> DEFINE mine == [st |-> "pending", owner |-> b, live |-> TRUE]
  <2>1. claim' = PrunedWith(i, mine) /\ doubt' = Forgetting
    BY <1>0, <1>2 DEF Acquire, Prunes
  <2>2. claim'[i] = mine /\ \A k \in Keys : k # i => claim'[k] = Pruned[k]
    BY <1>0, <2>1, PrunedIs DEF PrunedWith, TInv
  <2>3. ASSUME NEW k \in Keys, k # i PROVE StoreMove(k)
    BY <1>1, <2>1, <2>2, <2>3, StorePruned
  <2>4. claim[i].st # "ambiguous"
    BY <1>2 DEF Pruned, Expired
  <2>5. StoreMove(i)
    BY <1>1, <2>1, <2>2, <2>4 DEF StoreMove, Forgetting
  <2>6. QED
    BY <2>3, <2>5
<1>3. CASE claim' = Pruned /\ \A k \in Keys : Forgetting[k] \subseteq doubt'[k]
  BY <1>1, <1>3, StorePruned
<1>4. Prunes(Pruned) => \A k \in Keys : Forgetting[k] \subseteq doubt'[k]
  BY DEF Prunes
<1>5. doubt' = [Forgetting EXCEPT ![i] = Forgetting[i] \union {"contender"}]
        => \A k \in Keys : Forgetting[k] \subseteq doubt'[k]
  BY <1>1
<1>6. QED
  BY <1>0, <1>2, <1>3, <1>4, <1>5 DEF Begin, Wait, Prunes

LEMMA StoreSent ==
  ASSUME TInv, SentWasAccepted, NEW b \in Bots,
         \/ SendAccepted(b) \/ SendUnknown(b) \/ SendRefused(b) \/ SendReset(b)
         \/ Commit(b) \/ CommitFails(b)
  PROVE  \A k \in Keys : StoreMove(k)
<1>0. PICK i \in Keys : i = Key(b)
  BY BusyIs DEF SendAccepted, SendUnknown, SendRefused, SendReset, Commit, CommitFails, TInv
<1>1. job[b].stage \in {"send", "commit"} /\ \A k \in Keys : accepted[k] \in Nat
  BY DEF SendAccepted, SendUnknown, SendRefused, SendReset, Commit, CommitFails, TInv, CountsOK
<1>2. \A k \in Keys : Accepting(b)[k] \in {accepted[k], accepted[k] + 1}
  BY <1>0 DEF Accepting, TInv, CountsOK
<1>3. CASE SendAccepted(b) \/ SendUnknown(b) \/ SendRefused(b) \/ SendReset(b) \/ CommitFails(b)
  <2>1. /\ accepted' \in {accepted, Accepting(b)}
        /\ doubt' \in {doubt, [doubt EXCEPT ![i] = doubt[i] \union {"reset"}]}
    BY <1>0, <1>3 DEF SendAccepted, SendUnknown, SendRefused, SendReset, CommitFails
  <2>2. \/ claim' = claim
        \/ \E st \in {"none", "ambiguous"}, stage \in {"dead", "retry"} : SettleClaim(b, st, stage)
    BY <1>3 DEF SendAccepted, SendUnknown, SendRefused, SendReset, CommitFails
  <2>3. \A k \in Keys : \/ claim'[k] = claim[k]
                        \/ claim[k].st = "pending" /\ claim'[k].st \in {"none", "ambiguous"}
    <3>1. ASSUME NEW st \in {"none", "ambiguous"}, NEW stage \in {"dead", "retry"},
                 SettleClaim(b, st, stage), NEW k \in Keys
          PROVE  claim'[k] = claim[k] \/ (claim[k].st = "pending" /\ claim'[k].st = st)
      BY <1>0, <1>1, <3>1, Settling
    <3>2. QED
      BY <2>2, <3>1
  <2>4. \A k \in Keys : /\ accepted[k] > 0 => accepted'[k] > 0
                        /\ "contender" \in doubt[k] => "contender" \in doubt'[k]
    BY <1>1, <1>2, <2>1 DEF TInv, CountsOK
  <2>5. QED
    BY <2>3, <2>4 DEF StoreMove, SentWasAccepted
<1>4. CASE Commit(b) /\ Holds(b)
  <2>1. claim' = PrunedWith(i, Settled("sent")) /\ doubt' = Forgetting /\ accepted' = accepted
    BY <1>0, <1>4 DEF Commit, Prunes
  <2>2. claim'[i].st = "sent" /\ \A k \in Keys : k # i => claim'[k] = Pruned[k]
    BY <2>1, PrunedIs, SettledIs DEF PrunedWith, TInv
  <2>3. ASSUME NEW k \in Keys, k # i PROVE StoreMove(k)
    BY <2>1, <2>2, <2>3, StorePruned
  <2>4. accepted[i] > 0 /\ claim[i].st = "pending"
    BY <1>0, <1>4 DEF Commit, SentWasAccepted, Holds
  <2>5. StoreMove(i)
    BY <2>1, <2>2, <2>4 DEF StoreMove, Forgetting
  <2>6. QED
    BY <2>3, <2>5
<1>5. CASE Commit(b) /\ ~Holds(b)
  BY <1>5, StoreRests DEF Commit
<1>6. QED
  BY <1>3, <1>4, <1>5

\* How a job moves, and what it has in hand when it does.
JobMove(c) ==
    \/ Stays(c) \/ Rests(c) \/ Takes(c, Head1(c))
    \/ \E stage \in {"wait", "again", "send", "retry", "dead"} : Turns(c, stage)
    \/ Turns(c, "commit") /\ accepted'[Key(c)] > 0
    \/ Advances(c) /\ \E k \in Keys : k = Key(c) /\ Accounted(k)'

LEMMA AskingMoves ==
  ASSUME TInv, SentWasAccepted, NEW b \in Bots, Begin(b) \/ Wait(b)
  PROVE  OthersStay(b) /\ JobMove(b)
<1> USE DEF TInv
<1>0. PICK i \in Keys : i = Key(b)
  BY BusyIs DEF Begin, Wait
<1>1. job[b].stage # "idle" /\ accepted' = accepted
      /\ Forgetting \in [Keys -> SUBSET {"lapse", "reset", "contender"}]
  BY <1>0, DoubtIs DEF Begin, Wait
<1>2. ASSUME NEW stage \in {"wait", "again", "send", "retry", "dead"}, GoTo(b, stage)
      PROVE  OthersStay(b) /\ JobMove(b)
  BY <1>1, <1>2, GoToMoves DEF JobMove
<1>3. ASSUME NextPart(b), Accounted(i)'
      PROVE  OthersStay(b) /\ JobMove(b)
  BY <1>0, <1>1, <1>3, NextPartMoves DEF JobMove
<1>4. ASSUME Pruned[i].st \in {"sent", "ambiguous"}, claim' = Pruned
      PROVE  Accounted(i)'
  <2>1. Pruned[i].st = "sent" => claim[i].st = "sent"
    BY SettledIs, NoClaimIs DEF Pruned
  <2>2. QED
    BY <1>1, <1>4, <2>1 DEF SentWasAccepted, Accounted
<1>5. CASE Begin(b)
  <2>1. CASE Acquire(b)
    BY <1>2, <2>1 DEF Acquire
  <2>2. CASE Prunes(Pruned) /\ NextPart(b) /\ Pruned[i].st = "sent"
    BY <1>3, <1>4, <2>2 DEF Prunes
  <2>3. CASE GoTo(b, "dead") \/ GoTo(b, "wait")
    BY <1>2, <2>3
  <2>4. CASE NextPart(b) /\ doubt' = [Forgetting EXCEPT ![i] = Forgetting[i] \union {"contender"}]
    BY <1>1, <1>3, <2>4 DEF Accounted
  <2>5. QED
    BY <1>0, <1>5, <2>1, <2>2, <2>3, <2>4 DEF Begin
<1>6. CASE Wait(b)
  <2>1. CASE NextPart(b) /\ Pruned[i].st \in {"sent", "ambiguous"} /\ Prunes(Pruned)
    BY <1>3, <1>4, <2>1 DEF Prunes
  <2>2. CASE GoTo(b, "again") \/ GoTo(b, "retry")
    BY <1>2, <2>2
  <2>3. QED
    BY <1>0, <1>6, <2>1, <2>2 DEF Wait
<1>7. QED
  BY <1>5, <1>6

LEMMA SendingMoves ==
  ASSUME TInv, SentWasAccepted, NEW b \in Bots,
         \/ SendAccepted(b) \/ SendUnknown(b) \/ SendRefused(b) \/ SendReset(b)
         \/ Commit(b) \/ CommitFails(b)
  PROVE  OthersStay(b) /\ JobMove(b)
<1> USE DEF TInv
<1>0. PICK i \in Keys : i = Key(b)
  BY BusyIs DEF SendAccepted, SendUnknown, SendRefused, SendReset, Commit, CommitFails
<1>1. job[b].stage \in {"send", "commit"}
  BY DEF SendAccepted, SendUnknown, SendRefused, SendReset, Commit, CommitFails
<1>2. ASSUME NEW st \in {"none", "ambiguous"}, NEW stage \in {"dead", "retry"}, SettleClaim(b, st, stage)
      PROVE  OthersStay(b) /\ JobMove(b)
  BY <1>1, <1>2, Settling DEF JobMove
<1>3. CASE SendUnknown(b) \/ SendRefused(b) \/ SendReset(b) \/ CommitFails(b)
  BY <1>2, <1>3 DEF SendUnknown, SendRefused, SendReset, CommitFails
<1>4. CASE SendAccepted(b)
  <2>1. Turns(b, "commit") /\ OthersStay(b)
    BY <1>1, <1>4, GoToMoves DEF SendAccepted
  <2>2. accepted'[i] = accepted[i] + 1 /\ accepted[i] \in Nat
    BY <1>0, <1>4 DEF SendAccepted, Accepting, CountsOK
  <2>3. QED
    BY <1>0, <2>1, <2>2 DEF JobMove
<1>5. CASE Commit(b) /\ Holds(b)
  <2>1. NextPart(b) /\ accepted' = accepted /\ accepted[i] > 0
    BY <1>0, <1>5 DEF Commit, SentWasAccepted
  <2>2. Accounted(i)'
    BY <2>1 DEF Accounted
  <2>3. QED
    BY <1>0, <1>1, <2>1, <2>2, NextPartMoves DEF JobMove
<1>6. CASE Commit(b) /\ ~Holds(b)
  BY <1>1, <1>6, GoToMoves DEF Commit, JobMove
<1>7. QED
  BY <1>3, <1>4, <1>5, <1>6

LEMMA StepMoves ==
  ASSUME TInv, SentWasAccepted, [Next]_vars
  PROVE  /\ \A k \in Keys : StoreMove(k)
         /\ \A c \in Bots : JobMove(c)
<1>1. ASSUME NEW b \in Bots,
             Start(b) \/ Scan(b) \/ Connect(b) \/ Disconnect(b) \/ Receive(b) \/ ReceiveLosesCursor(b)
      PROVE  (\A k \in Keys : StoreMove(k)) /\ \A c \in Bots : JobMove(c)
  <2>1. UNCHANGED <<claim, accepted, doubt>>
    BY <1>1 DEF Start, Scan, Connect, Disconnect, Receive, ReceiveLosesCursor, UnchangedStores, UnchangedGuard
  <2>2. QED
    BY <1>1, <2>1, StoreRests, QueueMoves DEF JobMove
<1>2. ASSUME NEW b \in Bots,
             \/ ClaimRow(b) \/ RaiseEarly(b) \/ Acknowledge(b) \/ AcknowledgeFails(b)
             \/ MarkFailed(b) \/ MarkDeadLetter(b) \/ Close(b) \/ Stop(b) \/ Crash(b)
      PROVE  (\A k \in Keys : StoreMove(k)) /\ \A c \in Bots : JobMove(c)
  <2>1. UNCHANGED <<claim, accepted, doubt>>
    BY <1>2 DEF ClaimRow, RaiseEarly, Acknowledge, AcknowledgeFails, MarkFailed, MarkDeadLetter,
       Close, Stop, Crash, UnchangedStores, UnchangedGuard
  <2>2. QED
    BY <1>2, <2>1, StoreRests, OutsideMoves DEF JobMove, OthersStay
<1>3. ASSUME NEW b \in Bots,
             \/ Begin(b) \/ Wait(b) \/ SendAccepted(b) \/ SendUnknown(b) \/ SendRefused(b)
             \/ SendReset(b) \/ Commit(b) \/ CommitFails(b)
      PROVE  (\A k \in Keys : StoreMove(k)) /\ \A c \in Bots : JobMove(c)
  <2>1. \A k \in Keys : StoreMove(k)
    BY <1>3, StoreAsked, StoreSent
  <2>2. OthersStay(b) /\ JobMove(b)
    BY <1>3, AskingMoves, SendingMoves
  <2>3. QED
    BY <2>1, <2>2 DEF OthersStay, JobMove
<1>4. ASSUME NEW e \in Replies, RowLeaseLapses(e) \/ BackoffEnds(e) \/ ForceReplay(e) \/ PruneSent(e)
      PROVE  (\A k \in Keys : StoreMove(k)) /\ \A c \in Bots : JobMove(c)
  <2>1. UNCHANGED <<claim, accepted, doubt, lane, job>>
    BY <1>4 DEF RowLeaseLapses, BackoffEnds, ForceReplay, PruneSent, UnchangedGuard, UnchangedProcess
  <2>2. QED
    BY <2>1, StoreRests, StayAll DEF JobMove
<1>5. ASSUME NEW k \in Keys, ClaimLeaseLapses(k)
      PROVE  (\A i \in Keys : StoreMove(i)) /\ \A c \in Bots : JobMove(c)
  <2>1. claim[k] \in Claim /\ UNCHANGED <<accepted, doubt, lane, job>>
    BY <1>5 DEF TInv, ClaimsOK, ClaimLeaseLapses, UnchangedProcess
  <2>2. claim' = [claim EXCEPT ![k] = [claim[k] EXCEPT !.live = FALSE]]
    BY <1>5 DEF ClaimLeaseLapses, TInv, ClaimsOK
  <2>3. \A i \in Keys : claim'[i].st = claim[i].st
    BY <2>1, <2>2 DEF Claim, TInv, ClaimsOK
  <2>4. \A i \in Keys : StoreMove(i)
    BY <2>1, <2>3 DEF StoreMove, SentWasAccepted
  <2>5. QED
    BY <2>1, <2>4, StayAll DEF JobMove
<1>6. CASE UNCHANGED vars
  BY <1>6, StoreRests, StayAll DEF vars, JobMove
<1>7. QED
  BY <1>1, <1>2, <1>3, <1>4, <1>5, <1>6 DEF Next, Work, Trouble

\* The parts a worker has left behind.
Done(b) == {p \in 1..Parts : p < job[b].part \/ job[b].stage = "ack"}

PartsDone ==
    \A b \in Bots : job[b].stage # "idle" =>
        \A p \in Done(b) : Accounted(<<Head1(b), job[b].gen, p>>)

\* A worker that owns its row works on the row's generation.
SameGeneration ==
    \A b \in Bots : job[b].stage # "idle" /\ Owns(b, Head1(b)) => row[Head1(b)].gen = job[b].gen

SentInv == SentWasAccepted /\ PartsDone /\ SameGeneration /\ SentIsAccountedFor

LEMMA AcceptedStep == ASSUME TInv, SentInv, [Next]_vars PROVE SentWasAccepted'
<1>1. (\A k \in Keys : StoreMove(k)) /\ \A c \in Bots : JobMove(c)
  BY StepMoves DEF SentInv
<1>2. ASSUME NEW b \in Bots, job'[b].stage = "commit" PROVE accepted'[Key(b)'] > 0
  <2>1. CASE Stays(b)
    <3>1. Key(b)' = Key(b) /\ job[b].stage = "commit"
      BY <1>2, <2>1 DEF Stays, Key
    <3>2. accepted[Key(b)] > 0 /\ Key(b) \in Keys
      BY <3>1, BusyIs DEF SentInv, SentWasAccepted, TInv
    <3>3. QED
      BY <1>1, <3>1, <3>2 DEF StoreMove
  <2>2. CASE Turns(b, "commit") /\ accepted'[Key(b)] > 0
    <3>1. Key(b)' = Key(b)
      BY <2>2 DEF Turns, SameReply, Key
    <3>2. QED
      BY <2>2, <3>1
  <2>3. QED
    BY <1>1, <1>2, <2>1, <2>2 DEF JobMove, Rests, Takes, Turns, Advances
<1>3. QED
  BY <1>1, <1>2 DEF SentWasAccepted, StoreMove

LEMMA AccountKept ==
  ASSUME NEW k \in Keys, StoreMove(k), Accounted(k)
  PROVE  Accounted(k)'
BY DEF StoreMove, Accounted

LEMMA PartsStep == ASSUME TInv, SentInv, [Next]_vars PROVE PartsDone'
<1> SUFFICES ASSUME NEW b \in Bots, job'[b].stage # "idle", NEW p \in Done(b)'
             PROVE  Accounted(<<Head1(b), job[b].gen, p>>)'
  BY DEF PartsDone
<1>1. (\A k \in Keys : StoreMove(k)) /\ JobMove(b)
  BY StepMoves DEF SentInv
<1>2. p \in 1..Parts /\ (p < job'[b].part \/ job'[b].stage = "ack")
  BY DEF Done
<1>3. ASSUME job[b].stage # "idle", SameReply(b), p \in Done(b)
      PROVE  Accounted(<<Head1(b), job[b].gen, p>>)'
  <2>1. PICK k \in Keys : k = <<Head1(b), job[b].gen, p>>
    BY <1>2, <1>3, BusyIs DEF TInv, LanesOK, Job, Keys
  <2>2. Accounted(k)
    BY <1>3, <2>1 DEF SentInv, PartsDone
  <2>3. Accounted(k)'
    BY <1>1, <2>2, AccountKept
  <2>4. QED
    BY <1>3, <2>1, <2>3 DEF SameReply
<1>4. CASE Stays(b)
  BY <1>2, <1>3, <1>4 DEF Stays, SameReply, Done
<1>5. ASSUME NEW stage \in {"wait", "again", "send", "retry", "dead", "commit"}, Turns(b, stage)
      PROVE  Accounted(<<Head1(b), job[b].gen, p>>)'
  <2>1. p \in Done(b) /\ job[b].stage # "idle" /\ SameReply(b)
    BY <1>2, <1>5 DEF Turns, Done
  <2>2. QED
    BY <1>3, <2>1
<1>6. CASE Takes(b, Head1(b))
  BY <1>2, <1>6 DEF Takes
<1>7. CASE Advances(b) /\ \E k \in Keys : k = Key(b) /\ Accounted(k)'
  <2>1. job[b].part \in 1..Parts
    BY DEF TInv, LanesOK, Job
  <2>2. p \in Done(b) \/ p = job[b].part
    BY <1>2, <1>7, <2>1 DEF Advances, Done
  <2>3. PICK k \in Keys : k = Key(b) /\ Accounted(k)'
    BY <1>7
  <2>4. CASE p = job[b].part
    <3>1. k = <<Head1(b)', job'[b].gen, p>>
      BY <1>7, <2>3, <2>4 DEF Advances, SameReply, Key
    <3>2. QED
      BY <2>3, <3>1
  <2>5. CASE p \in Done(b)
    BY <1>3, <1>7, <2>5 DEF Advances
  <2>6. QED
    BY <2>2, <2>4, <2>5
<1>8. QED
  BY <1>1, <1>4, <1>5, <1>6, <1>7 DEF JobMove, Rests

LEMMA RowStep == ASSUME TInv, [Next]_vars PROVE \A e \in Replies : RowMove(e)
BY RowMoves, RowsRest DEF vars

LEMMA GenerationStep == ASSUME TInv, SentInv, [Next]_vars PROVE SameGeneration'
<1> SUFFICES ASSUME NEW b \in Bots, job'[b].stage # "idle", Owns(b, Head1(b))'
             PROVE  (row[Head1(b)].gen = job[b].gen)'
  BY DEF SameGeneration
<1>1. JobMove(b) /\ LanesOK /\ LanesOK'
  BY StepMoves, TypeStep DEF SentInv, TInv
<1>2. PICK e \in Replies : e = Head1(b)'
  <2>1. lane'[b] # <<>>
    BY <1>1 DEF LanesOK
  <2>2. lane'[b] \in Seq(Replies)
    BY <1>1 DEF LanesOK
  <2>3. lane'[b][1] \in Replies
    BY <2>1, <2>2
  <2>4. QED
    BY <2>3 DEF Head1
<1>3. /\ row'[e].gen = row[e].gen
      /\ Owns(b, e) \/ Takes(b, e)
  BY <1>2, RowStep DEF RowMove, Owns
<1>4. CASE Takes(b, e)
  BY <1>2, <1>3, <1>4 DEF Takes
<1>5. CASE Owns(b, e) /\ ~Takes(b, e)
  <2>1. job[b].stage # "idle" /\ Head1(b) = e /\ job'[b].gen = job[b].gen
    BY <1>1, <1>2, <1>5 DEF JobMove, Stays, Rests, Turns, Advances, SameReply, Takes
  <2>2. row[e].gen = job[b].gen
    BY <1>5, <2>1 DEF SentInv, SameGeneration
  <2>3. QED
    BY <1>2, <1>3, <2>1, <2>2
<1>6. QED
  BY <1>3, <1>4, <1>5

LEMMA SentStep == ASSUME TInv, SentInv, [Next]_vars PROVE SentIsAccountedFor'
<1> SUFFICES ASSUME NEW e \in Replies, row'[e].st = "sent", NEW p \in 1..Parts
             PROVE  Accounted(<<e, row[e].gen, p>>)'
  BY DEF SentIsAccountedFor, Accounted
<1>1. /\ row'[e].gen = row[e].gen
      /\ row[e].st = "sent" \/ \E b \in Bots : Acknowledging(b, e)
  BY RowStep DEF RowMove
<1>2. PICK k \in Keys : k = <<e, row[e].gen, p>>
  BY DEF TInv, RowsOK, Row, Keys
<1>3. Accounted(k)
  <2>1. CASE row[e].st = "sent"
    BY <1>2, <2>1 DEF SentInv, SentIsAccountedFor, Accounted
  <2>2. ASSUME NEW b \in Bots, Acknowledging(b, e) PROVE Accounted(k)
    <3>1. job[b].stage = "ack" /\ Head1(b) = e /\ row[e].gen = job[b].gen
      BY <2>2 DEF Acknowledging, SentInv, SameGeneration
    <3>2. p \in Done(b)
      BY <3>1 DEF Done
    <3>3. QED
      BY <1>2, <3>1, <3>2 DEF SentInv, PartsDone
  <2>3. QED
    BY <1>1, <2>1, <2>2
<1>4. Accounted(k)'
  BY <1>2, <1>3, AccountKept, StepMoves DEF SentInv
<1>5. QED
  BY <1>1, <1>2, <1>4

(* A reply is recorded as sent only when every part of this generation was    *)
(* accepted, is shown as unknown or was left to a contender, whatever         *)
(* processes take the row over, crash or lose its lease.                     *)
THEOREM SentStaysAccountedFor == Spec => []SentIsAccountedFor
<1>1. Init => SentInv
  BY NoClaimIs DEF Init, SentInv, SentWasAccepted, PartsDone, SameGeneration, SentIsAccountedFor,
     Idle, NewRow
<1>2. TInv /\ SentInv /\ [Next]_vars => TInv' /\ SentInv'
  BY TypeStep, AcceptedStep, PartsStep, GenerationStep, SentStep DEF SentInv
<1>3. SentInv => SentIsAccountedFor
  BY DEF SentInv
<1>4. QED
  BY <1>1, <1>2, <1>3, TypeInit, PTL DEF Spec
-----------------------------------------------------------------------------
(* First attempts.                                                            *)

\* A reply in the outbox that nobody has tried to send yet.
Waiting(e) == row[e].st # "none" /\ e \notin tried

\* Nothing but a first attempt takes a new row out of the queue.
WaitsPending ==
    \A e \in Replies \ tried : row[e].st \in {"none", "pending"} /\ row[e].retry = "now"

\* What a worker is busy with was claimed, and what a lane queues has a row.
HeadsTried == \A b \in Bots : job[b].stage # "idle" => Head1(b) \in tried
LanesHaveRows == \A b \in Bots : \A i \in 1..Len(lane[b]) : row[lane[b][i]].st # "none"

\* The outbox is filled in the order of the event log.
RowsInOrder ==
    \A e, f \in Replies : f < e /\ row[e].st # "none" => row[f].st # "none"

Alone == \A b \in Bots \ {1} : bot[b] = "new"

\* In the lane s, what was not tried is queued behind everything older that
\* was not tried.
Ordered(s) ==
    \A i \in 1..Len(s) : \A f \in Replies :
        Waiting(s[i]) /\ Waiting(f) /\ f < s[i] => \E j \in 1..Len(s) : j < i /\ s[j] = f

\* A process that is up alone has queued whatever waits.
Queued == bot[1] = "up" => \A e \in Replies : Waiting(e) => e \in Range(lane[1])

WaitInv == WaitsPending /\ HeadsTried /\ LanesHaveRows /\ RowsInOrder
OrderInv == Alone => Ordered(lane[1]) /\ Queued

LEMMA OneIsABot == 1 \in Bots
BY BoundsAssumption DEF Bots

\* A step that puts no new row into the outbox, and leaves what is new as it is.
Keeps(e) ==
    \/ row'[e] = row[e]
    \/ row[e].st # "none" /\ e \in tried'
    \/ row[e].st # "none" /\ row'[e].st = "pending" /\ row'[e].retry = "now"

LEMMA KeepsSame == ASSUME UNCHANGED row PROVE \A f \in Replies : Keeps(f)
BY DEF Keeps

LEMMA KeepsOne ==
  ASSUME RowsOK, NEW e \in Replies, NEW r, row' = [row EXCEPT ![e] = r], row[e].st # "none",
         e \in tried' \/ (r.st = "pending" /\ r.retry = "now")
  PROVE  \A f \in Replies : Keeps(f)
<1>1. row'[e] = r /\ \A f \in Replies \ {e} : row'[f] = row[f]
  BY DEF RowsOK
<1> QED
  BY <1>1 DEF Keeps

\* The row of a reply that is sent, or held by somebody, was tried.
LEMMA HeldWasTried ==
  ASSUME WaitsPending, NEW e \in Replies, row[e].st \notin {"none", "pending"} \/ row[e].retry # "now",
         row[e].st # "none"
  PROVE  e \in tried
BY DEF WaitsPending, Waiting

LEMMA KeepsWritten ==
  ASSUME RowsOK, WaitsPending, NEW b \in Bots, Head1(b) \in Replies, NEW r, WriteRow(b, r),
         UNCHANGED tried
  PROVE  \A f \in Replies : Keeps(f)
<1>1. CASE Owns(b, Head1(b))
  <2>1. row' = [row EXCEPT ![Head1(b)] = r] /\ row[Head1(b)].st = "delivering"
    BY <1>1 DEF WriteRow, Owns
  <2> QED
    BY <2>1, KeepsOne, HeldWasTried
<1>2. CASE ~Owns(b, Head1(b))
  BY <1>2, KeepsSame DEF WriteRow
<1> QED
  BY <1>1, <1>2

Receives(b) == Receive(b) \/ ReceiveLosesCursor(b)

LEMMA AllKeep ==
  ASSUME TInv, WaitsPending, Next, \A b \in Bots : ~Receives(b)
  PROVE  tried \subseteq tried' /\ \A f \in Replies : Keeps(f)
<1>1. ASSUME NEW b \in Bots, Start(b) \/ Scan(b) \/ Connect(b) \/ Disconnect(b) \/ Begin(b) \/ Wait(b)
             \/ SendAccepted(b) \/ SendUnknown(b) \/ SendRefused(b) \/ SendReset(b)
             \/ Commit(b) \/ CommitFails(b) \/ RaiseEarly(b) \/ Stop(b) \/ Crash(b)
      PROVE  UNCHANGED <<row, tried>>
  BY <1>1 DEF Start, Scan, Connect, Disconnect, Begin, Wait, SendAccepted, SendUnknown,
     SendRefused, SendReset, Commit, CommitFails, RaiseEarly, Stop, Crash, UnchangedStores
<1>2. ASSUME NEW b \in Bots, ClaimRow(b)
      PROVE  tried \subseteq tried' /\ \A f \in Replies : Keeps(f)
  <2>1. Head1(b) \in Replies
    BY <1>2, KeyIs DEF ClaimRow, TInv
  <2>2. CASE IsDue(Head1(b))
    <3> DEFINE e == Head1(b)
               r == [row[e] EXCEPT !.st = "delivering", !.owner = b, !.live = TRUE]
    <3>1. row' = [row EXCEPT ![e] = r] /\ tried' = tried \union {e}
      BY <1>2, <2>2 DEF ClaimRow
    <3>2. row[e].st # "none"
      BY <2>2 DEF IsDue
    <3> QED
      BY <2>1, <3>1, <3>2, KeepsOne DEF TInv
  <2>3. CASE ~IsDue(Head1(b))
    BY <1>2, <2>3, KeepsSame DEF ClaimRow
  <2> QED
    BY <2>2, <2>3
<1>3. ASSUME NEW b \in Bots, Acknowledge(b) \/ AcknowledgeFails(b) \/ MarkFailed(b) \/ MarkDeadLetter(b)
      PROVE  tried \subseteq tried' /\ \A f \in Replies : Keeps(f)
  <2>1. Head1(b) \in Replies /\ UNCHANGED tried
    BY <1>3, BusyIs DEF Acknowledge, AcknowledgeFails, MarkFailed, MarkDeadLetter, TInv
  <2>2. \E r : WriteRow(b, r)
    BY <1>3 DEF Acknowledge, AcknowledgeFails, MarkFailed, MarkDeadLetter
  <2> QED
    BY <2>1, <2>2, KeepsWritten DEF TInv
<1>4. ASSUME NEW b \in Bots, Close(b)
      PROVE  tried \subseteq tried' /\ \A f \in Replies : Keeps(f)
  <2> DEFINE e == Head1(b)
             r == [Closed(row[e], "pending") EXCEPT !.retry = row[e].retry]
  <2>1. CASE ~Protected(b) /\ job[b].stage # "idle" /\ Owns(b, e)
    <3>1. row' = [row EXCEPT ![e] = r] /\ tried' = tried /\ row[e].st = "delivering"
      BY <1>4, <2>1 DEF Close, Owns
    <3>2. e \in Replies
      BY <2>1, BusyIs DEF TInv
    <3> QED
      BY <3>1, <3>2, KeepsOne, HeldWasTried DEF TInv
  <2>2. CASE ~(~Protected(b) /\ job[b].stage # "idle" /\ Owns(b, e))
    BY <1>4, <2>2, KeepsSame DEF Close
  <2> QED
    BY <2>1, <2>2
<1>5. ASSUME NEW e \in Replies, RowLeaseLapses(e) \/ BackoffEnds(e) \/ PruneSent(e)
      PROVE  tried \subseteq tried' /\ \A f \in Replies : Keeps(f)
  <2>1. row[e].st # "none" /\ (row[e].st # "pending" \/ row[e].retry # "now") /\ tried' = tried
    BY <1>5 DEF RowLeaseLapses, BackoffEnds, PruneSent, Prunable
  <2>2. \E r : row' = [row EXCEPT ![e] = r]
    BY <1>5 DEF RowLeaseLapses, BackoffEnds, PruneSent, TInv, RowsOK
  <2> QED
    BY <2>1, <2>2, KeepsOne, HeldWasTried DEF TInv
<1>6. ASSUME NEW e \in Replies, ForceReplay(e)
      PROVE  tried \subseteq tried' /\ \A f \in Replies : Keeps(f)
  <2> DEFINE r == [NewRow EXCEPT !.gen = row[e].gen + 1]
  <2>1. row' = [row EXCEPT ![e] = r] /\ tried' = tried /\ row[e].st # "none"
    BY <1>6 DEF ForceReplay
  <2>2. r.st = "pending" /\ r.retry = "now"
    BY DEF NewRow
  <2> QED
    BY <2>1, <2>2, KeepsOne DEF TInv
<1>7. ASSUME NEW k \in Keys, ClaimLeaseLapses(k)
      PROVE  UNCHANGED <<row, tried>>
  BY <1>7 DEF ClaimLeaseLapses
<1> QED
  BY <1>1, <1>2, <1>3, <1>4, <1>5, <1>6, <1>7, KeepsSame DEF Next, Work, Trouble, Receives

LEMMA KeptWaits ==
  ASSUME WaitsPending, RowsInOrder, \A f \in Replies : Keeps(f), tried \subseteq tried',
         \A f \in Replies : row[f].st # "none" => row'[f].st # "none"
  PROVE  /\ \A e \in Replies : Waiting(e)' => Waiting(e)
         /\ WaitsPending' /\ RowsInOrder'
<1>1. \A e \in Replies : Waiting(e)' => Waiting(e)
  BY DEF Keeps, Waiting
<1>2. WaitsPending'
  BY <1>1 DEF WaitsPending, Waiting, Keeps
<1>3. RowsInOrder'
  BY DEF RowsInOrder, Keeps
<1> QED
  BY <1>1, <1>2, <1>3

\* A scan misses nothing that is due.
LEMMA ScannedIsAll ==
  ASSUME NEW b \in Bots, NEW s \in Scanned(b), NEW e \in Replies, IsDue(e), e \notin Range(lane[b])
  PROVE  \E i \in 1..Len(s) : s[i] = e
<1> DEFINE S == {f \in Replies : IsDue(f) /\ f \notin Range(lane[b])}
           n == Cardinality(S)
<1>1. IsFiniteSet(S) /\ n \in Nat
  <2>1. IsFiniteSet(Replies)
    BY FS_Interval, BoundsAssumption DEF Replies
  <2> QED
    BY <2>1, FS_Subset, FS_CardinalityType
<1>2. s \in [1..n -> S] /\ \A i, j \in 1..n : i # j => s[i] # s[j]
  BY DEF Scanned, SetToSeqs
<1>3. s \in Injection(1..n, S)
  BY <1>2 DEF Injection, IsInjective
<1>4. Cardinality(1..n) = Cardinality(S)
  BY <1>1, FS_Interval
<1> HIDE DEF S, n
<1>5. s \in Surjection(1..n, S)
  BY <1>1, <1>3, <1>4, FS_Injection
<1>6. e \in S /\ Len(s) = n
  BY <1>1, <1>2 DEF S
<1> QED
  BY <1>5, <1>6 DEF Surjection

LEMMA ScannedInOrder ==
  ASSUME NEW b \in Bots, NEW s \in Scanned(b), NEW i \in 1..Len(s), NEW j \in 1..Len(s),
         i < j, row[s[i]].retry = "now", row[s[j]].retry = "now"
  PROVE  s[i] < s[j]
BY DEF Scanned, ScanOrder

\* What a step other than a scan or a reception makes of a lane.
Shrinks(c) ==
    \/ /\ lane'[c] = lane[c]
       /\ job'[c].stage # "idle" => job[c].stage # "idle" \/ Head1(c) \in tried'
       /\ bot'[c] = "up" => bot[c] = "up"
    \/ /\ lane[c] # <<>> /\ lane'[c] = Tail(lane[c])
       /\ Head1(c) \in tried' /\ job'[c].stage = "idle"
       /\ bot'[c] = "up" => bot[c] = "up"
    \/ lane'[c] = <<>> /\ job'[c].stage = "idle" /\ bot'[c] # "up"

LEMMA ShrinksSame ==
  ASSUME NEW c \in Bots, lane'[c] = lane[c], job'[c] = job[c], bot'[c] = "up" => bot[c] = "up"
  PROVE  Shrinks(c)
BY DEF Shrinks

LEMMA ShrinksPopped ==
  ASSUME LanesOK, NEW b \in Bots, lane[b] # <<>>, Head1(b) \in tried', Pop(b), bot' = bot
  PROVE  \A c \in Bots : Shrinks(c)
<1>1. /\ lane'[b] = Tail(lane[b]) /\ job'[b].stage = "idle"
      /\ \A c \in Bots \ {b} : lane'[c] = lane[c] /\ job'[c] = job[c]
  BY DEF LanesOK, Pop, Idle
<1> QED
  BY <1>1, ShrinksSame DEF Shrinks

\* A worker that is busy stays so, or goes on.
LEMMA ShrinksBusy ==
  ASSUME LanesOK, NEW b \in Bots, job[b].stage # "idle", UNCHANGED <<lane, bot>>,
         \A c \in Bots \ {b} : job'[c] = job[c]
  PROVE  \A c \in Bots : Shrinks(c)
BY ShrinksSame DEF Shrinks

LEMMA LanesShrink ==
  ASSUME TInv, WaitInv, Next, tried \subseteq tried',
         \A b \in Bots : ~(Start(b) \/ Scan(b) \/ Receives(b))
  PROVE  \A c \in Bots : Shrinks(c)
<1> USE DEF TInv, WaitInv
<1>1. ASSUME NEW b \in Bots, Connect(b) \/ Disconnect(b)
      PROVE  \A c \in Bots : Shrinks(c)
  BY <1>1, ShrinksSame DEF Connect, Disconnect
<1>2. ASSUME NEW b \in Bots, ClaimRow(b)
      PROVE  \A c \in Bots : Shrinks(c)
  <2> DEFINE e == Head1(b)
  <2>0. lane[b] # <<>> /\ e \in Replies /\ bot' = bot
    BY <1>2, KeyIs DEF ClaimRow
  <2>1. CASE IsDue(e)
    <3>1. /\ tried' = tried \union {e} /\ lane' = lane
          /\ \A c \in Bots \ {b} : job'[c] = job[c]
      BY <1>2, <2>1 DEF ClaimRow, LanesOK
    <3> QED
      BY <2>0, <3>1, ShrinksSame DEF Shrinks
  <2>2. CASE ~IsDue(e)
    <3>1. e = lane[b][1] /\ lane[b] \in Seq(Replies) /\ 1 \in 1..Len(lane[b])
      BY <2>0 DEF Head1, LanesOK
    <3>2. row[e].st # "none"
      BY <3>1 DEF LanesHaveRows
    <3>3. e \in tried'
      BY <2>0, <2>2, <3>2 DEF WaitsPending, Waiting, IsDue
    <3> QED
      BY <1>2, <2>0, <2>2, <3>3, ShrinksPopped DEF ClaimRow
  <2> QED
    BY <2>1, <2>2
<1>3. ASSUME NEW b \in Bots,
             Acknowledge(b) \/ AcknowledgeFails(b) \/ MarkFailed(b) \/ MarkDeadLetter(b)
      PROVE  \A c \in Bots : Shrinks(c)
  <2>1. job[b].stage # "idle" /\ Pop(b) /\ bot' = bot
    BY <1>3 DEF Acknowledge, AcknowledgeFails, MarkFailed, MarkDeadLetter, WriteRow
  <2>2. lane[b] # <<>> /\ Head1(b) \in tried'
    BY <2>1, BusyIs DEF HeadsTried
  <2> QED
    BY <2>1, <2>2, ShrinksPopped
<1>4. ASSUME NEW b \in Bots,
             \/ Begin(b) \/ Wait(b) \/ SendAccepted(b) \/ SendUnknown(b) \/ SendRefused(b)
             \/ SendReset(b) \/ Commit(b) \/ CommitFails(b) \/ RaiseEarly(b)
      PROVE  \A c \in Bots : Shrinks(c)
  <2>1. job[b].stage # "idle" /\ bot' = bot
    BY <1>4 DEF Begin, Wait, SendAccepted, SendUnknown, SendRefused, SendReset, Commit, CommitFails,
       RaiseEarly
  <2>2. NextPart(b) \/ \E stage \in Stages : GoTo(b, stage)
    BY <1>4 DEF Begin, Wait, SendAccepted, SendUnknown, SendRefused, SendReset, Commit, CommitFails,
       RaiseEarly, Acquire, SettleClaim, Stages
  <2>3. lane' = lane /\ \A c \in Bots \ {b} : job'[c] = job[c]
    BY <2>2 DEF NextPart, GoTo, LanesOK
  <2> QED
    BY <2>1, <2>3, ShrinksBusy
<1>5. ASSUME NEW b \in Bots, Close(b) \/ Crash(b) \/ Stop(b)
      PROVE  \A c \in Bots : Shrinks(c)
  <2>1. \A c \in Bots \ {b} : lane'[c] = lane[c] /\ job'[c] = job[c] /\ bot'[c] = bot[c]
    BY <1>5 DEF Close, Crash, Stop, LanesOK
  <2>2. bot'[b] # "up"
    BY <1>5 DEF Close, Crash, Stop, LanesOK
  <2>3. \/ lane'[b] = lane[b] /\ job'[b] = job[b]
        \/ lane'[b] = <<>> /\ job'[b].stage = "idle"
    BY <1>5 DEF Close, Crash, Stop, LanesOK, Idle
  <2> QED
    BY <2>1, <2>2, <2>3, ShrinksSame DEF Shrinks
<1>6. ASSUME \/ \E e \in Replies : RowLeaseLapses(e) \/ BackoffEnds(e) \/ ForceReplay(e) \/ PruneSent(e)
             \/ \E k \in Keys : ClaimLeaseLapses(k)
      PROVE  \A c \in Bots : Shrinks(c)
  BY <1>6, ShrinksSame DEF RowLeaseLapses, BackoffEnds, ForceReplay, PruneSent, ClaimLeaseLapses,
     UnchangedProcess
<1> QED
  BY <1>1, <1>2, <1>3, <1>4, <1>5, <1>6 DEF Next, Work, Trouble, Receives

LEMMA ShrunkOrder ==
  ASSUME TInv, NEW c \in Bots, Shrinks(c), Ordered(lane[c]), tried \subseteq tried',
         \A e \in Replies : Waiting(e)' => Waiting(e)
  PROVE  Ordered(lane[c])'
<1>. PICK s : s = lane[c]
  OBVIOUS
<1>0. s \in Seq(Replies) /\ Len(s) \in Nat
  BY DEF TInv, LanesOK
<1>1. CASE lane'[c] = s
  BY <1>0, <1>1 DEF Ordered
<1>2. CASE s # <<>> /\ lane'[c] = Tail(s) /\ Head1(c) \in tried'
  <2>1. /\ Tail(s) \in Seq(Replies) /\ Len(Tail(s)) = Len(s) - 1
        /\ \A i \in 1..Len(Tail(s)) : Tail(s)[i] = s[i + 1]
    BY <1>0, <1>2
  <2>2. ASSUME NEW i \in 1..Len(Tail(s)), NEW f \in Replies,
               Waiting(Tail(s)[i])', Waiting(f)', f < Tail(s)[i]
        PROVE  \E j \in 1..Len(Tail(s)) : j < i /\ Tail(s)[j] = f
    <3>1. i + 1 \in 1..Len(s) /\ Tail(s)[i] = s[i + 1] /\ s[i + 1] \in Replies
      BY <1>0, <2>1
    <3>2. Waiting(s[i + 1])'
      BY <2>2, <3>1 DEF Waiting
    <3>3. PICK j \in 1..Len(s) : j < i + 1 /\ s[j] = f
      BY <2>2, <3>1, <3>2 DEF Ordered
    <3>4. j # 1
      BY <1>2, <2>2, <3>3 DEF Waiting, Head1
    <3>5. j - 1 \in 1..Len(Tail(s)) /\ j - 1 < i /\ Tail(s)[j - 1] = s[(j - 1) + 1] /\ (j - 1) + 1 = j
      BY <1>0, <2>1, <3>3, <3>4
    <3> QED
      BY <3>3, <3>5
  <2> QED
    BY <1>2, <2>2 DEF Ordered
<1>3. CASE lane'[c] = <<>>
  BY <1>3 DEF Ordered
<1> QED
  BY <1>1, <1>2, <1>3 DEF Shrinks

LEMMA ShrunkLane ==
  ASSUME TInv, WaitInv, NEW c \in Bots, Shrinks(c), tried \subseteq tried',
         \A e \in Replies : row[e].st # "none" => row'[e].st # "none"
  PROVE  /\ bot'[c] = "up" => bot[c] = "up"
         /\ job'[c].stage # "idle" => Head1(c)' \in tried'
         /\ \A i \in 1..Len(lane'[c]) : row'[lane'[c][i]].st # "none"
         /\ \A e \in Replies :
               e \in Range(lane[c]) /\ e \notin tried' /\ bot'[c] = "up" => e \in Range(lane'[c])
<1> DEFINE s == lane[c]
<1>0. s \in Seq(Replies) /\ Len(s) \in Nat /\ DOMAIN s = 1..Len(s)
  BY DEF TInv, LanesOK
<1>1. \A i \in 1..Len(s) : s[i] \in Replies /\ row'[s[i]].st # "none"
  BY <1>0 DEF WaitInv, LanesHaveRows
<1>2. CASE /\ lane'[c] = s
           /\ job'[c].stage # "idle" => job[c].stage # "idle" \/ Head1(c) \in tried'
           /\ bot'[c] = "up" => bot[c] = "up"
  BY <1>1, <1>2 DEF Head1, WaitInv, HeadsTried
<1>3. CASE /\ s # <<>> /\ lane'[c] = Tail(s) /\ Head1(c) \in tried' /\ job'[c].stage = "idle"
           /\ bot'[c] = "up" => bot[c] = "up"
  <2>1. /\ Tail(s) \in Seq(Replies) /\ Len(Tail(s)) = Len(s) - 1
        /\ DOMAIN Tail(s) = 1..Len(Tail(s))
        /\ \A i \in 1..Len(Tail(s)) : Tail(s)[i] = s[i + 1] /\ i + 1 \in 1..Len(s)
    BY <1>0, <1>3
  <2>2. ASSUME NEW e \in Replies, e \in Range(s), e \notin tried'
        PROVE  e \in Range(Tail(s))
    <3>1. PICK j \in 1..Len(s) : s[j] = e
      BY <1>0, <2>2 DEF Range
    <3>2. j # 1
      BY <1>3, <2>2, <3>1 DEF Head1
    <3>3. j - 1 \in 1..Len(Tail(s)) /\ Tail(s)[j - 1] = s[(j - 1) + 1] /\ (j - 1) + 1 = j
      BY <1>0, <2>1, <3>1, <3>2
    <3> QED
      BY <2>1, <3>1, <3>3 DEF Range
  <2> QED
    BY <1>1, <1>3, <2>1, <2>2
<1>4. CASE lane'[c] = <<>> /\ job'[c].stage = "idle" /\ bot'[c] # "up"
  BY <1>4
<1> QED
  BY <1>2, <1>3, <1>4 DEF Shrinks

\* What is queued behind a lane: nothing that waits is left out, and what
\* waits in it is in order.
LEMMA JoinedOrder ==
  ASSUME TInv, NEW b \in Bots, NEW s \in Scanned(b), WaitsPending, Ordered(lane[b])
  PROVE  /\ Ordered(lane[b] \o s)
         /\ \A e \in Replies : Waiting(e) => e \in Range(lane[b] \o s)
<1> DEFINE t == lane[b]
           u == t \o s
<1>1. /\ t \in Seq(Replies) /\ s \in Seq(Replies) /\ Len(t) \in Nat /\ Len(s) \in Nat
      /\ DOMAIN t = 1..Len(t)
  BY ScannedIs DEF TInv, LanesOK
<1>2. /\ Len(u) = Len(t) + Len(s) /\ DOMAIN u = 1..Len(u)
      /\ \A i \in 1..Len(t) : i \in 1..Len(u) /\ u[i] = t[i]
      /\ \A i \in 1..Len(s) : Len(t) + i \in 1..Len(u) /\ u[Len(t) + i] = s[i]
  BY <1>1
<1>3. \A e \in Replies : Waiting(e) => IsDue(e) /\ row[e].retry = "now"
  BY DEF WaitsPending, Waiting, IsDue
<1>4. ASSUME NEW e \in Replies, Waiting(e), e \notin Range(t)
      PROVE  \E i \in 1..Len(s) : s[i] = e
  BY <1>3, <1>4, ScannedIsAll
<1>5. ASSUME NEW e \in Replies, Waiting(e)
      PROVE  e \in Range(u)
  <2>1. CASE e \in Range(t)
    BY <1>1, <1>2, <2>1 DEF Range
  <2>2. CASE e \notin Range(t)
    BY <1>2, <1>4, <1>5, <2>2 DEF Range
  <2> QED
    BY <2>1, <2>2
<1>6. ASSUME NEW i \in 1..Len(u), NEW f \in Replies, Waiting(u[i]), Waiting(f), f < u[i]
      PROVE  \E j \in 1..Len(u) : j < i /\ u[j] = f
  <2>1. CASE i <= Len(t)
    <3>1. i \in 1..Len(t) /\ u[i] = t[i]
      BY <1>1, <1>2, <2>1
    <3>2. PICK j \in 1..Len(t) : j < i /\ t[j] = f
      BY <1>6, <3>1 DEF Ordered
    <3> QED
      BY <1>2, <3>2
  <2>2. CASE ~(i <= Len(t))
    <3>1. PICK k \in 1..Len(s) : i = Len(t) + k /\ u[i] = s[k]
      <4>1. i - Len(t) \in 1..Len(s) /\ i = Len(t) + (i - Len(t))
        BY <1>1, <1>2, <2>2
      <4> QED
        BY <1>2, <4>1
    <3>2. CASE f \in Range(t)
      <4>1. PICK j \in 1..Len(t) : t[j] = f
        BY <1>1, <3>2 DEF Range
      <4> QED
        BY <1>1, <1>2, <2>2, <4>1
    <3>3. CASE f \notin Range(t)
      <4>1. PICK j \in 1..Len(s) : s[j] = f
        BY <1>4, <1>6, <3>3
      <4>2. s[k] \in Replies /\ f < s[k] /\ Waiting(s[k])
        BY <1>1, <1>6, <3>1
      <4>3. row[s[k]].retry = "now" /\ row[s[j]].retry = "now"
        BY <1>3, <1>6, <4>1, <4>2
      <4>4. ~(k < j)
        BY <4>1, <4>2, <4>3, ScannedInOrder, BoundsAssumption DEF Replies
      <4>5. j < k
        <5>1. j # k
          BY <4>1, <4>2, BoundsAssumption DEF Replies
        <5> QED
          BY <1>1, <4>4, <5>1
      <4>6. Len(t) + j \in 1..Len(u) /\ u[Len(t) + j] = f /\ Len(t) + j < i
        BY <1>1, <1>2, <3>1, <4>1, <4>5
      <4> QED
        BY <4>6
    <3> QED
      BY <3>2, <3>3
  <2> QED
    BY <2>1, <2>2
<1> QED
  BY <1>5, <1>6 DEF Ordered

\* A reply is received: its row is new, or as it was.
LEMMA TakenRow ==
  ASSUME TInv, WaitsPending, RowsInOrder, NEW b \in Bots, NEW e \in Replies, Take(b, e),
         UNCHANGED tried, \A f \in Replies : f < e => row[f].st # "none"
  PROVE  /\ WaitsPending' /\ RowsInOrder'
         /\ \A f \in Replies : row[f].st # "none" => row'[f].st # "none"
         /\ \A f \in Replies : Waiting(f)' => Waiting(f) \/ (f = e /\ row[e].st = "none" /\ e \notin tried)
         /\ row[e].st = "none" /\ e \notin tried => row[e].retry = "now"
<1>1. row' = Enqueue(e)
  BY DEF Take
<1>2. row'[e].st # "none" /\ \A f \in Replies : row[f].st # "none" => row'[f].st # "none"
  BY <1>1, RowQueued DEF TInv, RowMove
<1>3. \A f \in Replies \ {e} : row'[f] = row[f]
  BY <1>1 DEF Enqueue, TInv, RowsOK
<1>4. row'[e] = row[e] \/ (row[e].st \in {"none", "pruned"} /\ row'[e] = NewRow)
  BY <1>1 DEF Enqueue, TInv, RowsOK
<1>5. WaitsPending'
  BY <1>3, <1>4 DEF WaitsPending, NewRow
<1>6. RowsInOrder'
  <2> SUFFICES ASSUME NEW g \in Replies, NEW f \in Replies, f < g, row'[g].st # "none"
               PROVE  row'[f].st # "none"
    BY DEF RowsInOrder
  <2>1. row[f].st # "none"
    BY <1>3 DEF RowsInOrder
  <2> QED
    BY <1>2, <2>1
<1>7. \A f \in Replies : Waiting(f)' => Waiting(f) \/ (f = e /\ row[e].st = "none" /\ e \notin tried)
  BY <1>3, <1>4 DEF Waiting, WaitsPending
<1> QED
  BY <1>2, <1>5, <1>6, <1>7 DEF WaitsPending

\* The row was put into the lane's queue, behind what is older.
LEMMA TakenOrder ==
  ASSUME TInv, WaitInv, NEW b \in Bots, NEW e \in Replies, Take(b, e),
         UNCHANGED tried, \A f \in Replies : f < e => row[f].st # "none",
         Ordered(lane[b]), \A f \in Replies : Waiting(f) => f \in Range(lane[b])
  PROVE  Ordered(lane[b])' /\ \A f \in Replies : Waiting(f)' => f \in Range(lane'[b])
<1>. PICK s : s = lane[b]
  OBVIOUS
<1>0. s \in Seq(Replies) /\ Len(s) \in Nat /\ DOMAIN s = 1..Len(s)
  BY DEF TInv, LanesOK
<1>1. /\ \A f \in Replies : Waiting(f)' => Waiting(f) \/ (f = e /\ row[e].st = "none" /\ e \notin tried)
      /\ row[e].st = "none" /\ e \notin tried => row[e].retry = "now"
  BY TakenRow DEF WaitInv
<1>2. \A i \in 1..Len(s) : s[i] \in Replies /\ row[s[i]].st # "none"
  BY <1>0 DEF WaitInv, LanesHaveRows
<1>3. row[e].st = "none" => e \notin Range(s) /\ \A i \in 1..Len(s) : ~(e < s[i])
  BY <1>0, <1>2 DEF WaitInv, RowsInOrder, Range
<1>4. CASE Submits(b, e)
  <2>1. /\ lane'[b] = Append(s, e) /\ e \notin Range(s)
    BY <1>4 DEF Take, Submits, TInv, LanesOK
  <2>2. /\ Len(Append(s, e)) = Len(s) + 1 /\ DOMAIN Append(s, e) = 1..(Len(s) + 1)
        /\ Append(s, e)[Len(s) + 1] = e
        /\ \A i \in 1..Len(s) : Append(s, e)[i] = s[i] /\ i \in 1..(Len(s) + 1)
    BY <1>0
  <2>3. ASSUME NEW f \in Replies, Waiting(f)'
        PROVE  f \in Range(Append(s, e))
    <3>1. CASE f = e
      <4>1. Len(s) + 1 \in DOMAIN Append(s, e)
        BY <1>0, <2>2
      <4> QED
        BY <2>2, <3>1, <4>1 DEF Range
    <3>2. CASE f # e
      <4>1. PICK i \in 1..Len(s) : s[i] = f
        BY <1>0, <1>1, <2>3, <3>2 DEF Range
      <4> QED
        BY <2>2, <4>1 DEF Range
    <3> QED
      BY <3>1, <3>2
  <2>4. ASSUME NEW i \in 1..(Len(s) + 1), NEW f \in Replies,
               Waiting(Append(s, e)[i])', Waiting(f)', f < Append(s, e)[i]
        PROVE  \E j \in 1..(Len(s) + 1) : j < i /\ Append(s, e)[j] = f
    <3>1. CASE i \in 1..Len(s)
      <4>1. Append(s, e)[i] = s[i] /\ s[i] \in Replies /\ s[i] # e
        BY <1>0, <1>2, <2>1, <2>2, <3>1 DEF Range
      <4>2. Waiting(s[i]) /\ Waiting(f)
        BY <1>1, <1>3, <2>4, <3>1, <4>1
      <4>3. PICK j \in 1..Len(s) : j < i /\ s[j] = f
        BY <2>4, <3>1, <4>1, <4>2 DEF Ordered
      <4> QED
        BY <2>2, <4>3
    <3>2. CASE i = Len(s) + 1
      <4>1. f < e /\ f # e
        BY <2>2, <2>4, <3>2, BoundsAssumption DEF Replies
      <4>2. PICK j \in 1..Len(s) : s[j] = f
        BY <1>0, <1>1, <2>4, <4>1 DEF Range
      <4> QED
        BY <1>0, <2>2, <3>2, <4>2
    <3> QED
      BY <1>0, <3>1, <3>2
  <2> QED
    BY <2>1, <2>2, <2>3, <2>4 DEF Ordered
<1>5. CASE ~Submits(b, e)
  <2>1. lane'[b] = s
    BY <1>5 DEF Take
  <2>2. \A f \in Replies : Waiting(f)' => Waiting(f)
    BY <1>1, <1>3, <1>5 DEF Submits
  <2> QED
    BY <1>0, <1>2, <2>1, <2>2 DEF Ordered
<1> QED
  BY <1>4, <1>5

LEMMA TakenLanes ==
  ASSUME TInv, WaitInv, NEW b \in Bots, NEW e \in Replies, Take(b, e), UNCHANGED <<tried, job>>,
         \A f \in Replies : row[f].st # "none" => row'[f].st # "none"
  PROVE  HeadsTried' /\ LanesHaveRows'
<1>1. row'[e].st # "none"
  BY RowQueued DEF TInv, Take
<1>2. \A c \in Bots : \A i \in 1..Len(lane[c]) : lane[c][i] \in Replies /\ row'[lane[c][i]].st # "none"
  BY DEF TInv, LanesOK, WaitInv, LanesHaveRows
<1>3. CASE lane' = lane
  BY <1>2, <1>3 DEF WaitInv, HeadsTried, LanesHaveRows, Head1
<1>4. CASE Submits(b, e)
  <2>1. \A c \in Bots \ {b} : lane'[c] = lane[c]
    BY <1>4 DEF Take, TInv, LanesOK
  <2>2. lane'[b] = Append(lane[b], e) /\ lane[b] \in Seq(Replies)
    BY <1>4 DEF Take, TInv, LanesOK
  <2>3. \A i \in 1..Len(lane'[b]) : lane'[b][i] = e \/ (i \in 1..Len(lane[b]) /\ lane'[b][i] = lane[b][i])
    BY <2>2
  <2>4. LanesHaveRows'
    BY <1>1, <1>2, <2>1, <2>3 DEF LanesHaveRows
  <2>5. lane[b] # <<>> => Head1(b)' = Head1(b)
    BY <2>2, AppendOf, <1>4 DEF Head1, Submits, TInv, LanesOK
  <2>6. HeadsTried'
    BY <2>1, <2>5, BusyIs DEF WaitInv, HeadsTried, Head1, TInv
  <2> QED
    BY <2>4, <2>6
<1> QED
  BY <1>3, <1>4 DEF Take

LEMMA NewStays ==
  ASSUME TInv, Next, NEW c \in Bots, bot'[c] = "new"
  PROVE  bot[c] = "new"
<1> USE DEF TInv, LanesOK
<1>1. ASSUME NEW b \in Bots, Start(b) \/ Close(b) \/ Crash(b) \/ Stop(b) PROVE bot[c] = "new"
  BY <1>1 DEF Start, Close, Crash, Stop
<1>2. ASSUME NEW b \in Bots, Scan(b) \/ Connect(b) \/ Receive(b) \/ ReceiveLosesCursor(b) \/ Disconnect(b)
             \/ ClaimRow(b) \/ Begin(b) \/ Wait(b) \/ SendAccepted(b) \/ Commit(b)
             \/ Acknowledge(b) \/ MarkFailed(b) \/ MarkDeadLetter(b) \/ RaiseEarly(b) \/ SendUnknown(b)
             \/ SendRefused(b) \/ SendReset(b) \/ CommitFails(b) \/ AcknowledgeFails(b)
      PROVE  bot' = bot
  BY <1>2 DEF Scan, Connect, Receive, ReceiveLosesCursor, Disconnect, ClaimRow, Begin, Wait, SendAccepted,
     Commit, Acknowledge, MarkFailed, MarkDeadLetter, RaiseEarly, SendUnknown, SendRefused, SendReset,
     CommitFails, AcknowledgeFails
<1>3. ASSUME \/ \E e \in Replies : RowLeaseLapses(e) \/ BackoffEnds(e) \/ ForceReplay(e) \/ PruneSent(e)
             \/ \E k \in Keys : ClaimLeaseLapses(k)
      PROVE  bot' = bot
  BY <1>3 DEF RowLeaseLapses, BackoffEnds, ForceReplay, PruneSent, ClaimLeaseLapses, UnchangedProcess
<1> QED
  BY <1>1, <1>2, <1>3 DEF Next, Work, Trouble

LEMMA ShrinkStep ==
  ASSUME TInv, WaitInv, OrderInv, Next, \A b \in Bots : ~(Start(b) \/ Scan(b) \/ Receives(b))
  PROVE  WaitInv' /\ OrderInv'
<1>1. tried \subseteq tried' /\ \A f \in Replies : Keeps(f)
  BY AllKeep DEF WaitInv
<1>2. \A f \in Replies : row[f].st # "none" => row'[f].st # "none"
  BY RowMoves DEF RowMove
<1>3. /\ \A e \in Replies : Waiting(e)' => Waiting(e)
      /\ WaitsPending' /\ RowsInOrder'
  BY <1>1, <1>2, KeptWaits DEF WaitInv
<1>4. \A c \in Bots : Shrinks(c)
  BY <1>1, LanesShrink
<1>5. \A c \in Bots :
         /\ bot'[c] = "up" => bot[c] = "up"
         /\ job'[c].stage # "idle" => Head1(c)' \in tried'
         /\ \A i \in 1..Len(lane'[c]) : row'[lane'[c][i]].st # "none"
         /\ \A e \in Replies :
               e \in Range(lane[c]) /\ e \notin tried' /\ bot'[c] = "up" => e \in Range(lane'[c])
  BY <1>1, <1>2, <1>4, ShrunkLane
<1>6. HeadsTried' /\ LanesHaveRows'
  BY <1>5 DEF HeadsTried, LanesHaveRows
<1>7. ASSUME Alone' PROVE Ordered(lane[1])' /\ Queued'
  <2>1. Ordered(lane[1]) /\ Queued
    BY <1>7, NewStays DEF Alone, OrderInv
  <2>2. Ordered(lane[1])'
    BY <1>1, <1>3, <1>4, <2>1, OneIsABot, ShrunkOrder
  <2>3. Queued'
    BY <1>3, <1>5, <2>1, OneIsABot DEF Queued, Waiting
  <2> QED
    BY <2>2, <2>3
<1> QED
  BY <1>3, <1>6, <1>7 DEF WaitInv, OrderInv

LEMMA ScanStep ==
  ASSUME TInv, WaitInv, OrderInv, NEW b \in Bots, Start(b) \/ Scan(b)
  PROVE  WaitInv' /\ OrderInv'
<1>1. row' = row /\ tried' = tried /\ job' = job
  BY DEF Start, Scan, UnchangedStores
<1>2. lane[b] \in Seq(Replies) /\ lane \in [Bots -> Seq(Replies)]
  BY DEF TInv, LanesOK
<1>3. PICK s \in Scanned(b) : lane' = [lane EXCEPT ![b] = lane[b] \o s]
  <2>1. CASE Scan(b)
    BY <2>1 DEF Scan
  <2>2. CASE Start(b)
    <3>1. lane[b] = <<>>
      BY <2>2 DEF Start, TInv, LanesOK, Running
    <3>2. PICK s \in Scanned(b) : lane' = [lane EXCEPT ![b] = s]
      BY <2>2 DEF Start
    <3>3. s \in Seq(Replies)
      BY ScannedIs
    <3>4. s = <<>> \o s
      BY <3>3
    <3> QED
      BY <3>1, <3>2, <3>4
  <2> QED
    BY <2>1, <2>2
<1>. PICK u : u = lane[b] \o s
  OBVIOUS
<1>4. /\ s \in Seq(Replies) /\ IsInjective(s) /\ IsInjective(lane[b])
      /\ \A i \in 1..Len(s) : row[s[i]].st # "none" /\ s[i] \notin Range(lane[b])
  BY ScannedIs DEF IsDue, TInv, LanesOK
<1>5. lane'[b] = u /\ \A c \in Bots \ {b} : lane'[c] = lane[c]
  BY <1>2, <1>3
<1>6. lane[b] # <<>> => u[1] = lane[b][1]
  BY <1>2, <1>4, JoinOf
<1>7. HeadsTried'
  BY <1>1, <1>5, <1>6, BusyIs DEF WaitInv, HeadsTried, Head1, TInv
<1>8. \A i \in 1..Len(u) : (\E j \in 1..Len(lane[b]) : u[i] = lane[b][j]) \/ (\E j \in 1..Len(s) : u[i] = s[j])
  <2> TAKE i \in 1..Len(u)
  <2>1. CASE i <= Len(lane[b])
    BY <1>2, <1>4, <2>1
  <2>2. CASE ~(i <= Len(lane[b]))
    <3>1. i - Len(lane[b]) \in 1..Len(s) /\ u[i] = s[i - Len(lane[b])]
      BY <1>2, <1>4, <2>2
    <3> QED
      BY <3>1
  <2> QED
    BY <2>1, <2>2
<1>9. LanesHaveRows'
  <2>1. \A c \in Bots : \A j \in 1..Len(lane[c]) : row[lane[c][j]].st # "none"
    BY DEF WaitInv, LanesHaveRows
  <2>2. \A i \in 1..Len(u) : row[u[i]].st # "none"
    BY <1>4, <1>8, <2>1
  <2> QED
    BY <1>1, <1>5, <2>1, <2>2 DEF LanesHaveRows
<1>10. WaitInv'
  BY <1>1, <1>7, <1>9 DEF WaitInv, WaitsPending, RowsInOrder
<1>11. ASSUME Alone' PROVE Ordered(lane[1])' /\ Queued'
  <2>1. b = 1 /\ Alone
    BY <1>11 DEF Alone, Start, Scan, TInv, LanesOK
  <2>2. Ordered(u) /\ \A e \in Replies : Waiting(e) => e \in Range(u)
    BY <2>1, JoinedOrder DEF OrderInv, WaitInv
  <2>3. lane'[1] = u /\ \A x : Waiting(x)' <=> Waiting(x)
    BY <1>1, <1>5, <2>1 DEF Waiting
  <2>4. Ordered(lane[1])'
    BY <2>2, <2>3 DEF Ordered
  <2>5. Queued'
    BY <2>2, <2>3 DEF Queued
  <2> QED
    BY <2>4, <2>5
<1> QED
  BY <1>10, <1>11 DEF OrderInv

LEMMA ReceiveStep ==
  ASSUME TInv, CursorInv, WaitInv, OrderInv, NEW b \in Bots, Receives(b)
  PROVE  WaitInv' /\ OrderInv'
<1>. PICK e : e = stream[b] + 1
  OBVIOUS
<1>1. Take(b, e) /\ e <= NReplies /\ UNCHANGED <<tried, job, bot>>
  BY DEF Receives, Receive, ReceiveLosesCursor, Take
<1>2. e \in Replies /\ stream[b] # Offline /\ stream[b] \in Nat
  BY <1>1, BoundsAssumption DEF TInv, LanesOK, Offline, Replies
<1>3. \A f \in Replies : f < e => row[f].st # "none"
  <2>1. stream[b] <= received /\ received \in Nat
    BY <1>2, BoundsAssumption DEF CursorInv, TInv, CountsOK
  <2>2. \A f \in Replies : f < e => f <= received
    BY <1>2, <2>1 DEF Replies
  <2> QED
    BY <2>2 DEF CursorInv, CursorBehindOutbox
<1>4. /\ WaitsPending' /\ RowsInOrder'
      /\ \A f \in Replies : row[f].st # "none" => row'[f].st # "none"
  BY <1>1, <1>2, <1>3, TakenRow DEF WaitInv
<1>5. HeadsTried' /\ LanesHaveRows'
  BY <1>1, <1>2, <1>4, TakenLanes
<1>6. ASSUME Alone' PROVE Ordered(lane[1])' /\ Queued'
  <2>1. b = 1 /\ Alone /\ bot[1] = "up"
    BY <1>1, <1>6 DEF Alone, Take
  <2>2. Ordered(lane[1]) /\ \A f \in Replies : Waiting(f) => f \in Range(lane[1])
    BY <2>1 DEF OrderInv, Queued
  <2>3. Ordered(lane[1])' /\ \A f \in Replies : Waiting(f)' => f \in Range(lane'[1])
    BY <1>1, <1>2, <1>3, <2>1, <2>2, TakenOrder
  <2> QED
    BY <2>3 DEF Queued
<1> QED
  BY <1>4, <1>5, <1>6 DEF WaitInv, OrderInv

LEMMA OrderStep ==
  ASSUME TInv, CursorInv, WaitInv, OrderInv, [Next]_vars
  PROVE  WaitInv' /\ OrderInv'
<1>1. CASE UNCHANGED vars
  BY <1>1 DEF vars, WaitInv, WaitsPending, HeadsTried, LanesHaveRows, RowsInOrder, OrderInv, Alone,
     Ordered, Queued, Waiting, Head1
<1> QED
  BY <1>1, ShrinkStep, ScanStep, ReceiveStep

\* The first attempt of a reply is a claim of the head of a lane.
LEMMA FirstAttempt ==
  ASSUME TInv, OrderInv, [Next]_vars, NEW e \in Replies, NEW f \in Replies,
         e \in tried' \ tried, f < e, row[f].st # "none", Alone
  PROVE  f \in tried
<1>1. ASSUME NEW b \in Bots, ClaimRow(b) PROVE f \in tried
  <2>1. IsDue(Head1(b)) /\ tried' = tried \union {Head1(b)} /\ lane[b] # <<>> /\ Running(b)
    BY <1>1 DEF ClaimRow
  <2>2. b = 1 /\ e = lane[1][1] /\ Waiting(e)
    BY <2>1 DEF Alone, Running, Head1, Waiting, IsDue
  <2>3. lane[1] \in Seq(Replies) /\ 1 \in 1..Len(lane[1])
    BY <2>1, <2>2, OneIsABot DEF TInv, LanesOK
  <2>4. Waiting(f) => \E j \in 1..Len(lane[1]) : j < 1
    BY <2>2, <2>3 DEF OrderInv, Ordered
  <2> QED
    BY <2>4 DEF Waiting
<1>2. CASE UNCHANGED tried
  BY <1>2
<1>3. ASSUME NEW b \in Bots,
             \/ Start(b) \/ Scan(b) \/ Connect(b) \/ Receive(b) \/ Begin(b) \/ Wait(b) \/ SendAccepted(b)
             \/ Commit(b) \/ Acknowledge(b) \/ MarkFailed(b) \/ MarkDeadLetter(b) \/ Stop(b) \/ Trouble(b)
      PROVE  UNCHANGED tried
  BY <1>3 DEF Start, Scan, Connect, Receive, Begin, Wait, SendAccepted, Commit, Acknowledge, MarkFailed,
     MarkDeadLetter, Stop, Trouble, RaiseEarly, SendUnknown, SendRefused, SendReset, CommitFails,
     AcknowledgeFails, Disconnect, ReceiveLosesCursor, Close, Crash, UnchangedStores
<1>4. ASSUME \/ \E g \in Replies : RowLeaseLapses(g) \/ BackoffEnds(g) \/ ForceReplay(g) \/ PruneSent(g)
             \/ \E k \in Keys : ClaimLeaseLapses(k)
      PROVE  UNCHANGED tried
  BY <1>4 DEF RowLeaseLapses, BackoffEnds, ForceReplay, PruneSent, ClaimLeaseLapses
<1> QED
  BY <1>1, <1>2, <1>3, <1>4 DEF Next, Work, vars

(* As long as only one process ever ran, the replies of a conversation are    *)
(* first tried in the order of the event log, whether they come from the      *)
(* stream or from a scan, and however the process crashes in between.         *)
THEOREM TriedInOrder == Spec => FirstAttemptsInOrder
<1>1. Init => CursorInv /\ WaitInv /\ OrderInv
  <2>1. ASSUME Init PROVE CursorInv
    BY <2>1, BoundsAssumption DEF Init, CursorInv, CursorBehindOutbox, Replies
  <2>2. ASSUME Init PROVE WaitInv
    BY <2>2, BoundsAssumption DEF Init, WaitInv, WaitsPending, HeadsTried, LanesHaveRows, RowsInOrder,
       NewRow, Idle, Replies
  <2>3. ASSUME Init PROVE OrderInv
    BY <2>3, OneIsABot DEF Init, OrderInv, Ordered, Queued, Waiting, NewRow
  <2> QED
    BY <2>1, <2>2, <2>3
<1>2. TInv /\ CursorInv /\ WaitInv /\ OrderInv /\ [Next]_vars
         => TInv' /\ CursorInv' /\ WaitInv' /\ OrderInv'
  BY TypeStep, CursorStep, OrderStep
<1>3. TInv /\ OrderInv /\ [Next]_vars
         => [\A e \in Replies, f \in Replies :
               /\ e \in tried' \ tried /\ f < e /\ row[f].st # "none"
               /\ \A b \in Bots \ {1} : bot[b] = "new"
               => f \in tried]_vars
  BY FirstAttempt DEF Alone
<1> QED
  BY <1>1, <1>2, <1>3, TypeInit, PTL DEF Spec, FirstAttemptsInOrder

=============================================================================
