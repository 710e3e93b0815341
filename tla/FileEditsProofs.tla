-------------------------- MODULE FileEditsProofs ---------------------------
(* For any number of tasks, calls, sessions and programs outside the ledger:  *)
(* two tasks that may still write never edit the file at the same time, an    *)
(* edit against a stamp replaces only versions its task knows, and the work   *)
(* of a task that may still write is kept from all but those it dispatched.   *)
EXTENDS FileEdits, TLAPS

Shared == [version : Versions \cup {Nothing}, seen : Nat, merged : Nat]
Stamps == [version : Versions \cup {Nothing}, seen : Nat]
Call == [task : Tasks \cup {NoTask}, phase : Phases, entry : Versions \cup {Nothing},
         foreign : BOOLEAN, fresh : BOOLEAN, base : Versions \cup {Nothing}]

-----------------------------------------------------------------------------
(* Claims.                                                                    *)

\* Tools of one task run one after the other.
OneAtATime ==
  \A c, d \in Calls : Busy(c) /\ Busy(d) /\ call[c].task = call[d].task => c = d

\* Only a worker makes calls: no queued, suspended or handed-back task does.
CallsOfWorkers ==
  \A c \in Calls : Busy(c) => /\ call[c].task \in Tasks
                              /\ status[call[c].task] \in {"running", "stopping", "over"}

\* A read has read a version.
ReadsRead == \A c \in Calls : call[c].phase = "reading" => call[c].base \in Versions

\* Claims are taken one after the other, and not before the task exists.
ClaimsInOrder ==
  /\ \A t \in Tasks : since[t] <= now
  /\ \A t, u \in Tasks : since[t] # 0 /\ since[t] = since[u] => t = u
  /\ \A t \in Tasks : status[t] = "unborn" => since[t] = 0

\* A task that may still write and has the file open is its deepest holder.
OpenIsDeepest ==
  \A c \in Calls :
    LET t == call[c].task
    IN Open(c) /\ StillWriting(t)
       => /\ since[t] # 0
          /\ \A u \in Tasks : u # t /\ StillWriting(u) /\ since[u] # 0 => since[u] < since[t]

Claimed == TypeOK /\ OneAtATime /\ CallsOfWorkers /\ ReadsRead /\ ClaimsInOrder /\ OpenIsDeepest

-----------------------------------------------------------------------------
(* What merging a layer can leave in the session layer.                       *)
LEMMA MergedIs ==
  ASSUME TypeOK, NEW gone \in SUBSET Tasks, NEW at \in [Tasks -> Nat], NEW s \in Sessions
  PROVE  \/ MergedInto(s, gone, at) = shared[s]
         \/ \E t \in gone :
              /\ SessionOf[t] = s /\ stamp[t] # NoStamp
              /\ MergedInto(s, gone, at) = [version |-> stamp[t].version, seen |-> stamp[t].seen,
                                        merged |-> MergedAt(t, at[t])]
<1> DEFINE layers == {t \in gone : SessionOf[t] = s /\ stamp[t] # NoStamp}
           newest == {t \in layers : /\ \A u \in layers : stamp[u].seen <= stamp[t].seen
                                     /\ shared[s].seen <= stamp[t].seen}
<1>1. CASE newest = {}
  BY <1>1 DEF MergedInto
<1>2. CASE newest # {}
  <2>1. PICK t \in newest : t = CHOOSE u \in newest : TRUE
    BY <1>2
  <2>2. MergedInto(s, gone, at) = [version |-> stamp[t].version, seen |-> stamp[t].seen,
                               merged |-> MergedAt(t, at[t])]
    BY <1>2, <2>1 DEF MergedInto
  <2>3. QED
    BY <2>1, <2>2
<1>3. QED
  BY <1>1, <1>2

LEMMA MergedType ==
  ASSUME TypeOK, NEW gone \in SUBSET Tasks, NEW at \in [Tasks -> Nat]
  PROVE  /\ Merged(gone, at) \in [Sessions -> Shared]
         /\ Unlayered(gone) \in [Tasks -> Stamps]
<1>1. \A s \in Sessions : MergedInto(s, gone, at) \in Shared
  <2>1. TAKE s \in Sessions
  <2>2. shared[s] \in Shared
    BY DEF TypeOK, Shared
  <2>3. ASSUME NEW t \in gone
        PROVE  [version |-> stamp[t].version, seen |-> stamp[t].seen,
                merged |-> MergedAt(t, at[t])] \in Shared
    <3>1. stamp[t] \in Stamps /\ at[t] \in Nat
      BY DEF TypeOK, Stamps
    <3>2. stamp[t].version \in Versions \cup {Nothing} /\ stamp[t].seen \in Nat
      BY <3>1 DEF Stamps
    <3>3. MergedAt(t, at[t]) \in Nat
      BY <3>1, <3>2 DEF MergedAt
    <3>4. QED
      BY <3>2, <3>3 DEF Shared
  <2>4. \/ MergedInto(s, gone, at) = shared[s]
        \/ \E t \in gone : MergedInto(s, gone, at)
              = [version |-> stamp[t].version, seen |-> stamp[t].seen,
                 merged |-> MergedAt(t, at[t])]
    BY MergedIs
  <2>5. QED
    BY <2>2, <2>3, <2>4
<1>2. Merged(gone, at) \in [Sessions -> Shared]
  BY <1>1 DEF Merged
<1>3. Unlayered(gone) \in [Tasks -> Stamps]
  BY DEF Unlayered, TypeOK, Stamps, NoStamp
<1>4. QED
  BY <1>2, <1>3

-----------------------------------------------------------------------------
(* Types.                                                                     *)

\* A change of one task, or of the tasks a dispatch creates.
LEMMA TaskStepType ==
  ASSUME TypeOK, now' \in Nat,
         status' \in [Tasks -> Status], caller' \in [Tasks -> Tasks \cup {NoTask}],
         created' \in [Tasks -> Nat], ended' \in [Tasks -> Nat],
         inherited' \in [Tasks -> SUBSET Versions],
         UNCHANGED <<ledger, call, disk>>
  PROVE  TypeOK'
BY DEF TypeOK, ledger, disk, Busy, Versions

\* A move of one call that is not in the lock before or after.
LEMMA CallStepType ==
  ASSUME TypeOK, NEW c \in Calls, now' \in Nat,
         call[c].phase \notin {"holding", "replacing"},
         NEW g \in Call, g.phase \notin {"holding", "replacing"},
         call' = [call EXCEPT ![c] = g],
         since' \in [Tasks -> Nat], stamp' \in [Tasks -> Stamps],
         shared' \in [Sessions -> Shared], recorded' \in [Tasks -> SUBSET Versions],
         UNCHANGED <<tasks, disk>>
  PROVE  TypeOK'
<1>1. call' \in [Calls -> Call]
  BY DEF TypeOK, Call
<1>2. \A d \in Calls : call'[d].phase \in {"holding", "replacing"} <=> lock' = d
  BY DEF TypeOK, disk
<1>3. QED
  BY <1>1, <1>2 DEF TypeOK, tasks, disk, Call, Stamps, Shared

\* The phase of a call moves; the lock goes with it.
LEMMA LockStepType ==
  ASSUME TypeOK, NEW c \in Calls, NEW g \in Call,
         call' = [call EXCEPT ![c] = g],
         \/ g.phase \in {"holding", "replacing"} /\ lock \in {c, NoCall} /\ lock' = c
         \/ /\ g.phase \notin {"holding", "replacing"} /\ lock = c /\ lock' = NoCall,
         file' \in Versions,
         UNCHANGED <<tasks, ledger, outsiders, now>>
  PROVE  TypeOK'
<1>1. call' \in [Calls -> Call]
  BY DEF TypeOK, Call
<1>2. \A d \in Calls : call'[d].phase \in {"holding", "replacing"} <=> lock' = d
  BY DistinctAssumption DEF TypeOK
<1>3. lock' \in Calls \cup {NoCall}
  OBVIOUS
<1>4. QED
  BY <1>1, <1>2, <1>3 DEF TypeOK, tasks, ledger, Call

\* Moving the phase of a call is replacing its record.
LEMMA MovesIs ==
  ASSUME TypeOK, NEW c \in Calls, NEW phase \in Phases, Moves(c, phase)
  PROVE  \E g \in Call : /\ g.phase = phase /\ g = [call[c] EXCEPT !.phase = phase]
                         /\ call' = [call EXCEPT ![c] = g]
<1>1. call[c] \in Call
  BY DEF TypeOK, Call
<1>2. [call[c] EXCEPT !.phase = phase] \in Call
  BY <1>1 DEF Call
<1>3. [call[c] EXCEPT !.phase = phase].phase = phase
  BY <1>1 DEF Call
<1>4. QED
  BY <1>2, <1>3 DEF Moves

LEMMA RecordType ==
  ASSUME TypeOK, NEW t \in Tasks, NEW v \in Versions, Record(t, v)
  PROVE  /\ now' \in Nat /\ since' \in [Tasks -> Nat] /\ stamp' \in [Tasks -> Stamps]
         /\ shared' \in [Sessions -> Shared] /\ recorded' \in [Tasks -> SUBSET Versions]
<1>1. now' \in Nat /\ [version |-> v, seen |-> now'] \in Stamps
  BY DEF TypeOK, Record, Stamps
<1>2. stamp' \in [Tasks -> Stamps]
  BY <1>1 DEF TypeOK, Record, Stamps
<1>3. QED
  BY <1>1, <1>2 DEF TypeOK, Record, Shared

LEMMA TypeStep ==
  ASSUME Claimed, Next
  PROVE  TypeOK'
<1>1. TypeOK /\ now + 1 \in Nat
  BY DEF Claimed, TypeOK
<1>2. \A t \in Tasks : Told(t) \in SUBSET Versions
  <2>1. TAKE t \in Tasks
  <2>2. \A u \in Tasks : recorded[u] \subseteq Versions
    BY <1>1 DEF TypeOK
  <2>3. Decided \subseteq Tasks
    BY DEF Decided
  <2>4. QED
    BY <2>2, <2>3 DEF Told
<1>3. ASSUME NEW t \in Tasks, Start(t) PROVE TypeOK'
  <2>1. /\ now' \in Nat /\ status' \in [Tasks -> Status]
        /\ caller' \in [Tasks -> Tasks \cup {NoTask}] /\ created' \in [Tasks -> Nat]
        /\ ended' \in [Tasks -> Nat] /\ inherited' \in [Tasks -> SUBSET Versions]
    BY <1>1, <1>2, <1>3 DEF TypeOK, Start, Create, Status
  <2>2. QED
    BY <1>1, <1>3, <2>1, TaskStepType DEF Start
<1>4. ASSUME NEW t \in Tasks, NEW kids \in SUBSET Tasks, Dispatch(t, kids) PROVE TypeOK'
  <2>1. /\ now' \in Nat /\ status' \in [Tasks -> Status]
        /\ caller' \in [Tasks -> Tasks \cup {NoTask}] /\ created' \in [Tasks -> Nat]
        /\ ended' \in [Tasks -> Nat] /\ inherited' \in [Tasks -> SUBSET Versions]
    BY <1>1, <1>2, <1>4 DEF TypeOK, Dispatch, Create, Status
  <2>2. QED
    BY <1>1, <1>4, <2>1, TaskStepType DEF Dispatch
<1>5. ASSUME NEW t \in Tasks, HandBack(t) \/ Resume(t) \/ StopEnds(t) PROVE TypeOK'
  <2>1. status' \in [Tasks -> Status]
    BY <1>1, <1>5 DEF TypeOK, HandBack, Resume, StopEnds, Status
  <2>2. QED
    BY <1>1, <1>5, <2>1, TaskStepType DEF HandBack, Resume, StopEnds, TypeOK
<1>6. ASSUME NEW t \in Tasks, Finish(t) \/ Fail(t) \/ CalledOff(t) PROVE TypeOK'
  <2>1. PICK to \in {"stopping", "over"} : Ends(t, to)
    BY <1>6 DEF Finish, Fail, CalledOff
  <2>2. now' \in Nat /\ status' \in [Tasks -> Status] /\ ended' \in [Tasks -> Nat]
    BY <1>1, <2>1 DEF TypeOK, Ends, Status
  <2>3. QED
    BY <1>1, <2>1, <2>2, TaskStepType DEF Ends, TypeOK
<1>7. ASSUME NEW t \in Tasks, Crash(t) PROVE TypeOK'
  <2>1. \A c \in Calls : [call[c] EXCEPT !.phase = "done"] \in Call
    <3>1. \A c \in Calls : call[c] \in Call
      BY <1>1 DEF TypeOK, Call
    <3>2. QED
      BY <3>1 DEF Call, Phases
  <2>2. call' \in [Calls -> Call]
    BY <1>1, <1>7, <2>1 DEF TypeOK, Crash, Call
  <2>3. \A c \in Calls : /\ call'[c].phase = IF call[c].task = t /\ Busy(c) THEN "done"
                                             ELSE call[c].phase
                         /\ call'[c].task = call[c].task
    BY <1>1, <1>7, <2>1 DEF TypeOK, Crash, Call
  <2>4. \A c \in Calls : call'[c].phase \in {"holding", "replacing"} <=> lock' = c
    <3>1. TAKE c \in Calls
    <3>2. CASE call[c].task = t /\ Busy(c)
      BY <1>1, <1>7, <2>3, <3>2, DistinctAssumption DEF TypeOK, Crash
    <3>3. CASE ~(call[c].task = t /\ Busy(c))
      <4>1. call'[c].phase = call[c].phase
        BY <2>3, <3>3
      <4>2. lock = c => Busy(c) /\ call[c].task # t
        BY <1>1, <3>3 DEF TypeOK, Busy
      <4>3. lock' = c <=> lock = c
        BY <1>7, <4>2, DistinctAssumption DEF Crash
      <4>4. QED
        BY <1>1, <4>1, <4>3 DEF TypeOK
    <3>4. QED
      BY <3>2, <3>3
  <2>5. lock' \in Calls \cup {NoCall}
    BY <1>1, <1>7 DEF TypeOK, Crash
  <2>6. QED
    BY <1>1, <1>7, <2>2, <2>4, <2>5 DEF TypeOK, Crash, tasks, ledger, Call
<1>8. /\ Merged(Over, ended) \in [Sessions -> Shared]
      /\ Unlayered(Over) \in [Tasks -> Stamps]
  BY <1>1, MergedType DEF TypeOK, Over
<1>9. ASSUME NEW t \in Tasks, Release(t) PROVE TypeOK'
  <2>1. [u \in Tasks |-> now'] \in [Tasks -> Nat]
    BY <1>1, <1>9 DEF Release
  <2>2. shared' \in [Sessions -> Shared] /\ stamp' \in [Tasks -> Stamps]
    BY <1>1, <1>9, <2>1, MergedType DEF Release
  <2>3. QED
    BY <1>1, <1>9, <2>2 DEF TypeOK, Release, tasks, disk, Shared, Stamps
<1>10. CASE BeginRefused
  <2>1. since' \in [Tasks -> Nat]
    BY <1>1, <1>10 DEF TypeOK, BeginRefused
  <2>2. QED
    BY <1>1, <1>8, <1>10, <2>1 DEF TypeOK, BeginRefused, Sweep, tasks, disk, Shared, Stamps
<1>11. ASSUME NEW c \in Calls, NEW t \in Tasks, Begin(c, t) PROVE TypeOK'
  <2>1. since' \in [Tasks -> Nat] /\ now' \in Nat
    <3>1. now' \in Nat /\ since \in [Tasks -> Nat]
      BY <1>1, <1>11 DEF Begin, TypeOK
    <3>2. CASE since' = [u \in Tasks |-> IF u \in Over THEN 0 ELSE since[u]]
      BY <3>1, <3>2
    <3>3. CASE since' = [u \in Tasks |-> IF u = t THEN now'
                                        ELSE IF u \in Over THEN 0 ELSE since[u]]
      BY <3>1, <3>3
    <3>4. QED
      BY <1>11, <3>1, <3>2, <3>3 DEF Begin
  <2>2. shared' \in [Sessions -> Shared] /\ stamp' \in [Tasks -> Stamps]
    BY <1>8, <1>11 DEF Begin, Sweep
  <2>3. Entry(t) \in Versions \cup {Nothing}
    <3>1. shared'[SessionOf[t]] \in Shared
      BY <2>2, SessionsAssumption
    <3>2. shared'[SessionOf[t]].version \in Versions \cup {Nothing}
      BY <3>1 DEF Shared
    <3>3. stamp[t].version \in Versions \cup {Nothing}
      BY <1>1 DEF TypeOK
    <3>4. QED
      BY <3>2, <3>3 DEF Entry
  <2>4. Foreign(t) \in BOOLEAN /\ (~Holds(t)) \in BOOLEAN
    <3>1. shared'[SessionOf[t]] \in Shared /\ created[t] \in Nat
      BY <1>1, <2>2, SessionsAssumption DEF TypeOK
    <3>2. (shared'[SessionOf[t]].merged > created[t]) \in BOOLEAN
      BY <3>1 DEF Shared
    <3>3. Foreign(t) \in BOOLEAN
      BY <3>2, Zenon DEF Foreign
    <3>4. (~Holds(t)) \in BOOLEAN
      BY Zenon
    <3>5. QED
      BY <3>3, <3>4
  <2>5. [task |-> t, phase |-> "granted", entry |-> Entry(t), foreign |-> Foreign(t),
         fresh |-> ~Holds(t), base |-> Nothing] \in Call
    BY <2>3, <2>4 DEF Call, Phases
  <2>6. QED
    BY <1>1, <1>11, <2>1, <2>2, <2>5, CallStepType DEF Begin, TypeOK
<1>12. ASSUME NEW c \in Calls, NEW t \in Tasks, ReadFile(c, t) PROVE TypeOK'
  <2>1. [NoGrant EXCEPT !.task = t, !.phase = "reading", !.base = file] \in Call
    BY <1>1 DEF Call, Phases, NoGrant, TypeOK
  <2>2. [NoGrant EXCEPT !.task = t, !.phase = "reading", !.base = file].phase = "reading"
    BY DEF NoGrant
  <2>3. QED
    BY <1>1, <1>12, <2>1, <2>2, CallStepType DEF ReadFile, ledger, TypeOK, Stamps, Shared
<1>13. ASSUME NEW c \in Calls, RecordRead(c) \/ FinishEdit(c) PROVE TypeOK'
  <2>1. PICK g \in Call : g.phase = "done" /\ call' = [call EXCEPT ![c] = g]
    BY <1>1, <1>13, MovesIs DEF RecordRead, FinishEdit, Phases
  <2>2. call[c].phase \notin {"holding", "replacing"} /\ call[c].task \in Tasks
    BY <1>13 DEF RecordRead, FinishEdit, Claimed, CallsOfWorkers, Busy
  <2>3. /\ now' \in Nat /\ since' \in [Tasks -> Nat] /\ stamp' \in [Tasks -> Stamps]
        /\ shared' \in [Sessions -> Shared] /\ recorded' \in [Tasks -> SUBSET Versions]
    <3>1. CASE UNCHANGED <<ledger, now>>
      BY <1>1, <3>1 DEF TypeOK, ledger, Stamps, Shared
    <3>2. CASE RecordRead(c) /\ Record(call[c].task, call[c].base)
      <4>1. call[c].base \in Versions
        BY <3>2 DEF RecordRead, Claimed, ReadsRead
      <4>2. QED
        BY <1>1, <2>2, <3>2, <4>1, RecordType
    <3>3. CASE Record(call[c].task, c)
      BY <1>1, <2>2, <3>3, RecordType DEF Versions
    <3>4. QED
      BY <1>13, <3>1, <3>2, <3>3 DEF RecordRead, FinishEdit
  <2>4. QED
    BY <1>1, <1>13, <2>1, <2>2, <2>3, CallStepType DEF RecordRead, FinishEdit
<1>14. ASSUME NEW c \in Calls, GiveUp(c) \/ AbandonEdit(c) PROVE TypeOK'
  <2>1. PICK g \in Call : g.phase \in {"failing", "done"} /\ call' = [call EXCEPT ![c] = g]
    BY <1>1, <1>14, MovesIs DEF GiveUp, AbandonEdit, Phases
  <2>2. now' \in Nat /\ since' \in [Tasks -> Nat]
    BY <1>1, <1>14 DEF TypeOK, GiveUp, AbandonEdit, ledger
  <2>3. QED
    BY <1>1, <1>14, <2>1, <2>2, CallStepType
    DEF GiveUp, AbandonEdit, ledger, TypeOK, Stamps, Shared
<1>15. ASSUME NEW c \in Calls, Lock(c) PROVE TypeOK'
  <2>1. CASE Stale(c) /\ Moves(c, "failing") /\ UNCHANGED lock
    <3>1. PICK g \in Call : g.phase = "failing" /\ call' = [call EXCEPT ![c] = g]
      BY <1>1, <2>1, MovesIs DEF Phases
    <3>2. QED
      BY <1>1, <1>15, <2>1, <3>1, CallStepType DEF Lock, ledger, disk, TypeOK, Stamps, Shared
  <2>2. CASE lock' = c /\ call' = [call EXCEPT ![c].phase = "holding", ![c].base = file]
    <3> DEFINE g == [call[c] EXCEPT !.phase = "holding", !.base = file]
    <3>1. g \in Call /\ g.phase = "holding" /\ call' = [call EXCEPT ![c] = g]
      BY <1>1, <2>2, ZenonT(60) DEF TypeOK, Call, Phases
    <3>2. lock = NoCall /\ file' \in Versions /\ UNCHANGED <<tasks, ledger, outsiders, now>>
      BY <1>1, <1>15 DEF Lock, TypeOK
    <3> HIDE DEF g
    <3>3. QED
      BY <1>1, <2>2, <3>1, <3>2, LockStepType
  <2>3. QED
    BY <1>15, <2>1, <2>2 DEF Lock
<1>16. ASSUME NEW c \in Calls, Compare(c) \/ Replace(c) \/ DiskError(c) PROVE TypeOK'
  <2>1. PICK g \in Call : /\ call' = [call EXCEPT ![c] = g]
                          /\ \/ g.phase = "replacing" /\ lock' = lock
                             \/ g.phase \in {"written", "failing"} /\ lock' = NoCall
    BY <1>1, <1>16, MovesIs DEF Compare, Replace, DiskError, Phases
  <2>2. lock = c
    BY <1>1, <1>16 DEF Compare, Replace, DiskError, TypeOK
  <2>3. file' \in Versions /\ UNCHANGED <<tasks, ledger, outsiders, now>>
    BY <1>1, <1>16 DEF Compare, Replace, DiskError, TypeOK, Versions
  <2>4. QED
    BY <1>1, <2>1, <2>2, <2>3, LockStepType
<1>17. ASSUME NEW o \in Outsiders, WriteOutside(o) PROVE TypeOK'
  BY <1>1, <1>17 DEF WriteOutside, TypeOK, tasks, ledger, Versions
<1>18. QED
  BY <1>3, <1>4, <1>5, <1>6, <1>7, <1>9, <1>10, <1>11, <1>12, <1>13, <1>14, <1>15, <1>16, <1>17
  DEF Next

-----------------------------------------------------------------------------
(* Claims and calls.                                                          *)

Calling == OneAtATime /\ CallsOfWorkers /\ ReadsRead /\ ClaimsInOrder /\ OpenIsDeepest

\* A task moves on; no call and no claim does.
LEMMA TaskStepClaims ==
  ASSUME Claimed, now' \in {now, now + 1}, UNCHANGED <<call, since>>,
         \A t \in Tasks : status'[t] = "unborn" => status[t] = "unborn",
         \A t \in Tasks : status[t] = "over" => status'[t] = "over",
         \A t \in Tasks : status[t] \in {"running", "stopping"}
                          => Idle(t) \/ status'[t] \in {"running", "stopping", "over"}
  PROVE  Calling'
<1>1. TypeOK /\ OneAtATime /\ CallsOfWorkers /\ ReadsRead /\ ClaimsInOrder /\ OpenIsDeepest
  BY DEF Claimed
<1>2. \A c \in Calls : (Busy(c)' <=> Busy(c)) /\ (Open(c)' <=> Open(c))
  BY DEF Busy, Open
<1>3. OneAtATime' /\ ReadsRead'
  BY <1>1, <1>2 DEF OneAtATime, ReadsRead
<1>4. CallsOfWorkers'
  BY <1>1, <1>2 DEF CallsOfWorkers, Idle
<1>5. ClaimsInOrder'
  BY <1>1 DEF ClaimsInOrder, TypeOK
<1>6. OpenIsDeepest'
  <2>1. SUFFICES ASSUME NEW c \in Calls, Open(c)', StillWriting(call[c].task)'
                 PROVE  LET t == call[c].task
                        IN /\ since[t] # 0
                           /\ \A u \in Tasks : u # t /\ StillWriting(u)' /\ since[u] # 0
                                               => since[u] < since[t]
    BY DEF OpenIsDeepest
  <2>2. Open(c) /\ Busy(c) /\ call[c].task \in Tasks
    BY <1>1, <1>2, <2>1 DEF CallsOfWorkers, Open, Busy
  <2>3. StillWriting(call[c].task)
    BY <1>1, <2>1, <2>2 DEF CallsOfWorkers, StillWriting
  <2>4. \A u \in Tasks : StillWriting(u)' /\ since[u] # 0 => StillWriting(u)
    BY <1>1 DEF StillWriting, ClaimsInOrder
  <2>5. QED
    BY <1>1, <2>2, <2>3, <2>4 DEF OpenIsDeepest
<1>7. QED
  BY <1>3, <1>4, <1>5, <1>6 DEF Calling

\* Calls move on or end, and claims are dropped that no task needs any more.
LEMMA CallStepClaims ==
  ASSUME Claimed, now' \in {now, now + 1}, UNCHANGED status,
         \A c \in Calls : /\ call'[c].task = call[c].task
                          /\ Busy(c)' => Busy(c)
                          /\ Open(c)' => Open(c)
                          /\ call'[c].phase = "reading" => call'[c] = call[c],
         \A t \in Tasks : \/ since'[t] = since[t]
                          \/ /\ since'[t] = 0
                             /\ \/ status[t] = "over"
                                \/ \A c \in Calls : call[c].task = t => ~Open(c)'
  PROVE  Calling'
<1>1. TypeOK /\ OneAtATime /\ CallsOfWorkers /\ ReadsRead /\ ClaimsInOrder /\ OpenIsDeepest
  BY DEF Claimed
<1>2. OneAtATime' /\ ReadsRead'
  BY <1>1 DEF OneAtATime, ReadsRead
<1>3. CallsOfWorkers'
  BY <1>1 DEF CallsOfWorkers
<1>4. ClaimsInOrder'
  BY <1>1 DEF ClaimsInOrder, TypeOK
<1>5. OpenIsDeepest'
  <2>1. SUFFICES ASSUME NEW c \in Calls, Open(c)', StillWriting(call[c].task)
                 PROVE  LET t == call[c].task
                        IN /\ since'[t] # 0
                           /\ \A u \in Tasks : u # t /\ StillWriting(u) /\ since'[u] # 0
                                               => since'[u] < since'[t]
    BY DEF OpenIsDeepest, StillWriting
  <2>2. Open(c) /\ call[c].task \in Tasks /\ status[call[c].task] # "over"
    BY <1>1, <2>1 DEF CallsOfWorkers, Open, Busy, StillWriting
  <2>3. since'[call[c].task] = since[call[c].task]
    BY <2>1, <2>2
  <2>4. \A u \in Tasks : since'[u] # 0 => since'[u] = since[u]
    OBVIOUS
  <2>5. QED
    BY <1>1, <2>1, <2>2, <2>3, <2>4 DEF OpenIsDeepest
<1>6. QED
  BY <1>2, <1>3, <1>4, <1>5 DEF Calling

\* One call begins, for a task that had none.
LEMMA NewCallClaims ==
  ASSUME Claimed, TypeOK', now' \in {now, now + 1}, UNCHANGED status,
         NEW c \in Calls, NEW t \in Tasks, NEW g, call' = [call EXCEPT ![c] = g],
         g.task = t, g.phase \in {"reading", "granted"},
         g.phase = "reading" => g.base \in Versions,
         call[c].phase = "idle", Idle(t), status[t] \in {"running", "stopping"},
         \A u \in Tasks \ {t} : since'[u] = since[u] \/ (since'[u] = 0 /\ status[u] = "over"),
         since'[t] \in {since[t], now'} /\ (since'[t] = now' => now' = now + 1 \/ since'[t] = since[t]),
         g.phase = "granted" =>
           /\ since'[t] # 0
           /\ \A u \in Tasks : u # t /\ StillWriting(u) /\ since'[u] # 0 => since'[u] < since'[t],
         since'[t] # since[t] =>
           \A d \in Calls : ~(Open(d) /\ StillWriting(call[d].task))
  PROVE  Calling'
<1>1. TypeOK /\ OneAtATime /\ CallsOfWorkers /\ ReadsRead /\ ClaimsInOrder /\ OpenIsDeepest
  BY DEF Claimed
<1>2. call'[c] = g /\ \A d \in Calls \ {c} : call'[d] = call[d]
  BY <1>1 DEF TypeOK
<1>3. \A d \in Calls \ {c} : (Busy(d)' <=> Busy(d)) /\ (Open(d)' <=> Open(d))
  BY <1>2 DEF Busy, Open
<1>4. OneAtATime'
  BY <1>1, <1>2, <1>3 DEF OneAtATime, Idle
<1>5. CallsOfWorkers' /\ ReadsRead'
  BY <1>1, <1>2, <1>3 DEF CallsOfWorkers, ReadsRead
<1>6. ClaimsInOrder'
  <2>1. \A u \in Tasks : since[u] \in Nat /\ since'[u] \in Nat /\ now \in Nat /\ now' \in Nat
    BY <1>1 DEF TypeOK
  <2>2. \A u \in Tasks : since'[u] <= now'
    BY <1>1, <2>1 DEF ClaimsInOrder
  <2>3. \A u, v \in Tasks : since'[u] # 0 /\ since'[u] = since'[v] => u = v
    <3>1. SUFFICES ASSUME NEW u \in Tasks, since'[u] # 0, since'[u] = since'[t]
                   PROVE  u = t
      BY <1>1 DEF ClaimsInOrder
    <3>2. CASE since'[t] = since[t]
      BY <1>1, <3>1, <3>2 DEF ClaimsInOrder
    <3>3. CASE since'[t] # since[t]
      <4>1. since'[t] = now + 1
        BY <3>3
      <4>2. u # t => since'[u] <= now
        BY <1>1, <2>1, <3>1 DEF ClaimsInOrder
      <4>3. QED
        BY <2>1, <3>1, <4>1, <4>2
    <3>4. QED
      BY <3>2, <3>3
  <2>4. \A u \in Tasks : status'[u] = "unborn" => since'[u] = 0
    BY <1>1 DEF ClaimsInOrder
  <2>5. QED
    BY <2>2, <2>3, <2>4 DEF ClaimsInOrder
<1>7. OpenIsDeepest'
  <2>1. SUFFICES ASSUME NEW d \in Calls, Open(d)', StillWriting(call'[d].task)
                 PROVE  LET v == call'[d].task
                        IN /\ since'[v] # 0
                           /\ \A u \in Tasks : u # v /\ StillWriting(u) /\ since'[u] # 0
                                               => since'[u] < since'[v]
    BY DEF OpenIsDeepest, StillWriting
  <2>2. CASE d = c
    BY <1>2, <2>1, <2>2 DEF Open
  <2>3. CASE d # c
    <3>1. Open(d) /\ Busy(d) /\ call'[d] = call[d] /\ call[d].task \in Tasks
      BY <1>1, <1>2, <1>3, <2>1, <2>3 DEF Open, Busy, CallsOfWorkers
    <3>2. call[d].task # t
      BY <3>1 DEF Idle
    <3>3. since'[t] = since[t]
      BY <2>1, <3>1
    <3>4. since'[call[d].task] = since[call[d].task]
      BY <2>1, <3>1, <3>2 DEF StillWriting
    <3>5. \A u \in Tasks : since'[u] # 0 => since'[u] = since[u]
      BY <3>3
    <3>6. QED
      BY <1>1, <2>1, <3>1, <3>4, <3>5 DEF OpenIsDeepest
  <2>4. QED
    BY <2>2, <2>3
<1>8. QED
  BY <1>4, <1>5, <1>6, <1>7 DEF Calling

\* A claim is granted only while no task that may still write has the file open.
LEMMA NewClaimFindsItClosed ==
  ASSUME Claimed, NEW t \in Tasks, MayClaim(t)
  PROVE  \A d \in Calls : ~(Open(d) /\ StillWriting(call[d].task))
<1>1. SUFFICES ASSUME NEW d \in Calls, Open(d), StillWriting(call[d].task) PROVE FALSE
  OBVIOUS
<1> DEFINE v == call[d].task
<1>2. v \in Tasks /\ status[v] \in {"running", "stopping", "over"}
  BY <1>1 DEF Claimed, CallsOfWorkers, Open, Busy
<1>3. /\ since[v] # 0
      /\ \A u \in Tasks : u # v /\ StillWriting(u) /\ since[u] # 0 => since[u] < since[v]
  BY <1>1 DEF Claimed, OpenIsDeepest
<1>4. v \in Holders
  BY <1>1, <1>2, <1>3 DEF Holders
<1>5. PICK h \in Tasks : Deepest(h) /\ status[h] = "suspended"
  BY <1>4 DEF MayClaim
<1>6. h # v
  BY <1>2, <1>5
<1>7. since[v] <= since[h] /\ since[h] < since[v]
  BY <1>3, <1>4, <1>5, <1>6 DEF Deepest, Holders
<1>8. since[v] \in Nat /\ since[h] \in Nat
  BY <1>2 DEF Claimed, TypeOK
<1>9. QED
  BY <1>7, <1>8

LEMMA ClaimStep ==
  ASSUME Claimed, TypeOK', Next
  PROVE  Calling'
<1>1. TypeOK /\ OneAtATime /\ CallsOfWorkers /\ ReadsRead /\ ClaimsInOrder /\ OpenIsDeepest
  BY DEF Claimed
<1>2. now \in Nat /\ call \in [Calls -> Call]
  BY <1>1 DEF TypeOK, Call
<1>3. ASSUME NEW t \in Tasks, Start(t) \/ \E kids \in SUBSET Tasks : Dispatch(t, kids)
      PROVE  Calling'
  <2>1. /\ \A u \in Tasks : status'[u] = "unborn" => status[u] = "unborn"
        /\ \A u \in Tasks : status[u] = "over" => status'[u] = "over"
        /\ \A u \in Tasks : status[u] \in {"running", "stopping"} => status'[u] = status[u]
    BY <1>1, <1>3 DEF Start, Dispatch, TypeOK
  <2>2. now' \in {now, now + 1} /\ UNCHANGED <<call, since>>
    BY <1>3 DEF Start, Dispatch, ledger
  <2>3. QED
    BY <2>1, <2>2, TaskStepClaims
<1>4. ASSUME NEW t \in Tasks,
             HandBack(t) \/ Resume(t) \/ StopEnds(t) \/ Finish(t) \/ Fail(t) \/ CalledOff(t)
      PROVE  Calling'
  <2>1. now' \in {now, now + 1} /\ UNCHANGED <<call, since>>
    BY <1>4 DEF HandBack, Resume, StopEnds, Finish, Fail, CalledOff, Ends, ledger
  <2>2. \A u \in Tasks \ {t} : status'[u] = status[u]
    BY <1>1, <1>4 DEF HandBack, Resume, StopEnds, Finish, Fail, CalledOff, Ends, TypeOK
  <2>3. /\ status'[t] # "unborn" /\ status[t] # "over"
        /\ status[t] \in {"running", "stopping"} => Idle(t) \/ status'[t] \in {"stopping", "over"}
    BY <1>1, <1>4 DEF HandBack, Resume, StopEnds, Finish, Fail, CalledOff, Ends, TypeOK
  <2>4. QED
    BY <2>1, <2>2, <2>3, TaskStepClaims
<1>5. ASSUME NEW t \in Tasks, Crash(t) PROVE Calling'
  <2>1. \A c \in Calls : call'[c] = IF call[c].task = t /\ Busy(c)
                                    THEN [call[c] EXCEPT !.phase = "done"] ELSE call[c]
    BY <1>5 DEF Crash
  <2>2. \A c \in Calls : /\ call'[c].task = call[c].task
                         /\ Busy(c)' => Busy(c)
                         /\ Open(c)' => Open(c)
                         /\ call'[c].phase = "reading" => call'[c] = call[c]
    BY <1>2, <2>1 DEF Busy, Open, Call
  <2>3. QED
    BY <1>5, <2>2, CallStepClaims DEF Crash, tasks, ledger
<1>6. ASSUME BeginRefused \/ \E t \in Tasks : Release(t) PROVE Calling'
  <2>1. \A u \in Tasks : since'[u] = since[u] \/ (since'[u] = 0 /\ status[u] = "over")
    <3>1. CASE BeginRefused
      BY <3>1 DEF BeginRefused, Over
    <3>2. ASSUME NEW t \in Tasks, Release(t)
          PROVE  \A u \in Tasks : since'[u] = since[u] \/ (since'[u] = 0 /\ status[u] = "over")
      BY <1>1, <3>2 DEF Release, TypeOK
    <3>3. QED
      BY <1>6, <3>1, <3>2
  <2>2. now' \in {now, now + 1} /\ UNCHANGED <<status, call>>
    BY <1>6 DEF Release, BeginRefused, tasks
  <2>3. QED
    BY <2>1, <2>2, CallStepClaims DEF Busy, Open
<1>7. ASSUME NEW c \in Calls,
             GiveUp(c) \/ Lock(c) \/ Compare(c) \/ Replace(c) \/ DiskError(c)
               \/ FinishEdit(c) \/ RecordRead(c)
      PROVE  Calling'
  <2>1. /\ now' \in {now, now + 1} /\ UNCHANGED <<status, since>>
        /\ \A d \in Calls \ {c} : call'[d] = call[d]
    BY <1>2, <1>7
    DEF GiveUp, Lock, Compare, Replace, DiskError, FinishEdit, RecordRead, Moves, Record, tasks, ledger
  <2>2. /\ call'[c].task = call[c].task
        /\ \/ call'[c].phase = "done" /\ call[c].phase # "idle"
           \/ /\ call[c].phase \in {"granted", "holding", "replacing"}
              /\ call'[c].phase \in {"holding", "replacing", "written", "failing"}
    BY <1>2, <1>7
    DEF GiveUp, Lock, Compare, Replace, DiskError, FinishEdit, RecordRead, Moves, Call
  <2>3. \A d \in Calls : /\ call'[d].task = call[d].task
                         /\ Busy(d)' => Busy(d)
                         /\ Open(d)' => Open(d)
                         /\ call'[d].phase = "reading" => call'[d] = call[d]
    BY <2>1, <2>2 DEF Busy, Open
  <2>4. QED
    BY <2>1, <2>3, CallStepClaims
<1>8. ASSUME NEW c \in Calls, AbandonEdit(c) PROVE Calling'
  <2>1. /\ UNCHANGED <<now, status>>
        /\ \A d \in Calls \ {c} : call'[d] = call[d]
        /\ call'[c].phase = "done" /\ call'[c].task = call[c].task /\ call[c].phase = "failing"
    BY <1>2, <1>8 DEF AbandonEdit, Moves, tasks, Call
  <2>2. \A d \in Calls : /\ call'[d].task = call[d].task
                         /\ Busy(d)' => Busy(d)
                         /\ Open(d)' => Open(d)
                         /\ call'[d].phase = "reading" => call'[d] = call[d]
    BY <2>1 DEF Busy, Open
  <2>3. \A d \in Calls : call[d].task = call[c].task => ~Open(d)'
    BY <1>1, <2>1, <2>2 DEF OneAtATime, Busy, Open
  <2>4. \A u \in Tasks : since'[u] = since[u] \/ (u = call[c].task /\ since'[u] = 0)
    <3>1. since' = since \/ since' = [since EXCEPT ![call[c].task] = 0]
      BY <1>8 DEF AbandonEdit
    <3>2. since \in [Tasks -> Nat]
      BY <1>1 DEF TypeOK
    <3>3. QED
      BY <3>1, <3>2
  <2>5. QED
    BY <2>1, <2>2, <2>3, <2>4, CallStepClaims
<1>9. ASSUME NEW c \in Calls, NEW t \in Tasks, ReadFile(c, t) PROVE Calling'
  <2> DEFINE g == [NoGrant EXCEPT !.task = t, !.phase = "reading", !.base = file]
  <2>1. g.task = t /\ g.phase = "reading" /\ g.base \in Versions
    BY <1>1 DEF NoGrant, TypeOK
  <2>2. /\ call' = [call EXCEPT ![c] = g] /\ UNCHANGED <<now, status, since>>
        /\ call[c].phase = "idle" /\ Idle(t) /\ status[t] \in {"running", "stopping"}
    BY <1>9 DEF ReadFile, tasks, ledger
  <2> HIDE DEF g
  <2>3. /\ now' \in {now, now + 1} /\ since'[t] \in {since[t], now'} /\ since'[t] = since[t]
        /\ \A u \in Tasks \ {t} : since'[u] = since[u] \/ (since'[u] = 0 /\ status[u] = "over")
        /\ g.phase \in {"reading", "granted"} /\ g.phase # "granted"
    BY <2>1, <2>2
  <2>4. QED
    BY <2>1, <2>2, <2>3, NewCallClaims
<1>10. ASSUME NEW c \in Calls, NEW t \in Tasks, Begin(c, t) PROVE Calling'
  <2> DEFINE g == [task |-> t, phase |-> "granted", entry |-> Entry(t), foreign |-> Foreign(t),
                   fresh |-> ~Holds(t), base |-> Nothing]
  <2>1. g.task = t /\ g.phase = "granted"
    OBVIOUS
  <2>2. /\ call' = [call EXCEPT ![c] = g] /\ now' = now + 1 /\ UNCHANGED status
        /\ call[c].phase = "idle" /\ Idle(t) /\ status[t] \in {"running", "stopping"}
    BY <1>10 DEF Begin, tasks
  <2> HIDE DEF g
  <2>3. \A u \in Tasks \ {t} : since'[u] = since[u] \/ (since'[u] = 0 /\ status[u] = "over")
    <3>1. \/ since' = [u \in Tasks |-> IF u \in Over THEN 0 ELSE since[u]]
          \/ since' = [u \in Tasks |-> IF u = t THEN now' ELSE IF u \in Over THEN 0 ELSE since[u]]
      BY <1>10 DEF Begin
    <3>2. QED
      BY <3>1 DEF Over
  <2>4. t \notin Over
    BY <2>2 DEF Over
  <2>5. \A u \in Tasks : since[u] \in Nat /\ since[u] <= now
    BY <1>1 DEF TypeOK, ClaimsInOrder
  <2>6. /\ since'[t] # 0
        /\ \A u \in Tasks : u # t /\ StillWriting(u) /\ since'[u] # 0 => since'[u] < since'[t]
    <3>1. CASE Holds(t)
      <4>1. since'[t] = since[t] /\ since[t] # 0
        BY <1>10, <2>4, <3>1 DEF Begin, Holds, Deepest, Holders
      <4>2. ASSUME NEW u \in Tasks, u # t, StillWriting(u), since'[u] # 0
            PROVE  since'[u] < since'[t]
        <5>1. since'[u] = since[u] /\ u \in Holders
          BY <2>3, <4>2 DEF Holders
        <5>2. since[u] <= since[t] /\ since[u] # since[t]
          BY <1>1, <3>1, <4>1, <4>2, <5>1 DEF Holds, Deepest, ClaimsInOrder
        <5>3. QED
          BY <2>5, <4>1, <5>1, <5>2
      <4>3. QED
        BY <4>1, <4>2
    <3>2. CASE ~Holds(t)
      <4>1. since'[t] = now + 1
        BY <1>10, <3>2 DEF Begin
      <4>2. QED
        BY <1>2, <2>3, <2>5, <4>1
    <3>3. QED
      BY <3>1, <3>2
  <2>7. since'[t] \in {since[t], now'}
    BY <1>10, <2>4 DEF Begin
  <2>8. since'[t] # since[t] => \A d \in Calls : ~(Open(d) /\ StillWriting(call[d].task))
    <3>1. since'[t] # since[t] => MayClaim(t)
      BY <1>10, <2>4 DEF Begin
    <3>2. QED
      BY <3>1, NewClaimFindsItClosed
  <2>9. QED
    BY <2>1, <2>2, <2>3, <2>6, <2>7, <2>8, NewCallClaims
<1>11. ASSUME NEW o \in Outsiders, WriteOutside(o) PROVE Calling'
  BY <1>11, CallStepClaims DEF WriteOutside, tasks, ledger, Busy, Open
<1>12. QED
  BY <1>3, <1>4, <1>5, <1>6, <1>7, <1>8, <1>9, <1>10, <1>11 DEF Next

(* The inductive invariant of the claims holds in every reachable state: a   *)
(* path is held by a chain of callers and the one task that works below it.  *)
THEOREM ClaimsAlways == Spec => []Claimed
<1>1. Init => Claimed
  <2> USE DEF Init, NoStamp, NoShared, NoGrant
  <2>1. Init => TypeOK
    BY DistinctAssumption DEF TypeOK, Versions, Status, Phases
  <2>2. Init => OneAtATime /\ CallsOfWorkers /\ ReadsRead /\ ClaimsInOrder /\ OpenIsDeepest
    BY DEF OneAtATime, CallsOfWorkers, ReadsRead, ClaimsInOrder, OpenIsDeepest, Busy, Open
  <2>3. QED
    BY <2>1, <2>2 DEF Claimed
<1>2. Claimed /\ [Next]_vars => Claimed'
  <2>1. CASE Claimed /\ Next
    BY <2>1, TypeStep, ClaimStep DEF Claimed, Calling
  <2>2. CASE Claimed /\ UNCHANGED vars
    BY <2>2 DEF vars, Claimed, TypeOK, OneAtATime, CallsOfWorkers, ReadsRead, ClaimsInOrder,
                OpenIsDeepest, Busy, Open, StillWriting
  <2>3. QED
    BY <2>1, <2>2
<1>3. QED
  BY <1>1, <1>2, PTL DEF Spec

\* The records of claims, stamps and calls keep their types, and edit_lock is
\* with the call that is between its snapshot and its write.
THEOREM TypeCorrect == Spec => []TypeOK
<1>1. Claimed => TypeOK
  BY DEF Claimed
<1>2. QED
  BY <1>1, ClaimsAlways, PTL

\* No two tasks that may still write have the file open for editing together.
THEOREM EditsExcludeEachOther == Spec => []ExclusiveEditing
<1>1. Claimed => ExclusiveEditing
  <2>1. SUFFICES ASSUME Claimed, NEW c \in Calls, NEW d \in Calls,
                        Open(c), StillWriting(call[c].task),
                        Open(d), StillWriting(call[d].task),
                        call[c].task # call[d].task
                 PROVE  FALSE
    BY DEF ExclusiveEditing
  <2>2. call[c].task \in Tasks /\ call[d].task \in Tasks
    BY <2>1 DEF Claimed, CallsOfWorkers, Open, Busy
  <2>3. since[call[c].task] < since[call[d].task] /\ since[call[d].task] < since[call[c].task]
    BY <2>1, <2>2 DEF Claimed, OpenIsDeepest
  <2>4. since[call[c].task] \in Nat /\ since[call[d].task] \in Nat
    BY <2>1, <2>2 DEF Claimed, TypeOK
  <2>5. QED
    BY <2>3, <2>4
<1>2. QED
  BY <1>1, ClaimsAlways, PTL


-----------------------------------------------------------------------------
(* What is known of the file: no edit against a stamp is blind.               *)

\* Times of birth lie in the past.
BornBefore == \A t \in Tasks : created[t] <= now

\* A task's own stamp is a version that was recorded under it.
StampsRecorded == \A t \in Tasks : stamp[t] # NoStamp => stamp[t].version \in recorded[t]

\* A layer that could be merged without looking foreign to t was there, decided
\* and complete, when t began: t has inherited it.
LayersTold ==
  \A u \in Decided, t \in Tasks :
    /\ status[t] # "unborn" /\ SessionOf[u] = SessionOf[t] /\ stamp[u] # NoStamp
    /\ ended[u] <= created[t] /\ stamp[u].seen <= created[t]
    => stamp[u].version \in inherited[t]

\* So has it what the session layer already holds, unless it came in later.
SharedTold ==
  \A t \in Tasks :
    LET layer == shared[SessionOf[t]]
    IN status[t] # "unborn" /\ layer.version # Nothing /\ layer.merged <= created[t]
       => layer.version \in inherited[t]

\* The session layer holds what a decided task of the session recorded.
SharedFromDecided ==
  \A s \in Sessions :
    shared[s].version # Nothing
    => \E u \in Decided : SessionOf[u] = s /\ shared[s].version \in recorded[u]

StampInv == BornBefore /\ StampsRecorded /\ LayersTold /\ SharedTold /\ SharedFromDecided

\* The gate lets an edit against a stamp pass only for a version its task knows.
EntryKnown(c) ==
  Open(c) /\ call[c].entry # Nothing /\ ~call[c].foreign
  => call[c].entry \in Known(call[c].task)
BaseGated(c) ==
  /\ call[c].phase \in {"holding", "replacing"}
  /\ call[c].entry # Nothing /\ call[c].base # Absent
  => call[c].base = call[c].entry /\ ~call[c].foreign

\* Between the last comparison and the replacement only outsiders write.
FileKept(c) == call[c].phase = "replacing" => file \in {call[c].base, Absent} \cup Outsiders

GateOf(c) == EntryKnown(c) /\ BaseGated(c) /\ FileKept(c)
GateInv == \A c \in Calls : GateOf(c)

-----------------------------------------------------------------------------
(* Who wrote last: live work is kept.                                         *)

\* What an edit left on the disk is the work of a call that was made.
WrittenByCall ==
  file \in Calls => /\ call[file].phase \in {"written", "done"}
                    /\ call[file].task \in Tasks /\ status[call[file].task] # "unborn"

\* Whoever wrote last and may still write has kept its claim.
WriterHolds ==
  file \in Calls /\ StillWriting(call[file].task) => since[call[file].task] # 0

\* A claim that goes back with its edit is older than no write of its task.
FreshIsFirst ==
  \A c \in Calls :
    /\ Open(c) /\ call[c].fresh
    /\ file \in Calls /\ file # c /\ StillWriting(call[file].task)
    => call[file].task # call[c].task

\* The holders are a chain of callers: each works below those before it.
HoldersNest ==
  \A t, u \in Holders : since[u] < since[t] => Under(t, u)

UnbornIsAlone == \A t \in Tasks : status[t] = "unborn" => caller[t] = NoTask

WorkInv == WrittenByCall /\ WriterHolds /\ FreshIsFirst /\ HoldersNest /\ UnbornIsAlone

-----------------------------------------------------------------------------
(* The stamps through each kind of step.                                      *)

\* Tasks are created: they are told what decided tasks of the session recorded.
LEMMA BirthStamps ==
  ASSUME TypeOK, StampInv, NEW new \in SUBSET Tasks, NEW parent, Create(new, parent),
         now' = now + 1, UNCHANGED <<ended, ledger>>, Decided' = Decided,
         \A t \in Tasks \ new : status'[t] = "unborn" <=> status[t] = "unborn"
  PROVE  StampInv'
<1>1. BornBefore /\ StampsRecorded /\ LayersTold /\ SharedTold /\ SharedFromDecided
  BY DEF StampInv
<1>2. /\ UNCHANGED <<since, stamp, shared, recorded>>
      /\ \A t \in new : created'[t] = now + 1 /\ inherited'[t] = Told(t)
      /\ \A t \in Tasks \ new : created'[t] = created[t] /\ inherited'[t] = inherited[t]
  BY DEF Create, ledger
<1>3. BornBefore'
  BY <1>1, <1>2 DEF BornBefore, TypeOK
<1>4. StampsRecorded' /\ SharedFromDecided'
  BY <1>1, <1>2 DEF StampsRecorded, SharedFromDecided
<1>5. ASSUME NEW u \in Decided, NEW t \in new, SessionOf[u] = SessionOf[t]
      PROVE  recorded[u] \subseteq inherited'[t]
  BY <1>2, <1>5 DEF Told, Decided
<1>6. LayersTold'
  <2>1. SUFFICES ASSUME NEW u \in Decided, NEW t \in Tasks,
                        status'[t] # "unborn", SessionOf[u] = SessionOf[t], stamp[u] # NoStamp,
                        ended[u] <= created'[t], stamp[u].seen <= created'[t]
                 PROVE  stamp[u].version \in inherited'[t]
    BY <1>2 DEF LayersTold
  <2>2. CASE t \in new
    BY <1>1, <1>5, <2>1, <2>2 DEF StampsRecorded, Decided
  <2>3. CASE t \notin new
    BY <1>1, <1>2, <2>1, <2>3 DEF LayersTold
  <2>4. QED
    BY <2>2, <2>3
<1>7. SharedTold'
  <2>1. SUFFICES ASSUME NEW t \in Tasks, status'[t] # "unborn",
                        shared[SessionOf[t]].version # Nothing,
                        shared[SessionOf[t]].merged <= created'[t]
                 PROVE  shared[SessionOf[t]].version \in inherited'[t]
    BY <1>2 DEF SharedTold
  <2>2. CASE t \in new
    <3>1. PICK u \in Decided : /\ SessionOf[u] = SessionOf[t]
                               /\ shared[SessionOf[t]].version \in recorded[u]
      BY <1>1, <2>1, SessionsAssumption DEF SharedFromDecided
    <3>2. QED
      BY <1>5, <2>2, <3>1
  <2>3. CASE t \notin new
    BY <1>1, <1>2, <2>1, <2>3 DEF SharedTold
  <2>4. QED
    BY <2>2, <2>3
<1>8. QED
  BY <1>3, <1>4, <1>6, <1>7 DEF StampInv

\* Tasks move on; one that is decided now is decided later than any task began.
LEMMA MoveStamps ==
  ASSUME TypeOK, StampInv, UNCHANGED <<created, inherited, ledger>>,
         now' \in {now, now + 1}, Decided \subseteq Decided',
         \A t \in Tasks : status'[t] = "unborn" <=> status[t] = "unborn",
         \A u \in Decided' : (u \in Decided /\ ended'[u] = ended[u]) \/ ended'[u] = now + 1
  PROVE  StampInv'
<1>1. BornBefore /\ StampsRecorded /\ LayersTold /\ SharedTold /\ SharedFromDecided
  BY DEF StampInv
<1>2. UNCHANGED <<since, stamp, shared, recorded>>
  BY DEF ledger
<1>3. BornBefore' /\ StampsRecorded'
  BY <1>1, <1>2 DEF BornBefore, StampsRecorded, TypeOK
<1>4. LayersTold'
  <2>1. SUFFICES ASSUME NEW u \in Decided', NEW t \in Tasks,
                        status'[t] # "unborn", SessionOf[u] = SessionOf[t], stamp[u] # NoStamp,
                        ended'[u] <= created[t], stamp[u].seen <= created[t]
                 PROVE  stamp[u].version \in inherited[t]
    BY <1>2 DEF LayersTold
  <2>2. created[t] < now + 1
    BY <1>1 DEF BornBefore, TypeOK
  <2>3. now \in Nat /\ created[t] \in Nat
    BY DEF TypeOK
  <2>4. u \in Decided /\ ended'[u] = ended[u]
    BY <2>1, <2>2, <2>3
  <2>5. QED
    BY <1>1, <2>1, <2>4 DEF LayersTold
<1>5. SharedTold'
  BY <1>1, <1>2 DEF SharedTold
<1>6. SharedFromDecided'
  BY <1>1, <1>2 DEF SharedFromDecided
<1>7. QED
  BY <1>3, <1>4, <1>5, <1>6 DEF StampInv

\* Layers of decided tasks are merged: late ones look foreign to every task.
LEMMA SweepStamps ==
  ASSUME TypeOK, StampInv, UNCHANGED <<tasks, recorded>>, now' \in {now, now + 1},
         NEW gone \in SUBSET Decided, NEW at \in [Tasks -> Nat],
         shared' = Merged(gone, at), stamp' = Unlayered(gone),
         \A u \in gone : at[u] \in {ended[u], now + 1}
  PROVE  StampInv'
<1>1. BornBefore /\ StampsRecorded /\ LayersTold /\ SharedTold /\ SharedFromDecided
  BY DEF StampInv
<1>2. UNCHANGED <<status, created, ended, inherited, recorded>> /\ Decided' = Decided
  BY DEF tasks, Decided
<1>3. gone \in SUBSET Tasks
  BY DEF Decided
<1>4. \A t \in Tasks : stamp'[t] = NoStamp \/ stamp'[t] = stamp[t]
  BY DEF Unlayered
<1>5. BornBefore'
  BY <1>1, <1>2 DEF BornBefore, TypeOK
<1>6. StampsRecorded' /\ LayersTold'
  <2>1. StampsRecorded'
    BY <1>1, <1>2, <1>4 DEF StampsRecorded
  <2>2. \A u \in Decided : u \in Tasks
    BY DEF Decided
  <2>3. LayersTold'
    BY <1>1, <1>2, <1>4, <2>2 DEF LayersTold
  <2>4. QED
    BY <2>1, <2>3
<1>7. ASSUME NEW s \in Sessions
      PROVE  \/ shared'[s] = shared[s]
             \/ \E u \in gone : /\ SessionOf[u] = s /\ stamp[u] # NoStamp
                                /\ shared'[s].version = stamp[u].version
                                /\ shared'[s].merged = MergedAt(u, at[u])
  <2>1. shared'[s] = MergedInto(s, gone, at)
    BY DEF Merged
  <2>2. QED
    BY <1>3, <2>1, MergedIs
<1>8. SharedTold'
  <2>1. SUFFICES ASSUME NEW t \in Tasks, status[t] # "unborn",
                        shared'[SessionOf[t]].version # Nothing,
                        shared'[SessionOf[t]].merged <= created[t]
                 PROVE  shared'[SessionOf[t]].version \in inherited[t]
    BY <1>2 DEF SharedTold
  <2>2. SessionOf[t] \in Sessions
    BY SessionsAssumption
  <2>3. CASE shared'[SessionOf[t]] = shared[SessionOf[t]]
    BY <1>1, <2>1, <2>3 DEF SharedTold
  <2>4. ASSUME NEW u \in gone, SessionOf[u] = SessionOf[t], stamp[u] # NoStamp,
               shared'[SessionOf[t]].version = stamp[u].version,
               shared'[SessionOf[t]].merged = MergedAt(u, at[u])
        PROVE  stamp[u].version \in inherited[t]
    <3>1. u \in Decided /\ u \in Tasks
      BY <1>3
    <3>2. /\ created[t] \in Nat /\ ended[u] \in Nat /\ now \in Nat
          /\ stamp[u].seen \in Nat /\ at[u] \in Nat
      BY <3>1 DEF TypeOK
    <3>3. at[u] <= MergedAt(u, at[u]) /\ stamp[u].seen <= MergedAt(u, at[u])
      BY <3>2 DEF MergedAt
    <3>4. MergedAt(u, at[u]) \in Nat
      BY <3>2 DEF MergedAt
    <3>5. at[u] <= created[t] /\ stamp[u].seen <= created[t]
      BY <2>1, <2>4, <3>2, <3>3, <3>4
    <3>6. created[t] < now + 1
      BY <1>1, <3>2 DEF BornBefore
    <3>7. at[u] = ended[u]
      BY <3>2, <3>5, <3>6
    <3>8. QED
      BY <1>1, <2>1, <2>4, <3>1, <3>5, <3>7 DEF LayersTold
  <2>5. QED
    BY <1>7, <2>2, <2>3, <2>4
<1>9. SharedFromDecided'
  <2>1. SUFFICES ASSUME NEW s \in Sessions, shared'[s].version # Nothing
                 PROVE  \E u \in Decided : SessionOf[u] = s /\ shared'[s].version \in recorded[u]
    BY <1>2 DEF SharedFromDecided
  <2>2. CASE shared'[s] = shared[s]
    BY <1>1, <2>1, <2>2 DEF SharedFromDecided
  <2>3. ASSUME NEW u \in gone, SessionOf[u] = s, stamp[u] # NoStamp,
               shared'[s].version = stamp[u].version
        PROVE  u \in Decided /\ SessionOf[u] = s /\ shared'[s].version \in recorded[u]
    BY <1>1, <1>3, <2>3 DEF StampsRecorded
  <2>4. QED
    BY <1>7, <2>2, <2>3
<1>10. QED
  BY <1>5, <1>6, <1>8, <1>9 DEF StampInv

\* A version is recorded: too late for any task that has begun.
LEMMA RecordStamps ==
  ASSUME TypeOK, StampInv, UNCHANGED tasks, NEW t \in Tasks, NEW v, Record(t, v)
  PROVE  StampInv'
<1>1. BornBefore /\ StampsRecorded /\ LayersTold /\ SharedTold /\ SharedFromDecided
  BY DEF StampInv
<1>2. UNCHANGED <<status, created, ended, inherited, shared>> /\ Decided' = Decided /\ now' = now + 1
  BY DEF tasks, Decided, Record
<1>3. /\ stamp'[t].version = v /\ stamp'[t].seen = now + 1 /\ v \in recorded'[t]
      /\ \A u \in Tasks \ {t} : stamp'[u] = stamp[u] /\ recorded'[u] = recorded[u]
      /\ \A u \in Tasks : recorded[u] \subseteq recorded'[u]
  BY <1>2 DEF Record, TypeOK
<1>4. BornBefore' /\ StampsRecorded'
  BY <1>1, <1>2, <1>3 DEF BornBefore, StampsRecorded, TypeOK
<1>5. LayersTold'
  <2>1. SUFFICES ASSUME NEW u \in Decided, NEW w \in Tasks,
                        status[w] # "unborn", SessionOf[u] = SessionOf[w], stamp'[u] # NoStamp,
                        ended[u] <= created[w], stamp'[u].seen <= created[w]
                 PROVE  stamp'[u].version \in inherited[w]
    BY <1>2 DEF LayersTold
  <2>2. created[w] \in Nat /\ now \in Nat /\ created[w] <= now
    BY <1>1 DEF BornBefore, TypeOK
  <2>3. u # t /\ u \in Tasks
    BY <1>3, <2>1, <2>2 DEF Decided
  <2>4. QED
    BY <1>1, <1>3, <2>1, <2>3 DEF LayersTold
<1>6. SharedTold'
  BY <1>1, <1>2 DEF SharedTold
<1>7. SharedFromDecided'
  <2>1. \A u \in Decided : u \in Tasks
    BY DEF Decided
  <2>2. QED
    BY <1>1, <1>2, <1>3, <2>1 DEF SharedFromDecided
<1>8. QED
  BY <1>4, <1>5, <1>6, <1>7 DEF StampInv

\* Nothing changes for the stamps when only calls and the file move.
LEMMA StillStamps ==
  ASSUME TypeOK, StampInv, UNCHANGED <<tasks, ledger>>, now' = now
  PROVE  StampInv'
<1>1. /\ UNCHANGED <<created, inherited, ledger>> /\ Decided' = Decided
      /\ UNCHANGED <<status, ended>>
  BY DEF tasks, Decided
<1>2. QED
  BY <1>1, MoveStamps

LEMMA StampStep ==
  ASSUME Claimed, StampInv, Next
  PROVE  StampInv'
<1>1. TypeOK
  BY DEF Claimed
<1>2. ASSUME NEW t \in Tasks, Start(t) PROVE StampInv'
  <2>1. Decided' = Decided /\ \A u \in Tasks \ {t} : status'[u] = status[u]
    BY <1>1, <1>2 DEF Start, Decided, TypeOK
  <2>2. QED
    BY <1>1, <1>2, <2>1, BirthStamps DEF Start
<1>3. ASSUME NEW t \in Tasks, NEW kids \in SUBSET Tasks, Dispatch(t, kids) PROVE StampInv'
  <2>1. \A u \in Tasks : /\ status'[u] \in {"stopping", "over"} <=> status[u] \in {"stopping", "over"}
                         /\ u \notin kids => (status'[u] = "unborn" <=> status[u] = "unborn")
    BY <1>1, <1>3 DEF Dispatch, TypeOK
  <2>2. Decided' = Decided
    BY <2>1 DEF Decided
  <2>3. QED
    BY <1>1, <1>3, <2>1, <2>2, BirthStamps DEF Dispatch
<1>4. ASSUME NEW t \in Tasks,
             HandBack(t) \/ Resume(t) \/ StopEnds(t) \/ Finish(t) \/ Fail(t) \/ CalledOff(t)
      PROVE  StampInv'
  <2>1. /\ UNCHANGED <<created, inherited, ledger>> /\ now' \in {now, now + 1}
        /\ \A u \in Tasks \ {t} : status'[u] = status[u] /\ ended'[u] = ended[u]
        /\ status[t] # "unborn" /\ status'[t] # "unborn"
        /\ \/ status[t] \in {"stopping", "over"} /\ status'[t] \in {"stopping", "over"} /\ ended'[t] = ended[t]
           \/ status'[t] \in {"stopping", "over"} /\ ended'[t] = now + 1
           \/ status[t] \notin {"stopping", "over"} /\ status'[t] \notin {"stopping", "over"}
    BY <1>1, <1>4 DEF HandBack, Resume, StopEnds, Finish, Fail, CalledOff, Ends, TypeOK
  <2>2. Decided \subseteq Decided'
    BY <2>1, <1>4 DEF Decided, HandBack, Resume, StopEnds, Finish, Fail, CalledOff
  <2>3. \A u \in Decided' : (u \in Decided /\ ended'[u] = ended[u]) \/ ended'[u] = now + 1
    BY <2>1 DEF Decided
  <2>4. QED
    BY <1>1, <2>1, <2>2, <2>3, MoveStamps
<1>5. ASSUME NEW t \in Tasks, Crash(t) PROVE StampInv'
  BY <1>1, <1>5, StillStamps DEF Crash
<1>6. ASSUME NEW t \in Tasks, Release(t) PROVE StampInv'
  <2> DEFINE at == [u \in Tasks |-> now']
  <2>1. at \in [Tasks -> Nat] /\ now' = now + 1 /\ {t} \in SUBSET Decided
    BY <1>1, <1>6 DEF Release, TypeOK, Decided
  <2>2. \A u \in {t} : at[u] \in {ended[u], now + 1}
    BY <2>1
  <2>3. /\ shared' = Merged({t}, at) /\ stamp' = Unlayered({t})
        /\ UNCHANGED <<tasks, recorded>> /\ now' \in {now, now + 1}
    BY <1>6, <2>1 DEF Release
  <2> HIDE DEF at
  <2>4. QED
    BY <1>1, <2>1, <2>2, <2>3, SweepStamps
<1>7. ASSUME BeginRefused \/ \E c \in Calls, t \in Tasks : Begin(c, t) PROVE StampInv'
  <2>1. /\ Sweep /\ UNCHANGED <<tasks, recorded>> /\ now' \in {now, now + 1}
        /\ Over \in SUBSET Decided /\ ended \in [Tasks -> Nat]
    BY <1>1, <1>7 DEF BeginRefused, Begin, Over, Decided, TypeOK
  <2>2. QED
    BY <1>1, <2>1, SweepStamps DEF Sweep
<1>8. ASSUME NEW c \in Calls, FinishEdit(c) \/ RecordRead(c) PROVE StampInv'
  <2>1. UNCHANGED tasks /\ call[c].task \in Tasks
    BY <1>8 DEF FinishEdit, RecordRead, Claimed, CallsOfWorkers, Busy
  <2>2. CASE UNCHANGED <<ledger, now>>
    BY <1>1, <2>1, <2>2, StillStamps
  <2>3. ASSUME NEW v, Record(call[c].task, v) PROVE StampInv'
    BY <1>1, <2>1, <2>3, RecordStamps
  <2>4. QED
    BY <1>8, <2>2, <2>3 DEF FinishEdit, RecordRead
<1>9. ASSUME NEW c \in Calls, GiveUp(c) \/ Lock(c) \/ Compare(c) \/ Replace(c) \/ DiskError(c)
      PROVE  StampInv'
  BY <1>1, <1>9, StillStamps DEF GiveUp, Lock, Compare, Replace, DiskError
<1>10. ASSUME NEW c \in Calls, AbandonEdit(c) PROVE StampInv'
  BY <1>1, <1>10 DEF AbandonEdit, tasks, StampInv, BornBefore, StampsRecorded, LayersTold, SharedTold,
                     SharedFromDecided, Decided
<1>11. ASSUME NEW c \in Calls, NEW t \in Tasks, ReadFile(c, t) PROVE StampInv'
  BY <1>1, <1>11, StillStamps DEF ReadFile
<1>12. ASSUME NEW o \in Outsiders, WriteOutside(o) PROVE StampInv'
  BY <1>1, <1>12, StillStamps DEF WriteOutside
<1>13. QED
  BY <1>2, <1>3, <1>4, <1>5, <1>6, <1>7, <1>8, <1>9, <1>10, <1>11, <1>12 DEF Next

-----------------------------------------------------------------------------
(* The gate through each step.                                                *)

\* A task that has begun forgets nothing.
LEMMA KnownGrows ==
  ASSUME Claimed, Next, NEW t \in Tasks, status[t] # "unborn"
  PROVE  Known(t) \subseteq Known(t)'
<1>1. TypeOK
  BY DEF Claimed
<1>2. recorded[t] \subseteq recorded'[t]
  <2>1. ASSUME NEW u \in Tasks, NEW v, Record(u, v) PROVE recorded[t] \subseteq recorded'[t]
    BY <1>1, <2>1 DEF Record, TypeOK
  <2>2. ASSUME NEW c \in Calls, FinishEdit(c) \/ RecordRead(c) PROVE recorded[t] \subseteq recorded'[t]
    <3>1. call[c].task \in Tasks
      BY <2>2 DEF FinishEdit, RecordRead, Claimed, CallsOfWorkers, Busy
    <3>2. QED
      BY <2>1, <2>2, <3>1 DEF FinishEdit, RecordRead, ledger
  <2>3. CASE UNCHANGED recorded
    BY <2>3
  <2>4. UNCHANGED recorded \/ \E c \in Calls : FinishEdit(c) \/ RecordRead(c)
    BY DEF Next, Start, HandBack, Resume, Finish, Fail, CalledOff, StopEnds, Ends, Crash, Release,
           Dispatch, Begin, ReadFile, BeginRefused, GiveUp, Lock, Compare, Replace, DiskError,
           AbandonEdit, WriteOutside, ledger
  <2>5. QED
    BY <2>2, <2>3, <2>4
<1>3. inherited'[t] = inherited[t]
  <2>1. ASSUME NEW u \in Tasks, Start(u) PROVE inherited'[t] = inherited[t]
    BY <2>1 DEF Start, Create
  <2>2. ASSUME NEW u \in Tasks, NEW kids \in SUBSET Tasks, Dispatch(u, kids)
        PROVE  inherited'[t] = inherited[t]
    BY <2>2 DEF Dispatch, Create
  <2>3. \/ UNCHANGED inherited
        \/ \E u \in Tasks : Start(u) \/ \E kids \in SUBSET Tasks : Dispatch(u, kids)
    BY DEF Next, HandBack, Resume, Finish, Fail, CalledOff, StopEnds, Ends, Crash, Release,
           Begin, ReadFile, BeginRefused, GiveUp, Lock, Compare, Replace, DiskError, FinishEdit,
           RecordRead, AbandonEdit, WriteOutside, tasks
  <2>4. QED
    BY <2>1, <2>2, <2>3
<1>4. QED
  BY <1>2, <1>3 DEF Known

\* A call that goes on within the edit, or ends, while the file stays.
LEMMA GateFrame ==
  ASSUME Claimed, Next, NEW c \in Calls, GateOf(c),
         /\ call'[c].task = call[c].task /\ call'[c].entry = call[c].entry
         /\ call'[c].foreign = call[c].foreign,
         Open(c)' => Open(c),
         \/ /\ call'[c].phase = call[c].phase /\ call'[c].base = call[c].base
            /\ \/ file' \in {file, Absent} \cup Outsiders
               \/ call[c].phase # "replacing"
         \/ call'[c].phase \notin {"holding", "replacing"}
         \/ /\ call[c].phase = "holding" /\ call'[c].phase = "replacing"
            /\ call'[c].base = call[c].base /\ file' = call[c].base
  PROVE  GateOf(c)'
<1>1. EntryKnown(c)'
  <2>1. SUFFICES ASSUME Open(c)', call[c].entry # Nothing, ~call[c].foreign
                 PROVE  call[c].entry \in Known(call[c].task)'
    BY DEF EntryKnown
  <2>2. call[c].task \in Tasks /\ status[call[c].task] # "unborn"
    BY <2>1 DEF Claimed, CallsOfWorkers, Open, Busy
  <2>3. call[c].entry \in Known(call[c].task)
    BY <2>1 DEF GateOf, EntryKnown
  <2>4. QED
    BY <2>2, <2>3, KnownGrows
<1>2. BaseGated(c)' /\ FileKept(c)'
  BY DEF GateOf, BaseGated, FileKept
<1>3. QED
  BY <1>1, <1>2 DEF GateOf

LEMMA GateStep ==
  ASSUME Claimed, StampInv, StampInv', GateInv, Next
  PROVE  GateInv'
<1>1. TypeOK /\ call \in [Calls -> Call]
  BY DEF Claimed, TypeOK, Call
<1>2. \A d \in Calls : GateOf(d)
  BY DEF GateInv
<1>3. CASE UNCHANGED <<call, file>>
  BY <1>2, <1>3, GateFrame DEF GateInv, Open
<1>4. ASSUME NEW t \in Tasks, Crash(t) PROVE GateInv'
  <2>1. UNCHANGED file
    BY <1>4 DEF Crash
  <2>2. ASSUME NEW d \in Calls PROVE GateOf(d)'
    <3>1. call'[d] = IF call[d].task = t /\ Busy(d) THEN [call[d] EXCEPT !.phase = "done"] ELSE call[d]
      BY <1>4 DEF Crash
    <3>2. CASE call[d].task = t /\ Busy(d)
      BY <1>1, <1>2, <2>1, <3>1, <3>2, GateFrame DEF Open, Call
    <3>3. CASE ~(call[d].task = t /\ Busy(d))
      BY <1>2, <2>1, <3>1, <3>3, GateFrame DEF Open
    <3>4. QED
      BY <3>2, <3>3
  <2>3. QED
    BY <2>2 DEF GateInv
<1>5. ASSUME NEW c \in Calls, \A d \in Calls \ {c} : call'[d] = call[d],
             \/ file' \in {file, Absent} \cup Outsiders
             \/ \A d \in Calls \ {c} : call[d].phase # "replacing",
             GateOf(c)'
      PROVE  GateInv'
  BY <1>2, <1>5, GateFrame DEF GateInv, Open
<1>6. ASSUME NEW c \in Calls, NEW t \in Tasks, Begin(c, t) PROVE GateInv'
  <2>1. /\ call'[c] = [task |-> t, phase |-> "granted", entry |-> Entry(t), foreign |-> Foreign(t),
                       fresh |-> ~Holds(t), base |-> Nothing]
        /\ \A d \in Calls \ {c} : call'[d] = call[d]
    BY <1>1, <1>6 DEF Begin
  <2>2. file' = file /\ status[t] # "unborn" /\ UNCHANGED <<status, created, inherited, recorded>>
    BY <1>6 DEF Begin, disk, tasks
  <2>3. ASSUME Entry(t) # Nothing, ~Foreign(t) PROVE Entry(t) \in Known(t)'
    <3>1. CASE stamp[t] # NoStamp
      BY <2>2, <3>1 DEF Entry, Known, StampInv, StampsRecorded
    <3>2. CASE stamp[t] = NoStamp
      <4>1. /\ Entry(t) = shared'[SessionOf[t]].version
            /\ ~(shared'[SessionOf[t]].merged > created[t])
        BY <2>3, <3>2 DEF Entry, Foreign
      <4>2. shared'[SessionOf[t]].merged \in Nat /\ created[t] \in Nat
        <5>1. Merged(Over, ended) \in [Sessions -> Shared]
          BY <1>1, MergedType DEF TypeOK, Over
        <5>2. shared' = Merged(Over, ended)
          BY <1>6 DEF Begin, Sweep
        <5>3. shared'[SessionOf[t]] \in Shared
          BY <5>1, <5>2, SessionsAssumption
        <5>4. QED
          BY <1>1, <5>3 DEF TypeOK, Shared
      <4>3. Entry(t) \in inherited'[t]
        BY <2>2, <2>3, <4>1, <4>2 DEF StampInv, SharedTold
      <4>4. QED
        BY <4>3 DEF Known
    <3>3. QED
      BY <3>1, <3>2
  <2>4. GateOf(c)'
    BY <2>1, <2>3 DEF GateOf, EntryKnown, BaseGated, FileKept
  <2>5. QED
    BY <1>5, <2>1, <2>2, <2>4
<1>7. ASSUME NEW c \in Calls, NEW t \in Tasks, ReadFile(c, t) PROVE GateInv'
  <2>1. /\ call'[c].phase = "reading" /\ \A d \in Calls \ {c} : call'[d] = call[d]
        /\ file' = file
    BY <1>1, <1>7 DEF ReadFile, NoGrant, disk
  <2>2. GateOf(c)'
    BY <2>1 DEF GateOf, EntryKnown, BaseGated, FileKept, Open
  <2>3. QED
    BY <1>5, <2>1, <2>2
<1>8. ASSUME NEW c \in Calls, NEW phase \in {"failing", "written", "done"},
             call[c].phase # "idle", phase = "done" \/ Open(c),
             Moves(c, phase), file' = file \/ call[c].phase = "replacing"
      PROVE  GateInv'
  <2>1. /\ call'[c].phase = phase /\ \A d \in Calls \ {c} : call'[d] = call[d]
        /\ call'[c].task = call[c].task /\ call'[c].entry = call[c].entry
        /\ call'[c].foreign = call[c].foreign
    BY <1>1, <1>8 DEF Moves, Call
  <2>2. Open(c)' => Open(c)
    BY <1>8, <2>1 DEF Open
  <2>3. GateOf(c)'
    BY <1>2, <1>8, <2>1, <2>2, GateFrame
  <2>4. \A d \in Calls \ {c} : call[c].phase = "replacing" => call[d].phase # "replacing"
    BY <1>1 DEF TypeOK
  <2>5. QED
    BY <1>5, <1>8, <2>1, <2>3, <2>4
<1>9. ASSUME NEW c \in Calls, Lock(c) PROVE GateInv'
  <2>1. file' = file /\ call[c].phase = "granted"
    BY <1>9 DEF Lock
  <2>2. CASE Stale(c) /\ Moves(c, "failing")
    BY <1>8, <2>1, <2>2 DEF Open
  <2>3. CASE ~Stale(c) /\ call' = [call EXCEPT ![c].phase = "holding", ![c].base = file]
    <3>1. /\ call'[c].phase = "holding" /\ call'[c].base = file
          /\ call'[c].task = call[c].task /\ call'[c].entry = call[c].entry
          /\ call'[c].foreign = call[c].foreign
          /\ \A d \in Calls \ {c} : call'[d] = call[d]
      BY <1>1, <2>3 DEF Call
    <3>2. call[c].entry # Nothing /\ file # Absent => file = call[c].entry /\ ~call[c].foreign
      BY <2>3 DEF Stale
    <3>3. BaseGated(c)' /\ FileKept(c)'
      BY <3>1, <3>2 DEF BaseGated, FileKept
    <3>4. EntryKnown(c)'
      <4>1. SUFFICES ASSUME call[c].entry # Nothing, ~call[c].foreign
                     PROVE  call[c].entry \in Known(call[c].task)'
        BY <3>1 DEF EntryKnown
      <4>2. call[c].task \in Tasks /\ status[call[c].task] # "unborn"
        BY <2>1 DEF Claimed, CallsOfWorkers, Busy
      <4>3. call[c].entry \in Known(call[c].task)
        BY <1>2, <2>1, <4>1 DEF GateOf, EntryKnown, Open
      <4>4. QED
        BY <3>1, <4>2, <4>3, KnownGrows
    <3>5. QED
      BY <1>5, <2>1, <3>1, <3>3, <3>4 DEF GateOf
  <2>4. QED
    BY <1>9, <2>2, <2>3 DEF Lock
<1>10. ASSUME NEW c \in Calls, Compare(c) PROVE GateInv'
  <2>1. file' = file /\ call[c].phase = "holding"
    BY <1>10 DEF Compare
  <2>2. CASE file = call[c].base /\ Moves(c, "replacing")
    <3>1. /\ call'[c].phase = "replacing" /\ call'[c].base = call[c].base
          /\ call'[c].task = call[c].task /\ call'[c].entry = call[c].entry
          /\ call'[c].foreign = call[c].foreign
          /\ \A d \in Calls \ {c} : call'[d] = call[d]
      BY <1>1, <2>2 DEF Moves, Call
    <3>2. GateOf(c)'
      BY <1>2, <2>1, <2>2, <3>1, GateFrame DEF Open
    <3>3. QED
      BY <1>5, <2>1, <3>1, <3>2
  <2>3. CASE Moves(c, "failing")
    BY <1>8, <2>1, <2>3 DEF Open
  <2>4. QED
    BY <1>10, <2>2, <2>3 DEF Compare
<1>11. ASSUME NEW c \in Calls,
              \/ GiveUp(c) \/ Replace(c) \/ DiskError(c) \/ FinishEdit(c) \/ AbandonEdit(c)
              \/ RecordRead(c)
       PROVE  GateInv'
  <2>1. \/ Moves(c, "failing") /\ Open(c) /\ file' = file
        \/ Moves(c, "written") /\ call[c].phase = "replacing"
        \/ Moves(c, "done") /\ call[c].phase # "idle" /\ file' = file
    BY <1>11 DEF GiveUp, Replace, DiskError, FinishEdit, AbandonEdit, RecordRead, Open, disk
  <2>2. QED
    BY <1>8, <2>1 DEF Open
<1>12. ASSUME NEW o \in Outsiders, WriteOutside(o) PROVE GateInv'
  <2>1. UNCHANGED call /\ file' \in {file, Absent} \cup Outsiders
    BY <1>12 DEF WriteOutside
  <2>2. QED
    BY <1>2, <2>1, GateFrame DEF GateInv, Open
<1>13. UNCHANGED <<call, file>>
       \/ (\E t \in Tasks : Crash(t))
       \/ (\E c \in Calls, t \in Tasks : Begin(c, t) \/ ReadFile(c, t))
       \/ (\E c \in Calls : \/ Lock(c) \/ Compare(c) \/ GiveUp(c) \/ Replace(c) \/ DiskError(c)
                            \/ FinishEdit(c) \/ AbandonEdit(c) \/ RecordRead(c))
       \/ (\E o \in Outsiders : WriteOutside(o))
  BY DEF Next, Start, HandBack, Resume, Finish, Fail, CalledOff, StopEnds, Ends, Release,
         Dispatch, BeginRefused, disk
<1>14. QED
  BY <1>3, <1>4, <1>6, <1>7, <1>9, <1>10, <1>11, <1>12, <1>13

\* What the stamps know, and what the gate let through, in every reachable state.
THEOREM GateAlways == Spec => [](Claimed /\ StampInv /\ GateInv)
<1>1. Init => StampInv /\ GateInv
  BY DEF Init, StampInv, BornBefore, StampsRecorded, LayersTold, SharedTold, SharedFromDecided,
         NoStamp, NoShared, NoGrant, GateInv, GateOf, EntryKnown, BaseGated, FileKept, Open
<1>2. Claimed /\ Claimed' /\ StampInv /\ GateInv /\ [Next]_vars => StampInv' /\ GateInv'
  <2>1. CASE Claimed /\ StampInv /\ GateInv /\ Next
    BY <2>1, StampStep, GateStep
  <2>2. CASE Claimed /\ StampInv /\ GateInv /\ UNCHANGED vars
    BY <2>2 DEF vars, StampInv, BornBefore, StampsRecorded, LayersTold, SharedTold, SharedFromDecided,
                Decided, GateInv, GateOf, EntryKnown, BaseGated, FileKept, Open, Known
  <2>3. QED
    BY <2>1, <2>2
<1>3. QED
  BY <1>1, <1>2, ClaimsAlways, PTL DEF Spec

\* A tool that edits against a stamp replaces only what its task knows.
THEOREM EditsAreInformed == Spec => []NoBlindOverwrite
<1>1. Claimed /\ GateInv => NoBlindOverwrite
  <2>1. SUFFICES ASSUME GateInv, NEW c \in Calls, call[c].phase = "replacing",
                        call[c].entry # Nothing, call[c].base # Absent
                 PROVE  /\ call[c].base \in Known(call[c].task)
                        /\ file \in {call[c].base, Absent} \cup Outsiders
    BY DEF NoBlindOverwrite
  <2>2. EntryKnown(c) /\ BaseGated(c) /\ FileKept(c)
    BY <2>1 DEF GateInv, GateOf
  <2>3. QED
    BY <2>1, <2>2 DEF EntryKnown, BaseGated, FileKept, Open
<1>2. QED
  BY <1>1, GateAlways, PTL

-----------------------------------------------------------------------------
(* Callers and chains of them.                                                *)

\* A chain of callers goes on below a task that waits for another.
LEMMA WaitingIsUnder ==
  ASSUME NEW t \in Tasks, NEW h \in Tasks, WaitsFor(t, h)
  PROVE  /\ Under(t, h)
         /\ \A u \in Tasks : Under(h, u) => Under(t, u)
<1>1. caller[t] \in Tasks
  BY DEF WaitsFor
<1>2. ASSUME NEW S \in SUBSET Tasks, caller[t] \in S,
             \A p \in S : caller[p] \in Tasks => caller[p] \in S
      PROVE  h \in S
  BY <1>2 DEF WaitsFor
<1>3. Under(t, h)
  BY <1>1, <1>2 DEF Under
<1>4. ASSUME NEW u \in Tasks, Under(h, u) PROVE Under(t, u)
  <2>1. SUFFICES ASSUME NEW S \in SUBSET Tasks, caller[t] \in S,
                        \A p \in S : caller[p] \in Tasks => caller[p] \in S
                 PROVE  u \in S
    BY <1>1 DEF Under
  <2>2. h \in S
    BY <1>2, <2>1
  <2>3. caller[h] \in Tasks /\ caller[h] \in S
    BY <1>4, <2>1, <2>2 DEF Under
  <2>4. QED
    BY <1>4, <2>1, <2>3 DEF Under
<1>5. QED
  BY <1>3, <1>4

\* Chains stay when tasks are created: nobody had called for those.
LEMMA UnderStays ==
  ASSUME TypeOK, UnbornIsAlone, NEW t \in Tasks, NEW u \in Tasks, status[t] # "unborn", Under(t, u),
         \A p \in Tasks : status[p] # "unborn" => caller'[p] = caller[p]
  PROVE  Under(t, u)'
<1>1. \A p \in Tasks : caller[p] \in Tasks => caller'[p] = caller[p]
  BY DistinctAssumption DEF UnbornIsAlone
<1>2. caller'[t] = caller[t] /\ caller[t] \in Tasks
  BY DEF Under
<1>3. SUFFICES ASSUME NEW S \in SUBSET Tasks, caller[t] \in S,
                      \A p \in S : caller'[p] \in Tasks => caller'[p] \in S
               PROVE  u \in S
  BY <1>2 DEF Under
<1>4. \A p \in S : caller[p] \in Tasks => caller[p] \in S
  BY <1>1, <1>3
<1>5. QED
  BY <1>3, <1>4 DEF Under

\* The chain of holders through a step that takes no new claim.
LEMMA NestFrame ==
  ASSUME Claimed, UnbornIsAlone, HoldersNest,
         \A p \in Tasks : status[p] # "unborn" => caller'[p] = caller[p],
         \A t \in Holders' : t \in Holders /\ since'[t] = since[t]
  PROVE  HoldersNest'
<1>1. SUFFICES ASSUME NEW t \in Holders', NEW u \in Holders', since'[u] < since'[t]
               PROVE  Under(t, u)'
  BY DEF HoldersNest
<1>2. /\ t \in Holders /\ u \in Holders /\ since[u] < since[t]
      /\ t \in Tasks /\ u \in Tasks /\ status[t] # "unborn"
  BY <1>1 DEF Holders, StillWriting
<1>3. Under(t, u)
  BY <1>2 DEF HoldersNest
<1>4. QED
  BY <1>2, <1>3, UnderStays DEF Claimed

\* Who claims next works below the deepest holder, and so below all of them.
LEMMA NestGrows ==
  ASSUME Claimed, TypeOK', HoldersNest, NEW t \in Tasks, MayClaim(t), UNCHANGED <<status, caller>>,
         \A u \in Tasks \ {t} : since'[u] # 0 => since'[u] = since[u],
         \A u \in Tasks \ {t} : u \in Holders' => since'[u] < since'[t]
  PROVE  HoldersNest'
<1>1. SUFFICES ASSUME NEW v \in Holders', NEW u \in Holders', since'[u] < since'[v]
               PROVE  Under(v, u)
  BY DEF HoldersNest, Under
<1>2. \A x \in Holders' : x \in Tasks /\ (x # t => x \in Holders /\ since'[x] = since[x])
  BY DEF Holders, StillWriting
<1>3. since'[t] \in Nat /\ since'[u] \in Nat /\ since'[v] \in Nat /\ u # v
  BY <1>1, <1>2 DEF TypeOK
<1>4. \A x \in Tasks : since[x] \in Nat
  BY DEF Claimed, TypeOK
<1>5. CASE v = t
  <2>1. u \in Holders
    BY <1>2, <1>3, <1>5
  <2>2. PICK h \in Tasks : Deepest(h) /\ WaitsFor(t, h)
    BY <2>1 DEF MayClaim
  <2>3. Under(t, h) /\ (Under(h, u) => Under(t, u))
    BY <1>2, <2>2, WaitingIsUnder
  <2>4. h \in Holders /\ since[u] <= since[h]
    BY <2>1, <2>2 DEF Deepest
  <2>5. CASE u # h
    <3>1. since[u] # since[h] /\ u \in Tasks
      BY <2>1, <2>5 DEF Claimed, ClaimsInOrder, Holders
    <3>2. since[u] < since[h]
      BY <1>4, <2>2, <2>4, <3>1
    <3>3. QED
      BY <1>5, <2>1, <2>3, <2>4, <3>2 DEF HoldersNest
  <2>6. QED
    BY <1>5, <2>3, <2>5
<1>6. CASE v # t
  <2>1. u # t
    BY <1>1, <1>2, <1>3, <1>6
  <2>2. QED
    BY <1>1, <1>2, <1>6, <2>1 DEF HoldersNest
<1>7. QED
  BY <1>5, <1>6

-----------------------------------------------------------------------------
(* Live work through each step.                                               *)

\* The last writer keeps its claim through a step that writes nothing new.
LEMMA WriterFrame ==
  ASSUME Claimed, WorkInv,
         file' = file \/ file' \notin Calls,
         \A t \in Tasks : status[t] # "unborn"
                          => status'[t] # "unborn" /\ (StillWriting(t)' => StillWriting(t)),
         \A c \in Calls : call[c].phase \in {"written", "done"}
                          => call'[c].phase \in {"written", "done"} /\ call'[c].task = call[c].task,
         file \in Calls /\ StillWriting(call[file].task) =>
           /\ since'[call[file].task] # 0
           /\ \A c \in Calls : /\ Open(c)' /\ call'[c].fresh /\ c # file
                               => call[file].task # call'[c].task
  PROVE  WrittenByCall' /\ WriterHolds' /\ FreshIsFirst'
<1>1. WrittenByCall /\ WriterHolds /\ FreshIsFirst
  BY DEF WorkInv
<1>2. CASE file' \notin Calls
  BY <1>2 DEF WrittenByCall, WriterHolds, FreshIsFirst
<1>3. CASE file \in Calls /\ file' = file
  <2>1. /\ call'[file].phase \in {"written", "done"} /\ call'[file].task = call[file].task
        /\ call[file].task \in Tasks /\ status[call[file].task] # "unborn"
    BY <1>1, <1>3 DEF WrittenByCall
  <2>2. StillWriting(call[file].task)' => StillWriting(call[file].task)
    BY <1>3, <2>1 DEF StillWriting
  <2>3. WrittenByCall'
    BY <1>3, <2>1 DEF WrittenByCall
  <2>4. WriterHolds' /\ FreshIsFirst'
    BY <1>3, <2>1, <2>2 DEF WriterHolds, FreshIsFirst, StillWriting
  <2>5. QED
    BY <2>3, <2>4
<1>4. QED
  BY <1>2, <1>3

\* Tasks, and calls that end or go on without writing, leave the work as it is.
LEMMA QuietStep ==
  ASSUME Claimed, WorkInv, file' = file \/ file' \notin Calls,
         \A t \in Tasks : status[t] # "unborn"
                          => /\ caller'[t] = caller[t] /\ status'[t] # "unborn"
                             /\ StillWriting(t)' => StillWriting(t),
         \A t \in Tasks : status'[t] = "unborn" => status[t] = "unborn" /\ caller'[t] = caller[t],
         \A c \in Calls : call[c].phase \in {"written", "done"}
                          => call'[c].phase \in {"written", "done"} /\ call'[c].task = call[c].task,
         \A c \in Calls : Open(c)' => /\ Open(c) /\ call'[c].task = call[c].task
                                      /\ call'[c].fresh = call[c].fresh,
         \A t \in Tasks : \/ since'[t] = since[t]
                          \/ /\ since'[t] = 0
                             /\ \/ ~StillWriting(t)
                                \/ file \in Calls /\ StillWriting(call[file].task)
                                   => call[file].task # t
  PROVE  WorkInv'
<1>1. /\ WrittenByCall /\ WriterHolds /\ FreshIsFirst /\ HoldersNest /\ UnbornIsAlone
      /\ TypeOK /\ ClaimsInOrder
  BY DEF WorkInv, Claimed
<1>2. UnbornIsAlone'
  BY <1>1 DEF UnbornIsAlone
<1>3. ASSUME file \in Calls, StillWriting(call[file].task)
      PROVE  /\ since'[call[file].task] # 0
             /\ \A c \in Calls : /\ Open(c)' /\ call'[c].fresh /\ c # file
                                 => call[file].task # call'[c].task
  BY <1>1, <1>3 DEF WrittenByCall, WriterHolds, FreshIsFirst
<1>4. WrittenByCall' /\ WriterHolds' /\ FreshIsFirst'
  BY <1>3, WriterFrame
<1>5. HoldersNest'
  <2>1. \A t \in Holders' : t \in Holders /\ since'[t] = since[t]
    <3>1. TAKE t \in Holders'
    <3>2. t \in Tasks /\ since'[t] # 0 /\ StillWriting(t)' /\ since'[t] = since[t]
      BY DEF Holders
    <3>3. status[t] # "unborn"
      BY <1>1, <3>2 DEF ClaimsInOrder
    <3>4. QED
      BY <3>2, <3>3 DEF Holders
  <2>2. QED
    BY <1>1, <2>1, NestFrame
<1>6. QED
  BY <1>2, <1>4, <1>5 DEF WorkInv

LEMMA WorkStep ==
  ASSUME Claimed, TypeOK', WorkInv, Next
  PROVE  WorkInv'
<1>1. /\ TypeOK /\ call \in [Calls -> Call]
      /\ OneAtATime /\ CallsOfWorkers /\ ClaimsInOrder /\ OpenIsDeepest
      /\ WrittenByCall /\ WriterHolds /\ FreshIsFirst /\ HoldersNest /\ UnbornIsAlone
  BY DEF Claimed, TypeOK, Call, WorkInv
<1>2. ASSUME UNCHANGED <<since, call, file>>,
             \A t \in Tasks : status[t] # "unborn"
                              => /\ caller'[t] = caller[t] /\ status'[t] # "unborn"
                                 /\ status[t] = "over" => status'[t] = "over",
             \A t \in Tasks : status'[t] = "unborn" => status[t] = "unborn" /\ caller'[t] = caller[t]
      PROVE  WorkInv'
  BY <1>2, QuietStep DEF Open, StillWriting
<1>3. ASSUME NEW t \in Tasks, Start(t) \/ \E kids \in SUBSET Tasks : Dispatch(t, kids)
      PROVE  WorkInv'
  <2>1. UNCHANGED <<since, call, file>>
    BY <1>3 DEF Start, Dispatch, ledger, disk
  <2> DEFINE Births(new, parent) ==
               /\ Create(new, parent)
               /\ \A k \in new : status[k] = "unborn" /\ status'[k] = "running"
               /\ \A u \in Tasks \ new : \/ status'[u] = status[u]
                                         \/ status'[u] = "suspended" /\ status[u] = "handing"
  <2>2. PICK new \in SUBSET Tasks, parent \in Tasks \cup {NoTask} : Births(new, parent)
    <3>1. Start(t) => Births({t}, NoTask)
      BY <1>1 DEF Start, TypeOK
    <3>2. ASSUME NEW kids \in SUBSET Tasks, Dispatch(t, kids) PROVE Births(kids, t)
      BY <1>1, <3>2 DEF Dispatch, TypeOK
    <3> HIDE DEF Births
    <3>3. QED
      BY <1>3, <3>1, <3>2
  <2>3. \A u \in Tasks \ new : caller'[u] = caller[u]
    BY <2>2 DEF Create
  <2>4. QED
    BY <1>2, <2>1, <2>2, <2>3
<1>4. ASSUME NEW t \in Tasks,
             HandBack(t) \/ Resume(t) \/ StopEnds(t) \/ Finish(t) \/ Fail(t) \/ CalledOff(t)
      PROVE  WorkInv'
  <2>1. UNCHANGED <<since, call, file, caller>>
    BY <1>4 DEF HandBack, Resume, StopEnds, Finish, Fail, CalledOff, Ends, ledger, disk
  <2>2. /\ \A u \in Tasks \ {t} : status'[u] = status[u]
        /\ status[t] \notin {"unborn", "over"} /\ status'[t] # "unborn"
    BY <1>1, <1>4 DEF HandBack, Resume, StopEnds, Finish, Fail, CalledOff, Ends, TypeOK
  <2>3. QED
    BY <1>2, <2>1, <2>2
\* Only calls move, and no new one is made.
<1>5. ASSUME UNCHANGED tasks, file' = file \/ file' \notin Calls,
             \A c \in Calls : \/ call'[c] = call[c]
                              \/ /\ call'[c].task = call[c].task /\ call'[c].fresh = call[c].fresh
                                 /\ call'[c].phase \notin {"idle", "reading", "granted"}
                                 /\ call'[c].phase = "done" \/ Open(c)
                                 /\ call[c].phase = "written" => call'[c].phase = "done"
                                 /\ call[c].phase # "done",
             \A t \in Tasks : \/ since'[t] = since[t]
                              \/ /\ since'[t] = 0
                                 /\ \/ ~StillWriting(t)
                                    \/ file \in Calls /\ StillWriting(call[file].task)
                                       => call[file].task # t
      PROVE  WorkInv'
  <2>1. UNCHANGED <<status, caller>>
    BY <1>5 DEF tasks
  <2>2. \A c \in Calls : call[c].phase \in {"written", "done"}
                         => call'[c].phase \in {"written", "done"} /\ call'[c].task = call[c].task
    BY <1>5
  <2>3. \A c \in Calls : Open(c)' => /\ Open(c) /\ call'[c].task = call[c].task
                                     /\ call'[c].fresh = call[c].fresh
    BY <1>5 DEF Open
  <2>4. \A t \in Tasks : StillWriting(t)' => StillWriting(t)
    BY <2>1 DEF StillWriting
  <2>5. QED
    BY <1>5, <2>1, <2>2, <2>3, <2>4, QuietStep
<1>6. ASSUME NEW t \in Tasks, Crash(t) PROVE WorkInv'
  <2>1. \A c \in Calls : call'[c] = IF call[c].task = t /\ Busy(c)
                                    THEN [call[c] EXCEPT !.phase = "done"] ELSE call[c]
    BY <1>6 DEF Crash
  <2>2. \A c \in Calls : \/ call'[c] = call[c]
                         \/ /\ call'[c].task = call[c].task /\ call'[c].fresh = call[c].fresh
                            /\ call'[c].phase = "done" /\ call[c].phase # "done"
    BY <1>1, <2>1 DEF Busy, Call
  <2>3. UNCHANGED <<tasks, file, since>>
    BY <1>6 DEF Crash, ledger
  <2>4. QED
    BY <1>5, <2>2, <2>3
<1>7. ASSUME BeginRefused \/ \E t \in Tasks : Release(t) PROVE WorkInv'
  <2>1. UNCHANGED <<tasks, file, call>>
    BY <1>7 DEF BeginRefused, Release, disk
  <2>2. \A u \in Tasks : since'[u] = since[u] \/ (since'[u] = 0 /\ ~StillWriting(u))
    <3>1. CASE BeginRefused
      BY <3>1 DEF BeginRefused, Over, StillWriting
    <3>2. ASSUME NEW t \in Tasks, Release(t)
          PROVE  \A u \in Tasks : since'[u] = since[u] \/ (since'[u] = 0 /\ ~StillWriting(u))
      BY <1>1, <3>2 DEF Release, TypeOK, StillWriting
    <3>3. QED
      BY <1>7, <3>1, <3>2
  <2>3. QED
    BY <1>5, <2>1, <2>2
<1>8. ASSUME NEW c \in Calls,
             GiveUp(c) \/ Lock(c) \/ Compare(c) \/ DiskError(c) \/ FinishEdit(c) \/ RecordRead(c)
      PROVE  WorkInv'
  <2>1. UNCHANGED <<tasks, file, since>> /\ \A d \in Calls \ {c} : call'[d] = call[d]
    BY <1>1, <1>8
    DEF GiveUp, Lock, Compare, DiskError, FinishEdit, RecordRead, Moves, Record, ledger, disk
  <2>2. /\ call'[c].task = call[c].task /\ call'[c].fresh = call[c].fresh
        /\ call'[c].phase \in {"failing", "holding", "replacing", "done"}
        /\ call'[c].phase = "done" \/ Open(c)
        /\ call[c].phase = "written" => call'[c].phase = "done"
        /\ call[c].phase # "done"
    BY <1>1, <1>8
    DEF GiveUp, Lock, Compare, DiskError, FinishEdit, RecordRead, Moves, Open, Call
  <2>3. QED
    BY <1>5, <2>1, <2>2
<1>9. ASSUME NEW c \in Calls, AbandonEdit(c) PROVE WorkInv'
  <2>1. /\ UNCHANGED <<tasks, file>> /\ \A d \in Calls \ {c} : call'[d] = call[d]
        /\ call'[c].phase = "done" /\ call'[c].task = call[c].task /\ call'[c].fresh = call[c].fresh
        /\ call[c].phase = "failing"
    BY <1>1, <1>9 DEF AbandonEdit, Moves, Call, disk
  <2>2. CASE since' = since
    BY <1>5, <2>1, <2>2
  <2>3. CASE call[c].fresh /\ since' = [since EXCEPT ![call[c].task] = 0]
    <3>1. ASSUME file \in Calls, StillWriting(call[file].task) PROVE call[file].task # call[c].task
      <4>1. file # c
        BY <1>1, <2>1, <3>1 DEF WrittenByCall
      <4>2. QED
        BY <1>1, <2>1, <2>3, <3>1, <4>1 DEF FreshIsFirst, Open
    <3>2. \A t \in Tasks : since'[t] = since[t] \/ (since'[t] = 0 /\ t = call[c].task)
      BY <1>1, <2>3 DEF TypeOK
    <3>3. QED
      BY <1>5, <2>1, <3>1, <3>2
  <2>4. QED
    BY <1>9, <2>2, <2>3 DEF AbandonEdit
<1>10. ASSUME NEW c \in Calls, NEW t \in Tasks, ReadFile(c, t) PROVE WorkInv'
  <2>1. /\ UNCHANGED <<status, caller, file, since>> /\ \A d \in Calls \ {c} : call'[d] = call[d]
        /\ call'[c].phase = "reading" /\ call[c].phase = "idle"
    BY <1>1, <1>10 DEF ReadFile, NoGrant, tasks, ledger, disk
  <2>2. \A d \in Calls : Open(d)' => Open(d) /\ call'[d] = call[d]
    BY <2>1 DEF Open
  <2>3. \A d \in Calls : call[d].phase \in {"written", "done"} => call'[d] = call[d]
    BY <2>1
  <2>4. \A u \in Tasks : StillWriting(u)' => StillWriting(u)
    BY <2>1 DEF StillWriting
  <2>5. QED
    BY <2>1, <2>2, <2>3, <2>4, QuietStep
<1>11. ASSUME NEW o \in Outsiders, WriteOutside(o) PROVE WorkInv'
  <2>1. UNCHANGED <<tasks, since, call>> /\ file' \notin Calls
    BY <1>11, DistinctAssumption DEF WriteOutside, ledger
  <2>2. QED
    BY <1>5, <2>1
<1>12. ASSUME NEW c \in Calls, Replace(c) PROVE WorkInv'
  <2>1. /\ UNCHANGED <<status, caller, since>> /\ file' = c /\ call[c].phase = "replacing"
        /\ call'[c].phase = "written" /\ call'[c].task = call[c].task
        /\ call'[c].fresh = call[c].fresh /\ \A d \in Calls \ {c} : call'[d] = call[d]
    BY <1>1, <1>12 DEF Replace, Moves, Call, tasks, ledger
  <2>2. Open(c) /\ Busy(c) /\ call[c].task \in Tasks /\ status[call[c].task] # "unborn"
    BY <1>1, <2>1 DEF Open, Busy, CallsOfWorkers
  <2>3. WrittenByCall'
    BY <2>1, <2>2 DEF WrittenByCall
  <2>4. WriterHolds'
    BY <1>1, <2>1, <2>2 DEF WriterHolds, OpenIsDeepest, StillWriting
  <2>5. FreshIsFirst'
    <3>1. SUFFICES ASSUME NEW d \in Calls \ {c}, Open(d)'
                   PROVE  call[c].task # call[d].task
      BY <2>1 DEF FreshIsFirst
    <3>2. Busy(d)
      BY <2>1, <3>1 DEF Open, Busy
    <3>3. QED
      BY <1>1, <2>2, <3>2 DEF OneAtATime
  <2>6. HoldersNest' /\ UnbornIsAlone'
    BY <1>1, <2>1 DEF HoldersNest, UnbornIsAlone, Holders, StillWriting, Under
  <2>7. QED
    BY <2>3, <2>4, <2>5, <2>6 DEF WorkInv
<1>13. ASSUME NEW c \in Calls, NEW t \in Tasks, Begin(c, t) PROVE WorkInv'
  <2>1. /\ UNCHANGED <<status, caller, file>> /\ \A d \in Calls \ {c} : call'[d] = call[d]
        /\ call[c].phase = "idle" /\ call'[c].task = t
        /\ call'[c].fresh => MayClaim(t)
        /\ status[t] \in {"running", "stopping"} /\ now' = now + 1
    BY <1>1, <1>13 DEF Begin, tasks, disk
  <2>2. \A u \in Tasks \ {t} : since'[u] = since[u] \/ (since'[u] = 0 /\ ~StillWriting(u))
    <3>1. \/ since' = [u \in Tasks |-> IF u \in Over THEN 0 ELSE since[u]]
          \/ since' = [u \in Tasks |-> IF u = t THEN now' ELSE IF u \in Over THEN 0 ELSE since[u]]
      BY <1>13 DEF Begin
    <3>2. QED
      BY <3>1 DEF Over, StillWriting
  <2>3. \/ since'[t] = since[t] /\ Holds(t)
        \/ since'[t] = now + 1 /\ MayClaim(t)
    BY <1>13, <2>1 DEF Begin, Over
  <2>4. now \in Nat /\ \A u \in Tasks : since[u] \in Nat /\ since[u] <= now
    BY <1>1 DEF TypeOK, ClaimsInOrder
  <2>5. ASSUME file \in Calls, StillWriting(call[file].task)
        PROVE  /\ since'[call[file].task] # 0
               /\ MayClaim(t) => call[file].task # t
               /\ \A d \in Calls : /\ Open(d)' /\ call'[d].fresh /\ d # file
                                   => call[file].task # call'[d].task
    <3>1. call[file].task \in Tasks /\ call[file].task \in Holders
      BY <1>1, <2>5 DEF WrittenByCall, WriterHolds, Holders
    <3>2. since'[call[file].task] # 0
      BY <2>2, <2>3, <2>4, <2>5, <3>1 DEF Holders
    <3>3. MayClaim(t) => call[file].task # t
      BY <3>1 DEF MayClaim
    <3>4. ASSUME NEW d \in Calls, Open(d)', call'[d].fresh, d # file
          PROVE  call[file].task # call'[d].task
      <4>1. CASE d = c
        BY <2>1, <3>3, <3>4, <4>1
      <4>2. CASE d # c
        BY <1>1, <2>1, <2>5, <3>4, <4>2 DEF FreshIsFirst, Open
      <4>3. QED
        BY <4>1, <4>2
    <3>5. QED
      BY <3>2, <3>3, <3>4
  <2>6. /\ \A d \in Calls : call[d].phase \in {"written", "done"} => call'[d] = call[d]
        /\ \A u \in Tasks : StillWriting(u)' => StillWriting(u)
    BY <2>1 DEF StillWriting
  <2>7. WrittenByCall' /\ WriterHolds' /\ FreshIsFirst'
    BY <2>1, <2>5, <2>6, WriterFrame
  <2>8. UnbornIsAlone'
    BY <1>1, <2>1 DEF UnbornIsAlone
  <2>9. HoldersNest'
    <3>1. CASE since'[t] = since[t]
      <4>1. \A u \in Holders' : u \in Holders /\ since'[u] = since[u]
        BY <2>1, <2>2, <3>1 DEF Holders, StillWriting
      <4>2. QED
        BY <1>1, <2>1, <4>1, NestFrame
    <3>2. CASE since'[t] = now + 1 /\ MayClaim(t)
      <4>1. \A u \in Tasks \ {t} : since'[u] # 0 => since'[u] = since[u]
        BY <2>2
      <4>2. \A u \in Tasks \ {t} : u \in Holders' => since'[u] < since'[t]
        BY <2>4, <3>2, <4>1 DEF Holders
      <4>3. QED
        BY <1>1, <2>1, <3>2, <4>1, <4>2, NestGrows
    <3>3. QED
      BY <2>3, <3>1, <3>2
  <2>10. QED
    BY <2>7, <2>8, <2>9 DEF WorkInv
<1>14. QED
  BY <1>3, <1>4, <1>6, <1>7, <1>8, <1>9, <1>10, <1>11, <1>12, <1>13 DEF Next

\* Whose work is on the disk, in every reachable state.
THEOREM WorkAlways == Spec => [](Claimed /\ WorkInv)
<1>1. Init => WorkInv
  BY DistinctAssumption
  DEF Init, WorkInv, WrittenByCall, WriterHolds, FreshIsFirst, HoldersNest, UnbornIsAlone, Holders
<1>2. Claimed /\ Claimed' /\ WorkInv /\ [Next]_vars => WorkInv'
  <2>1. CASE Claimed /\ Claimed' /\ WorkInv /\ Next
    BY <2>1, WorkStep DEF Claimed
  <2>2. CASE WorkInv /\ UNCHANGED vars
    BY <2>2 DEF vars, WorkInv, WrittenByCall, WriterHolds, FreshIsFirst, HoldersNest, UnbornIsAlone,
                Holders, StillWriting, Under, Open
  <2>3. QED
    BY <2>1, <2>2
<1>3. QED
  BY <1>1, <1>2, ClaimsAlways, PTL DEF Spec

\* No task replaces the work of another that may still write, unless that one
\* dispatched it: whoever wrote last still holds its claim, and so does whoever
\* is about to write, and holders are a chain of callers.
THEOREM LiveWorkStays == Spec => []LiveWorkIsKept
<1>1. Claimed /\ WorkInv => LiveWorkIsKept
  <2>1. SUFFICES ASSUME Claimed, WorkInv, NEW c \in Calls, NEW d \in Calls,
                        call[c].phase = "replacing", StillWriting(call[c].task),
                        file = d, StillWriting(call[d].task), call[c].task # call[d].task
                 PROVE  Under(call[c].task, call[d].task)
    BY DEF LiveWorkIsKept
  <2>2. call[c].task \in Tasks /\ call[d].task \in Tasks
    BY <2>1 DEF Claimed, CallsOfWorkers, Busy, WorkInv, WrittenByCall
  <2>3. since[call[d].task] # 0
    BY <2>1 DEF WorkInv, WriterHolds
  <2>4. since[call[c].task] # 0 /\ since[call[d].task] < since[call[c].task]
    BY <2>1, <2>2, <2>3 DEF Claimed, OpenIsDeepest, Open
  <2>5. call[c].task \in Holders /\ call[d].task \in Holders
    BY <2>1, <2>2, <2>3, <2>4 DEF Holders
  <2>6. QED
    BY <2>1, <2>4, <2>5 DEF WorkInv, HoldersNest
<1>2. QED
  BY <1>1, WorkAlways, PTL

=============================================================================
