--------------------------- MODULE WorkerSlotsProofs ---------------------------
(* For any number of tasks, engines, slots, calls and breaks: the types, the  *)
(* count of parked slots, the limits and the reserve of an engine, and the    *)
(* cap on the background lane.                                                *)
EXTENDS WorkerSlots, FiniteSetTheorems, TLAPS

Task == [st : {"pending", "running", "suspended", "over"},
         claim : Runs \union {None}, asked : BOOLEAN, requeued : BOOLEAN]
Approval == [st : {"none", "pending", "decided"},
             task : Tasks \union {None}, claim : Runs \union {None}]
Loop == [at : {"idle", "asked", "answered", "down"}, free : 0..MaxWorkers, run : Runs \union {None}]
Run == [st : {"none", "sent", "over"} \union HasSlot, task : Tasks \union {None},
        eng : Engines \union {None}, waits : Nat, parked : BOOLEAN]
Call == [st : {"none", "ready", "asked", "waiting", "over"},
         run : Runs \union {None}, task : Tasks \union {None}, eng : Engines \union {None},
         relayed : BOOLEAN, on : Calls \union {None}]

\* What runs was handed out.
Known(i) == i # None => run[i].st # "none"

TasksOK ==
    /\ task \in [Tasks -> Task]
    /\ \A t \in Tasks : (task[t].claim # None <=> task[t].st = "running") /\ Known(task[t].claim)

ApprovalsOK ==
    /\ approval \in [Calls -> Approval]
    /\ \A a \in Calls : approval[a].st = "pending" => approval[a].task \in Tasks /\ Known(approval[a].claim)

\* The run of an answer has not started, and belongs to the engine that asked.
LoopsOK ==
    /\ loop \in [Engines -> Loop]
    /\ \A e \in Engines : loop[e].run # None => loop[e].at = "answered"
    /\ \A e \in Engines : loop[e].at = "answered" =>
         /\ loop[e].run \in Runs
         /\ run[loop[e].run].st = "sent" /\ run[loop[e].run].eng = e

OneRun(r) ==
    /\ r \in Run
    /\ r.waits > 0 => r.st \in HasSlot /\ r.parked
    /\ r.st \in {"sent"} \union HasSlot => r.task \in Tasks /\ r.eng \in Engines

RunsOK == run \in [Runs -> Run] /\ \A i \in Runs : OneRun(run[i])

\* A call of a run is made in its slot, on its engine.
OneCall(C) ==
    /\ C \in Call
    /\ C.st \in {"ready", "asked", "waiting"} => C.task \in Tasks
    /\ C.st \in {"asked", "waiting"} => C.on \in Calls
    /\ C.run # None => C.st \in {"asked", "waiting"}

Owned(C) == C.run # None => run[C.run].st \in HasSlot \union {"over"} /\ run[C.run].eng = C.eng

CallsOK == call \in [Calls -> Call] /\ \A c \in Calls : OneCall(call[c]) /\ Owned(call[c])

TInv == TasksOK /\ ApprovalsOK /\ LoopsOK /\ RunsOK /\ CallsOK /\ breaks \in 0..MaxBreaks

LEMMA TInvType == TInv => TypeOK
BY DEF TInv, TypeOK, TasksOK, ApprovalsOK, LoopsOK, RunsOK, CallsOK, OneRun, OneCall, Task, Approval,
       Loop, Run, Call

-----------------------------------------------------------------------------
(* Numbers.                                                                   *)
LEMMA NoneIsNone == None \notin Runs /\ None \notin Tasks /\ None \notin Engines /\ None \notin Calls
BY DEF None, Runs, Tasks, Engines, Calls

LEMMA MaxOfTwo ==
  ASSUME NEW n \in Int
  PROVE  Max({0, n}) = IF n > 0 THEN n ELSE 0
<1>1. \E x \in {0, n} : \A y \in {0, n} : x >= y
  OBVIOUS
<1>2. Max({0, n}) \in {0, n} /\ \A y \in {0, n} : Max({0, n}) >= y
  BY <1>1 DEF Max
<1>3. QED
  BY <1>2

LEMMA MinOfTwo ==
  ASSUME NEW m \in Int, NEW n \in Int
  PROVE  Min({m, n}) = IF m < n THEN m ELSE n
<1>1. \E x \in {m, n} : \A y \in {m, n} : x <= y
  OBVIOUS
<1>2. Min({m, n}) \in {m, n} /\ \A y \in {m, n} : Min({m, n}) <= y
  BY <1>1 DEF Min
<1>3. QED
  BY <1>2

LEMMA RunsAreFinite ==
  ASSUME NEW S \in SUBSET Runs
  PROVE  IsFiniteSet(S) /\ Cardinality(S) \in Nat
<1>1. NTasks + NTasks * MaxBreaks \in Int
  BY LimitsAssumption
<1>2. IsFiniteSet(Runs)
  BY <1>1, FS_Interval DEF Runs
<1>3. QED
  BY <1>2, FS_Subset, FS_CardinalityType

LEMMA CallsAreFinite ==
  ASSUME NEW S \in SUBSET Calls
  PROVE  IsFiniteSet(S) /\ Cardinality(S) \in Nat
<1>1. IsFiniteSet(Calls)
  BY LimitsAssumption, FS_Interval DEF Calls
<1>2. QED
  BY <1>1, FS_Subset, FS_CardinalityType

LEMMA TasksAreFinite ==
  ASSUME NEW S \in SUBSET Tasks
  PROVE  IsFiniteSet(S) /\ Cardinality(S) \in Nat
<1>1. IsFiniteSet(Tasks)
  BY LimitsAssumption, FS_Interval DEF Tasks
<1>2. QED
  BY <1>1, FS_Subset, FS_CardinalityType

-----------------------------------------------------------------------------
(* Records.                                                                   *)
LEMMA ReportedIs ==
  ASSUME NEW r, OneRun(r), NEW n \in Int
  PROVE  LET q == Reported(r, n)
         IN /\ OneRun(q) /\ q.st = r.st /\ q.eng = r.eng /\ q.task = r.task
            /\ r.parked => q.parked
            /\ r.st \in HasSlot => q.waits = IF r.waits + n > 0 THEN r.waits + n ELSE 0
<1> DEFINE w == Max({0, r.waits + n})
<1>1. CASE r.st \notin HasSlot
  BY <1>1 DEF Reported
<1>2. CASE r.st \in HasSlot
  <2>1. Reported(r, n) = [r EXCEPT !.waits = w, !.parked = r.parked \/ w > 0]
    BY <1>2 DEF Reported
  <2>2. r.waits + n \in Int /\ r \in Run
    BY DEF OneRun, Run
  <2>3. w = IF r.waits + n > 0 THEN r.waits + n ELSE 0
    BY <2>2, MaxOfTwo
  <2>4. w \in Nat
    BY <2>2, <2>3
  <2> HIDE DEF w
  <2>5. /\ Reported(r, n) \in Run /\ Reported(r, n).st = r.st /\ Reported(r, n).eng = r.eng
        /\ Reported(r, n).task = r.task /\ Reported(r, n).waits = w
        /\ Reported(r, n).parked = (r.parked \/ w > 0)
    BY <2>1, <2>2, <2>4 DEF Run
  <2>6. QED
    BY <1>2, <2>3, <2>5 DEF OneRun
<1>3. QED
  BY <1>1, <1>2

LEMMA RunOverIs ==
  ASSUME NEW r \in Run
  PROVE  OneRun(RunOver(r)) /\ RunOver(r).st = "over" /\ RunOver(r).eng = r.eng
<1>1. r.eng \in Engines \union {None}
  BY DEF Run
<1>2. /\ RunOver(r).st = "over" /\ RunOver(r).eng = r.eng /\ RunOver(r).waits = 0
      /\ RunOver(r).task = None /\ RunOver(r).parked = FALSE
  BY DEF RunOver, NoRun
<1>3. RunOver(r) \in Run
  BY <1>1 DEF RunOver, NoRun, Run
<1>4. QED
  BY <1>2, <1>3 DEF OneRun, HasSlot

LEMMA NoCallIs ==
  /\ OneCall(NoCall) /\ NoCall.run = None /\ NoCall.st = "none"
  /\ OneCall(CallOver) /\ CallOver.run = None /\ CallOver.st = "over"
BY DEF OneCall, NoCall, CallOver, Call

LEMMA TasksAre ==
  /\ Queued \in Task /\ Queued.st = "pending" /\ Queued.claim = None
  /\ TaskOver \in Task /\ TaskOver.st = "over" /\ TaskOver.claim = None
  /\ [Queued EXCEPT !.requeued = TRUE] \in Task
  /\ [Queued EXCEPT !.requeued = TRUE].st = "pending" /\ [Queued EXCEPT !.requeued = TRUE].claim = None
BY DEF Queued, TaskOver, Task

LEMMA ApprovalsAre ==
  /\ NoApproval \in Approval /\ NoApproval.st = "none"
  /\ Decided \in Approval /\ Decided.st = "decided"
BY DEF NoApproval, Decided, Approval

-----------------------------------------------------------------------------
(* Types are kept.                                                            *)

\* No run is forgotten, changes its engine or starts again.
RunsLater ==
    \A i \in Runs :
        /\ run[i].st # "none" => run'[i].st # "none" /\ run'[i].eng = run[i].eng
        /\ run[i].st \in HasSlot \union {"over"} => run'[i].st \in HasSlot \union {"over"}

\* No answer is touched.
SentStays == \A i \in Runs : run[i].st = "sent" => run'[i].st = "sent"

LEMMA RunsSame == ASSUME RunsOK, UNCHANGED run PROVE RunsOK' /\ RunsLater /\ SentStays
BY DEF RunsOK, RunsLater, SentStays, OneRun

LEMMA TasksSame == ASSUME TasksOK, UNCHANGED task, RunsLater PROVE TasksOK'
<1>1. \A t \in Tasks : task[t].claim \in Runs \union {None}
  BY DEF TasksOK, Task
<1>2. QED
  BY <1>1 DEF TasksOK, RunsLater, Known

LEMMA ApprovalsSame ==
  ASSUME ApprovalsOK, RunsLater,
         approval' \in [Calls -> Approval],
         \A a \in Calls : approval'[a] = approval[a] \/ approval'[a].st = "decided"
  PROVE  ApprovalsOK'
<1>1. \A a \in Calls : approval[a].claim \in Runs \union {None}
  BY DEF ApprovalsOK, Approval
<1>2. QED
  BY <1>1 DEF ApprovalsOK, RunsLater, Known

LEMMA ApprovalsStay == ASSUME ApprovalsOK, RunsLater, UNCHANGED approval PROVE ApprovalsOK'
BY ApprovalsSame DEF ApprovalsOK

LEMMA ApprovalDecided ==
  ASSUME ApprovalsOK, RunsLater, NEW a \in Calls, approval' = [approval EXCEPT ![a] = Decided]
  PROVE  ApprovalsOK'
BY ApprovalsSame, ApprovalsAre DEF ApprovalsOK

LEMMA ApprovalsClosed ==
  ASSUME ApprovalsOK, RunsLater, NEW S, ClosesApprovals(S)
  PROVE  ApprovalsOK'
BY ApprovalsSame, ApprovalsAre DEF ApprovalsOK, ClosesApprovals

LEMMA LoopsSame == ASSUME LoopsOK, UNCHANGED loop, RunsLater, SentStays PROVE LoopsOK'
<1>1. \A e \in Engines : loop[e].run \in Runs \union {None}
  BY DEF LoopsOK, Loop
<1>2. QED
  BY <1>1 DEF LoopsOK, RunsLater, SentStays

\* One loop changes; no answer of another engine is touched.
LEMMA LoopSet ==
  ASSUME LoopsOK, RunsLater, NEW e \in Engines, NEW l \in Loop, loop' = [loop EXCEPT ![e] = l],
         \A j \in Runs : run[j].st = "sent" /\ run[j].eng # e => run'[j].st = "sent",
         l.run # None => l.at = "answered",
         l.at = "answered" => l.run \in Runs /\ run'[l.run].st = "sent" /\ run'[l.run].eng = e
  PROVE  LoopsOK'
<1>1. loop' \in [Engines -> Loop] /\ loop'[e] = l /\ \A f \in Engines : f # e => loop'[f] = loop[f]
  BY DEF LoopsOK
<1>2. ASSUME NEW f \in Engines
      PROVE  loop'[f].run # None => loop'[f].at = "answered"
  BY <1>1 DEF LoopsOK
<1>3. ASSUME NEW f \in Engines, loop'[f].at = "answered"
      PROVE  loop'[f].run \in Runs /\ run'[loop'[f].run].st = "sent" /\ run'[loop'[f].run].eng = f
  <2>1. CASE f = e
    BY <1>1, <1>3, <2>1
  <2>2. CASE f # e
    <3>1. /\ loop'[f] = loop[f] /\ loop[f].run \in Runs
          /\ run[loop[f].run].st = "sent" /\ run[loop[f].run].eng = f
      BY <1>1, <1>3, <2>2 DEF LoopsOK
    <3>2. run'[loop[f].run].st = "sent" /\ run'[loop[f].run].eng = f
      BY <2>2, <3>1 DEF RunsLater
    <3>3. QED
      BY <3>1, <3>2
  <2>3. QED
    BY <2>1, <2>2
<1>4. QED
  BY <1>1, <1>2, <1>3 DEF LoopsOK

LEMMA CallsLater ==
  ASSUME CallsOK, RunsLater, NEW c \in Calls
  PROVE  /\ OneCall(call[c])
         /\ call[c].run # None => /\ call[c].run \in Runs
                                 /\ run'[call[c].run].eng = call[c].eng
                                 /\ run'[call[c].run].st \in HasSlot \union {"over"}
<1>1. call[c].run \in Runs \union {None}
  BY DEF CallsOK, Call
<1>2. QED
  BY <1>1 DEF CallsOK, RunsLater, Owned, HasSlot

LEMMA CallsMove ==
  ASSUME CallsOK, RunsLater, call' \in [Calls -> Call],
         \A c \in Calls : \/ call'[c] = call[c]
                          \/ /\ OneCall(call'[c])
                             /\ call'[c].run # None =>
                                  /\ run'[call'[c].run].st \in HasSlot \union {"over"}
                                  /\ run'[call'[c].run].eng = call'[c].eng
  PROVE  CallsOK'
<1>1. ASSUME NEW c \in Calls
      PROVE  /\ OneCall(call'[c])
             /\ call'[c].run # None => /\ run'[call'[c].run].st \in HasSlot \union {"over"}
                                      /\ run'[call'[c].run].eng = call'[c].eng
  BY CallsLater
<1>2. QED
  BY <1>1 DEF CallsOK, OneCall, Owned

LEMMA CallsSame == ASSUME CallsOK, RunsLater, UNCHANGED call PROVE CallsOK'
BY CallsMove DEF CallsOK

\* One call changes; it stays with its run, or leaves it.
LEMMA CallSet ==
  ASSUME CallsOK, RunsLater, NEW c \in Calls, NEW C, OneCall(C),
         C.run = None \/ (C.run = call[c].run /\ C.eng = call[c].eng),
         call' = [call EXCEPT ![c] = C]
  PROVE  CallsOK'
<1>1. C \in Call
  BY DEF OneCall
<1>2. call' \in [Calls -> Call] /\ call'[c] = C /\ \A d \in Calls : d # c => call'[d] = call[d]
  BY <1>1 DEF CallsOK
<1>3. C.run # None => /\ run'[C.run].st \in HasSlot \union {"over"}
                      /\ run'[C.run].eng = C.eng
  BY CallsLater
<1>4. QED
  BY <1>2, <1>3, CallsMove

\* One run changes that has a slot.
LEMMA RunSet ==
  ASSUME RunsOK, NEW i \in Runs, NEW r, OneRun(r), run' = [run EXCEPT ![i] = r],
         run[i].st # "none" => r.st # "none" /\ r.eng = run[i].eng,
         run[i].st \in HasSlot \union {"over"} => r.st \in HasSlot \union {"over"}
  PROVE  /\ RunsOK' /\ RunsLater
         /\ run'[i] = r /\ \A j \in Runs : j # i => run'[j] = run[j]
         /\ run[i].st # "sent" => SentStays
<1>1. r \in Run
  BY DEF OneRun
<1>2. run' \in [Runs -> Run] /\ run'[i] = r /\ \A j \in Runs : j # i => run'[j] = run[j]
  BY <1>1 DEF RunsOK
<1>3. RunsLater
  BY <1>2 DEF RunsLater
<1>4. run[i].st # "sent" => SentStays
  BY <1>2 DEF SentStays
<1>5. RunsOK'
  BY <1>2 DEF RunsOK, OneRun
<1>6. QED
  BY <1>2, <1>3, <1>4, <1>5

\* What is left of TInv when only runs and calls change.
LEMMA Elsewhere ==
  ASSUME TInv, RunsLater, SentStays, UNCHANGED <<task, approval, loop, breaks>>
  PROVE  TasksOK' /\ ApprovalsOK' /\ LoopsOK' /\ breaks' \in 0..MaxBreaks
BY TasksSame, ApprovalsStay, LoopsSame DEF TInv

LEMMA BreakIs == ASSUME TInv, Break PROVE breaks' \in 0..MaxBreaks
BY LimitsAssumption DEF TInv, Break

\* A report of a call reaches its slot, if it still has one.
LEMMA ReportIs ==
  ASSUME TInv, NEW c \in Calls, NEW n \in Int, run' = ReportedBy(c, n)
  PROVE  /\ RunsOK' /\ RunsLater /\ SentStays
         /\ \A i \in Runs : run'[i] = IF i = call[c].run THEN Reported(run[i], n) ELSE run[i]
<1>1. CASE call[c].run = None
  <2>1. run' = run
    BY <1>1 DEF ReportedBy
  <2>2. QED
    BY <1>1, <2>1, RunsSame, NoneIsNone DEF TInv
<1>2. CASE call[c].run # None
  <2>1. PICK i \in Runs : i = call[c].run /\ run[i].st \in HasSlot \union {"over"}
    BY <1>2 DEF TInv, CallsOK, Call, Owned
  <2>2. run' = [run EXCEPT ![i] = Reported(run[i], n)]
    BY <1>2, <2>1 DEF ReportedBy
  <2>3. OneRun(run[i])
    BY DEF TInv, RunsOK
  <2>4. /\ OneRun(Reported(run[i], n)) /\ Reported(run[i], n).st = run[i].st
        /\ Reported(run[i], n).eng = run[i].eng
    BY <2>3, ReportedIs
  <2>5. run[i].st \notin {"sent", "none"}
    BY <2>1 DEF HasSlot
  <2>6. RunsOK
    BY DEF TInv
  <2>7. /\ RunsOK' /\ RunsLater /\ SentStays
        /\ run'[i] = Reported(run[i], n) /\ \A j \in Runs : j # i => run'[j] = run[j]
    BY <2>2, <2>4, <2>5, <2>6, RunSet
  <2>8. QED
    BY <2>1, <2>7
<1>3. QED
  BY <1>1, <1>2

LEMMA TypeOfPolling ==
  ASSUME TInv, NEW e \in Engines, Poll(e) \/ Answer(e) \/ Start(e) \/ LoseAnswer(e)
  PROVE  TInv'
<1> USE DEF TInv
<1>0. loop[e] \in Loop
  BY DEF LoopsOK
<1>1. CASE Poll(e)
  <2> DEFINE l == [at |-> "asked", free |-> FreeSlots(e), run |-> None]
  <2>1. UNCHANGED <<task, approval, run, call, breaks>> /\ loop' = [loop EXCEPT ![e] = l]
    BY <1>1 DEF Poll
  <2>2. FreeSlots(e) \in 0..MaxWorkers
    <3> DEFINE m == MaxWorkers - Cardinality(Running(e))
               n == MaxActive - Cardinality(Slots(e))
    <3>1. Cardinality(Running(e)) \in Nat /\ Cardinality(Slots(e)) \in Nat
      BY RunsAreFinite DEF Running, Slots
    <3>2. m \in Int /\ n \in Int /\ m <= MaxWorkers
      BY <3>1, LimitsAssumption
    <3> HIDE DEF m, n
    <3>3. MaxWorkers \in Int
      BY LimitsAssumption
    <3>4. Min({m, n}) = IF m < n THEN m ELSE n
      BY <3>2, MinOfTwo
    <3>5. Min({m, n}) \in Int /\ Min({m, n}) <= MaxWorkers
      BY <3>2, <3>3, <3>4
    <3> USE DEF m, n
    <3>6. FreeSlots(e) = IF Min({m, n}) > 0 THEN Min({m, n}) ELSE 0
      BY <3>5, MaxOfTwo DEF FreeSlots
    <3>7. QED
      BY <3>5, <3>6, LimitsAssumption
  <2>3. l \in Loop /\ l.run = None /\ l.at = "asked"
    BY <2>2 DEF Loop
  <2> HIDE DEF l
  <2>4. RunsLater /\ SentStays /\ RunsOK'
    BY <2>1, RunsSame
  <2>5. LoopsOK'
    <3>1. LoopsOK /\ \A j \in Runs : run[j].st = "sent" /\ run[j].eng # e => run'[j].st = "sent"
      BY <2>4 DEF SentStays
    <3>2. l.run = None /\ l.at # "answered"
      BY <2>3
    <3>3. QED
      BY <2>1, <2>3, <2>4, <3>1, <3>2, LoopSet
  <2>6. QED
    BY <2>1, <2>4, <2>5, TasksSame, ApprovalsStay, CallsSame
<1>2. CASE Answer(e)
  <2>1. UNCHANGED <<approval, call, breaks>>
    BY <1>2 DEF Answer
  <2>2. CASE loop' = [loop EXCEPT ![e] = IdleLoop] /\ UNCHANGED <<task, run>>
    <3>1. IdleLoop \in Loop /\ IdleLoop.run = None /\ IdleLoop.at = "idle"
      BY LimitsAssumption DEF IdleLoop, Loop
    <3>2. RunsLater /\ SentStays /\ RunsOK'
      BY <2>2, RunsSame
    <3>3. LoopsOK'
      BY <2>2, <3>1, <3>2, LoopSet DEF SentStays
    <3>4. QED
      BY <2>1, <2>2, <3>2, <3>3, TasksSame, ApprovalsStay, CallsSame
  <2>3. ASSUME NEW t \in Tasks, NEW i \in Runs, run[i].st = "none",
               task' = [task EXCEPT ![t] = [task[t] EXCEPT !.st = "running", !.claim = i, !.asked = FALSE]],
               run' = [run EXCEPT ![i] = [NoRun EXCEPT !.st = "sent", !.task = t, !.eng = e]],
               loop' = [loop EXCEPT ![e] = [at |-> "answered", free |-> 0, run |-> i]]
        PROVE  TInv'
    <3> DEFINE r == [NoRun EXCEPT !.st = "sent", !.task = t, !.eng = e]
               u == [task[t] EXCEPT !.st = "running", !.claim = i, !.asked = FALSE]
               l == [at |-> "answered", free |-> 0, run |-> i]
    <3>1. r.st = "sent" /\ r.task = t /\ r.eng = e /\ r.waits = 0 /\ r \in Run
      BY DEF NoRun, Run
    <3>2. OneRun(r)
      BY <3>1 DEF OneRun
    <3>3. RunsOK' /\ RunsLater /\ run'[i] = r /\ \A j \in Runs : j # i => run'[j] = run[j]
      <4>1. run[i].st \notin HasSlot \union {"over"}
        BY <2>3 DEF HasSlot
      <4>2. QED
        BY <2>3, <3>1, <3>2, <4>1, RunSet
    <3>4. SentStays
      BY <2>3, <3>3 DEF SentStays
    <3>5. TasksOK'
      <4>1. task[t] \in Task
        BY DEF TasksOK
      <4>2. u \in Task /\ u.st = "running" /\ u.claim = i
        BY <4>1 DEF Task
      <4>3. task' \in [Tasks -> Task] /\ task'[t] = u /\ \A v \in Tasks : v # t => task'[v] = task[v]
        BY <2>3, <4>2 DEF TasksOK
      <4>4. i # None /\ \A v \in Tasks : task[v].claim \in Runs \union {None}
        BY NoneIsNone DEF TasksOK, Task
      <4>5. ASSUME NEW v \in Tasks
            PROVE  /\ task'[v].claim # None <=> task'[v].st = "running"
                   /\ task'[v].claim # None => run'[task'[v].claim].st # "none"
        <5>1. CASE v = t
          BY <3>1, <3>3, <4>2, <4>3, <4>4, <5>1, ZenonT(60)
        <5>2. CASE v # t
          <6>1. /\ task'[v] = task[v]
                /\ task[v].claim # None <=> task[v].st = "running"
                /\ task[v].claim # None => run[task[v].claim].st # "none"
            BY <4>3, <5>2 DEF TasksOK, Known
          <6>2. QED
            BY <3>3, <4>4, <6>1 DEF RunsLater
        <5>3. QED
          BY <5>1, <5>2
      <4>6. QED
        BY <4>3, <4>5 DEF TasksOK, Known
    <3>6. LoopsOK'
      <4>1. l \in Loop /\ l.run = i /\ l.at = "answered"
        BY LimitsAssumption DEF Loop
      <4>2. \A j \in Runs : run[j].st = "sent" /\ run[j].eng # e => run'[j].st = "sent"
        BY <3>4 DEF SentStays
      <4>3. l.run \in Runs /\ run'[l.run].st = "sent" /\ run'[l.run].eng = e
        BY <3>1, <3>3, <4>1
      <4>4. LoopsOK /\ RunsLater /\ loop' = [loop EXCEPT ![e] = l]
        BY <2>3, <3>3
      <4> HIDE DEF l
      <4>5. QED
        BY <4>1, <4>2, <4>3, <4>4, LoopSet
    <3>7. QED
      BY <2>1, <3>3, <3>5, <3>6, ApprovalsStay, CallsSame
  <2>4. QED
    BY <1>2, <2>2, <2>3 DEF Answer, NextClaimable
<1>3. CASE Start(e) \/ LoseAnswer(e)
  <2>1. PICK i \in Runs : i = loop[e].run /\ run[i].st = "sent" /\ run[i].eng = e
    BY <1>3 DEF Start, LoseAnswer, LoopsOK
  <2>2. OneRun(run[i]) /\ run[i] \in Run
    BY DEF RunsOK, OneRun
  <2>3. PICK r : run' = [run EXCEPT ![i] = r] /\ OneRun(r) /\ r.st \in {"live", "over"} /\ r.eng = run[i].eng
    <3>1. CASE Start(e)
      <4> DEFINE r == [run[i] EXCEPT !.st = "live"]
      <4>1. r \in Run /\ r.st = "live" /\ r.eng = run[i].eng /\ r.task = run[i].task
            /\ r.waits = run[i].waits /\ r.parked = run[i].parked
        BY <2>2 DEF Run, HasSlot
      <4>2. OneRun(r)
        BY <2>1, <2>2, <4>1 DEF OneRun, HasSlot
      <4>3. run' = [run EXCEPT ![i] = r]
        BY <2>1, <3>1 DEF Start, RunsOK
      <4>4. QED
        BY <4>1, <4>2, <4>3
    <3>2. CASE LoseAnswer(e)
      BY <2>1, <2>2, <3>2, RunOverIs DEF LoseAnswer
    <3>3. QED
      BY <1>3, <3>1, <3>2
  <2>4. RunsOK' /\ RunsLater /\ run'[i] = r /\ \A j \in Runs : j # i => run'[j] = run[j]
    <3>1. run[i].st \notin HasSlot \union {"over"} /\ r.st # "none"
      BY <2>1, <2>3 DEF HasSlot
    <3>2. QED
      BY <2>3, <3>1, RunSet
  <2>5. LoopsOK'
    <3>1. IdleLoop \in Loop /\ IdleLoop.run = None /\ IdleLoop.at = "idle"
      BY LimitsAssumption DEF IdleLoop, Loop
    <3>2. loop' = [loop EXCEPT ![e] = IdleLoop]
      BY <1>3 DEF Start, LoseAnswer
    <3>3. QED
      BY <2>1, <2>4, <3>1, <3>2, LoopSet
  <2>6. UNCHANGED <<task, approval, call>> /\ breaks' \in 0..MaxBreaks
    BY <1>3, BreakIs DEF Start, LoseAnswer
  <2>7. QED
    BY <2>4, <2>5, <2>6, TasksSame, ApprovalsStay, CallsSame
<1>4. QED
  BY <1>1, <1>2, <1>3

\* Tasks keep their claim or lose it.
LEMMA TasksMove ==
  ASSUME TasksOK, RunsLater, task' \in [Tasks -> Task],
         \A t \in Tasks : /\ task'[t].claim # None <=> task'[t].st = "running"
                          /\ task'[t].claim \in {task[t].claim, None}
  PROVE  TasksOK'
<1>1. ASSUME NEW t \in Tasks, task'[t].claim # None
      PROVE  run'[task'[t].claim].st # "none"
  <2>1. task'[t].claim = task[t].claim /\ task[t].claim \in Runs
    BY <1>1 DEF TasksOK, Task
  <2>2. QED
    BY <1>1, <2>1 DEF TasksOK, Known, RunsLater
<1>2. QED
  BY <1>1 DEF TasksOK, Known

LEMMA TaskSet ==
  ASSUME TasksOK, RunsLater, NEW t \in Tasks, NEW u \in Task, task' = [task EXCEPT ![t] = u],
         u.claim # None <=> u.st = "running", u.claim \in {task[t].claim, None}
  PROVE  TasksOK'
<1>1. /\ task' \in [Tasks -> Task] /\ task'[t] = u
      /\ \A v \in Tasks : v # t => task'[v] = task[v]
  BY DEF TasksOK
<1>2. ASSUME NEW v \in Tasks
      PROVE  /\ task'[v].claim # None <=> task'[v].st = "running"
             /\ task'[v].claim \in {task[v].claim, None}
  BY <1>1 DEF TasksOK
<1>3. QED
  BY <1>1, <1>2, TasksMove

\* What a request for an approval does.
LEMMA RequestIs ==
  ASSUME TInv, NEW c \in Calls, NEW C \in Call, C.task \in Tasks, Request(c, C, C.task),
         C.run # None => run[C.run].st \in HasSlot \union {"over"} /\ run[C.run].eng = C.eng,
         UNCHANGED <<loop, run, breaks>>
  PROVE  TInv'
<1> DEFINE t == C.task
           p == [st |-> "pending", task |-> t, claim |-> task[t].claim]
<1>1. RunsOK' /\ RunsLater /\ SentStays /\ LoopsOK' /\ breaks' \in 0..MaxBreaks
  BY RunsSame, LoopsSame DEF TInv
<1>2. ASSUME NEW a \in Calls, call' = [call EXCEPT ![c] = [C EXCEPT !.st = "asked", !.on = a]]
      PROVE  CallsOK'
  <2> DEFINE D == [C EXCEPT !.st = "asked", !.on = a]
  <2>1. D \in Call
    BY DEF Call
  <2>2. D.st = "asked" /\ D.on = a /\ D.run = C.run /\ D.eng = C.eng /\ D.task = C.task
    BY DEF Call
  <2>3. OneCall(D)
    BY <2>1, <2>2 DEF OneCall
  <2>4. CallsOK
    BY DEF TInv
  <2>5. call' \in [Calls -> Call] /\ call'[c] = D /\ \A d \in Calls : d # c => call'[d] = call[d]
    BY <1>2, <2>1, <2>4 DEF CallsOK
  <2>6. D.run # None => run'[D.run].st \in HasSlot \union {"over"} /\ run'[D.run].eng = D.eng
    BY <2>2
  <2> HIDE DEF D
  <2>7. QED
    BY <1>1, <2>3, <2>4, <2>5, <2>6, CallsMove
<1>3. CASE /\ call' = [call EXCEPT ![c] = [C EXCEPT !.st = "asked", !.on = c]]
           /\ approval' = [approval EXCEPT ![c] = p]
           /\ task' = [task EXCEPT ![t].asked = @ \/ (t \in Background /\ task[t].st = "running")]
  <2>1. task \in [Tasks -> Task] /\ task[t] \in Task
    BY DEF TInv, TasksOK
  <2>2. PICK b \in BOOLEAN : task' = [task EXCEPT ![t] = [task[t] EXCEPT !.asked = b]]
    <3>1. (task[t].asked \/ (t \in Background /\ task[t].st = "running")) \in BOOLEAN
      BY <2>1 DEF Task
    <3>2. QED
      BY <1>3, <2>1, <3>1
  <2> DEFINE u == [task[t] EXCEPT !.asked = b]
  <2>3. u \in Task /\ u.st = task[t].st /\ u.claim = task[t].claim
    BY <2>1 DEF Task
  <2>4. TasksOK /\ (task[t].claim # None <=> task[t].st = "running")
    BY DEF TInv, TasksOK
  <2>5. TasksOK'
    <3> HIDE DEF u
    <3>1. QED
      BY <1>1, <2>2, <2>3, <2>4, TaskSet DEF u
  <2>6. p \in Approval /\ p.st = "pending" /\ p.task = t /\ p.claim = task[t].claim
    BY <2>1 DEF Approval, Task
  <2>7. ApprovalsOK
    BY DEF TInv
  <2>8. /\ approval' \in [Calls -> Approval] /\ approval'[c] = p
        /\ \A a \in Calls : a # c => approval'[a] = approval[a]
    BY <1>3, <2>6, <2>7 DEF ApprovalsOK
  <2>9. task[t].claim # None => run'[task[t].claim].st # "none"
    BY DEF TInv, TasksOK, Known
  <2>10. ASSUME NEW a \in Calls, approval'[a].st = "pending"
         PROVE  approval'[a].task \in Tasks /\ Known(approval[a].claim)'
    <3>1. CASE a = c
      BY <2>6, <2>8, <2>9, <3>1 DEF Known
    <3>2. CASE a # c
      BY <2>7, <2>8, <2>10, <3>2 DEF ApprovalsOK, Known
    <3>3. QED
      BY <3>1, <3>2
  <2>11. ApprovalsOK'
    BY <2>8, <2>10 DEF ApprovalsOK
  <2>12. CallsOK'
    BY <1>2, <1>3
  <2>13. QED
    BY <1>1, <2>5, <2>11, <2>12 DEF TInv
<1>4. ASSUME NEW a \in Calls, call' = [call EXCEPT ![c] = [C EXCEPT !.st = "asked", !.on = a]],
             UNCHANGED <<task, approval>>
      PROVE  TInv'
  BY <1>1, <1>2, <1>4, TasksSame, ApprovalsStay DEF TInv
<1>5. QED
  BY <1>3, <1>4 DEF Request, SameFingerprint

LEMMA TypeOfBeginning ==
  ASSUME TInv, NEW i \in Runs, BeginCall(i) \/ BeginAsync(i)
  PROVE  TInv'
<1>1. OneRun(run[i]) /\ run[i].st = "live" /\ run[i] \in Run
  BY DEF TInv, RunsOK, OneRun, BeginCall, BeginAsync
<1>2. run[i].task \in Tasks /\ run[i].eng \in Engines
  BY <1>1 DEF OneRun, HasSlot
<1>3. i \in Runs \union {None} /\ i # None
  BY NoneIsNone
<1>4. CASE BeginCall(i)
  <2>1. PICK c \in Calls, relayed \in BOOLEAN : Request(c, [CallOf(i) EXCEPT !.relayed = relayed], run[i].task)
    BY <1>4 DEF BeginCall
  <2> DEFINE C == [CallOf(i) EXCEPT !.relayed = relayed]
  <2>2. C \in Call /\ C.task = run[i].task /\ C.run = i /\ C.eng = run[i].eng
    BY <1>2 DEF CallOf, NoCall, Call
  <2>3. UNCHANGED <<loop, run, breaks>>
    BY <1>4 DEF BeginCall
  <2>4. Request(c, C, C.task)
    BY <2>1, <2>2
  <2> HIDE DEF C
  <2>5. QED
    BY <1>1, <1>2, <2>2, <2>3, <2>4, RequestIs DEF HasSlot
<1>5. CASE BeginAsync(i)
  <2>1. PICK c \in Calls : call' = [call EXCEPT ![c] = [InBackground(CallOf(i)) EXCEPT !.st = "ready"]]
    BY <1>5 DEF BeginAsync
  <2> DEFINE C == [InBackground(CallOf(i)) EXCEPT !.st = "ready"]
  <2>2. C \in Call /\ C.task = run[i].task /\ C.run = None /\ C.st = "ready"
    BY <1>2 DEF InBackground, CallOf, NoCall, Call
  <2>3. OneCall(C)
    BY <1>2, <2>2 DEF OneCall
  <2>4. UNCHANGED <<task, approval, loop, run, breaks>>
    BY <1>5 DEF BeginAsync
  <2>5. RunsOK' /\ RunsLater /\ SentStays
    BY <2>4, RunsSame DEF TInv
  <2>6. CallsOK'
    <3>1. CallsOK
      BY DEF TInv
    <3> HIDE DEF C
    <3>2. QED
      BY <2>1, <2>2, <2>3, <2>5, <3>1, CallSet DEF C
  <2>7. QED
    BY <2>4, <2>5, <2>6, Elsewhere DEF TInv
<1>6. QED
  BY <1>4, <1>5

LEMMA TypeOfCalls ==
  ASSUME TInv, NEW c \in Calls,
         AskAsync(c) \/ BeginWait(c) \/ EndWait(c) \/ EndCall(c) \/ Upgrade(c) \/ Decide(c) \/ Sweep(c)
  PROVE  TInv'
<1>1. CallsOK /\ RunsOK /\ ApprovalsOK /\ call[c] \in Call /\ OneCall(call[c])
  BY DEF TInv, CallsOK
<1>2. CASE AskAsync(c)
  <2>1. call[c].task \in Tasks /\ Request(c, call[c], call[c].task) /\ UNCHANGED <<loop, run, breaks>>
    BY <1>1, <1>2 DEF AskAsync, OneCall
  <2>2. call[c].run # None => /\ run[call[c].run].st \in HasSlot \union {"over"}
                              /\ run[call[c].run].eng = call[c].eng
    BY <1>1 DEF CallsOK, Owned
  <2>3. QED
    BY <1>1, <2>1, <2>2, RequestIs
<1>3. CASE BeginWait(c)
  <2> DEFINE C == [call[c] EXCEPT !.st = "waiting"]
  <2>1. C \in Call /\ C.st = "waiting" /\ C.run = call[c].run /\ C.eng = call[c].eng
        /\ C.task = call[c].task /\ C.on = call[c].on
    BY <1>1 DEF Call
  <2>2. call[c].st = "asked" /\ OneCall(C)
    BY <1>1, <1>3, <2>1 DEF OneCall, BeginWait
  <2>3. call' = [call EXCEPT ![c] = C] /\ run' = ReportedBy(c, 1) /\ UNCHANGED <<task, approval, loop, breaks>>
    BY <1>1, <1>3 DEF BeginWait, CallsOK
  <2> HIDE DEF C
  <2>4. RunsOK' /\ RunsLater /\ SentStays
    BY <2>3, ReportIs
  <2>5. CallsOK'
    BY <1>1, <2>1, <2>2, <2>3, <2>4, CallSet
  <2>6. QED
    BY <2>3, <2>4, <2>5, Elsewhere DEF TInv
<1>4. CASE EndWait(c)
  <2>1. call' = [call EXCEPT ![c] = CallOver] /\ run' = ReportedBy(c, -1) /\ UNCHANGED <<task, loop, breaks>>
    BY <1>4 DEF EndWait
  <2>2. RunsOK' /\ RunsLater /\ SentStays
    BY <2>1, ReportIs
  <2>3. CallsOK'
    BY <1>1, <2>1, <2>2, NoCallIs, CallSet
  <2>4. call[c].on \in Calls /\ (approval' = approval \/ approval' = [approval EXCEPT ![call[c].on] = Decided])
    BY <1>1, <1>4 DEF EndWait, OneCall
  <2>5. ApprovalsOK'
    BY <1>1, <2>2, <2>4, ApprovalsStay, ApprovalDecided
  <2>6. QED
    BY <2>1, <2>2, <2>3, <2>5, TasksSame, LoopsSame DEF TInv
<1>5. CASE EndCall(c)
  <2>1. call' = [call EXCEPT ![c] = CallOver] /\ UNCHANGED <<task, approval, loop, run, breaks>>
    BY <1>5 DEF EndCall
  <2>2. RunsOK' /\ RunsLater /\ SentStays
    BY <1>1, <2>1, RunsSame
  <2>3. CallsOK'
    BY <1>1, <2>1, <2>2, NoCallIs, CallSet
  <2>4. QED
    BY <2>1, <2>2, <2>3, Elsewhere DEF TInv
<1>6. CASE Upgrade(c)
  <2> DEFINE C == InBackground(call[c])
  <2>1. C \in Call /\ C.st = call[c].st /\ C.run = None /\ C.task = call[c].task /\ C.on = call[c].on
    BY <1>1 DEF Call, InBackground
  <2>2. OneCall(C)
    BY <1>1, <2>1 DEF OneCall
  <2>3. call' = [call EXCEPT ![c] = C] /\ UNCHANGED <<task, approval, loop, breaks>>
    BY <1>1, <1>6 DEF Upgrade, CallsOK
  <2> HIDE DEF C
  <2>4. RunsOK' /\ RunsLater /\ SentStays
    <3>1. run' = ReportedBy(c, -1) \/ run' = run
      BY <1>6 DEF Upgrade, Detached
    <3>2. QED
      BY <1>1, <3>1, ReportIs, RunsSame
  <2>5. CallsOK'
    BY <1>1, <2>1, <2>2, <2>3, <2>4, CallSet
  <2>6. QED
    BY <2>3, <2>4, <2>5, Elsewhere DEF TInv
<1>7. CASE Decide(c) \/ Sweep(c)
  <2>1. approval' = [approval EXCEPT ![c] = Decided] /\ UNCHANGED <<task, loop, run, call, breaks>>
    BY <1>7 DEF Decide, Sweep
  <2>2. RunsOK' /\ RunsLater /\ SentStays
    BY <1>1, <2>1, RunsSame
  <2>3. QED
    BY <1>1, <2>1, <2>2, ApprovalDecided, TasksSame, LoopsSame, CallsSame DEF TInv
<1>8. QED
  BY <1>2, <1>3, <1>4, <1>5, <1>6, <1>7

LEMMA TypeOfInterrupt ==
  ASSUME TInv, NEW i \in Runs, Interrupt(i)
  PROVE  TInv'
<1> DEFINE unwound == {c \in OwnCalls(i) : ~call[c].relayed}
           reports == {c \in unwound : call[c].st = "waiting"}
           q == Reported(run[i], -Cardinality(reports))
           r == [q EXCEPT !.st = "stopping"]
<1>1. OneRun(run[i]) /\ run[i].st = "live" /\ CallsOK /\ RunsOK
  BY DEF TInv, RunsOK, Interrupt
<1>2. -Cardinality(reports) \in Int
  <2>1. Cardinality(reports) \in Nat
    BY CallsAreFinite DEF OwnCalls
  <2>2. QED
    BY <2>1
<1>3. OneRun(q) /\ q.st = "live" /\ q.eng = run[i].eng /\ q.task = run[i].task
  BY <1>1, <1>2, ReportedIs
<1>4. run' = [run EXCEPT ![i] = r]
  BY <1>1 DEF Interrupt, RunsOK
<1>5. \A c \in Calls : call'[c] = IF c \in unwound THEN CallOver ELSE call[c]
  BY DEF Interrupt
<1>6. call' \in [Calls -> Call]
  BY <1>1, NoCallIs DEF Interrupt, CallsOK, OneCall
<1>7. UNCHANGED <<task, approval, loop, breaks>>
  BY DEF Interrupt
<1> HIDE DEF q, unwound
<1>8. OneRun(r) /\ r.st = "stopping" /\ r.eng = run[i].eng
  <2>1. q \in Run
    BY <1>3 DEF OneRun
  <2>2. /\ r \in Run /\ r.st = "stopping" /\ r.eng = q.eng /\ r.task = q.task
        /\ r.waits = q.waits /\ r.parked = q.parked
    BY <2>1 DEF Run, HasSlot
  <2>3. QED
    BY <1>3, <2>2 DEF OneRun, HasSlot
<1> HIDE DEF r
<1>9. RunsOK' /\ RunsLater /\ SentStays
  <2>1. run[i].st # "sent" /\ r.st \in HasSlot /\ r.st # "none"
    BY <1>1, <1>8 DEF HasSlot
  <2>2. QED
    BY <1>1, <1>4, <1>8, <2>1, RunSet
<1>10. CallsOK'
  BY <1>1, <1>5, <1>6, <1>9, NoCallIs, CallsMove
<1>11. QED
  BY <1>7, <1>9, <1>10, Elsewhere DEF TInv

\* A run gives its slot back.
LEMMA RunEnds ==
  ASSUME TInv, NEW i \in Runs, run' = [run EXCEPT ![i] = RunOver(run[i])], run[i].st \in HasSlot
  PROVE  RunsOK' /\ RunsLater /\ SentStays
<1>1. RunsOK /\ run[i] \in Run
  BY DEF TInv, RunsOK
<1>2. OneRun(RunOver(run[i])) /\ RunOver(run[i]).st = "over" /\ RunOver(run[i]).eng = run[i].eng
  BY <1>1, RunOverIs
<1>3. run[i].st # "sent"
  BY DEF HasSlot
<1>4. QED
  BY <1>1, <1>2, <1>3, RunSet

LEMMA TypeOfEnding ==
  ASSUME TInv, NEW i \in Runs, Post(i) \/ LosePost(i) \/ Suspend(i)
  PROVE  TInv'
<1>1. run[i].st \in HasSlot /\ RunsOK /\ OneRun(run[i]) /\ run[i].task \in Tasks
  BY DEF Post, LosePost, Suspend, WorkIsDone, HasSlot, TInv, RunsOK, OneRun
<1>2. run' = [run EXCEPT ![i] = RunOver(run[i])]
  BY <1>1 DEF Post, LosePost, Suspend, RunsOK
<1>3. RunsOK' /\ RunsLater /\ SentStays
  BY <1>1, <1>2, RunEnds
<1>4. LoopsOK' /\ CallsOK' /\ breaks' \in 0..MaxBreaks
  BY <1>3, LoopsSame, CallsSame, BreakIs DEF TInv, Post, LosePost, Suspend
<1>5. TasksOK /\ ApprovalsOK /\ task[run[i].task] \in Task
  BY <1>1 DEF TInv, TasksOK
<1>6. TasksOK'
  <2>1. CASE task' = task
    BY <1>3, <1>5, <2>1, TasksSame
  <2>2. CASE task' = [task EXCEPT ![run[i].task] = TaskOver]
    BY <1>1, <1>3, <1>5, <2>2, TasksAre, TaskSet
  <2>3. CASE Suspend(i)
    <3> DEFINE u == Suspended(task[run[i].task])
    <3>1. u \in Task /\ u.st = "suspended" /\ u.claim = None
      BY <1>5 DEF Suspended, Task
    <3>2. task' = [task EXCEPT ![run[i].task] = u]
      BY <1>1, <1>5, <2>3 DEF Suspend, TasksOK
    <3> HIDE DEF u
    <3>3. QED
      BY <1>1, <1>3, <1>5, <3>1, <3>2, TaskSet
  <2>4. QED
    BY <2>1, <2>2, <2>3 DEF Post, LosePost, Ends
<1>7. ApprovalsOK'
  BY <1>3, <1>5, ApprovalsStay, ApprovalsClosed DEF Post, LosePost, Suspend, Ends
<1>8. QED
  BY <1>3, <1>4, <1>6, <1>7 DEF TInv

LEMMA TypeOfTasks ==
  ASSUME TInv, NEW t \in Tasks, Resume(t) \/ Reap(t) \/ LeaseLapses(t)
  PROVE  TInv'
<1>1. UNCHANGED <<loop, run, call>> /\ breaks' \in 0..MaxBreaks
  BY BreakIs DEF Resume, Reap, LeaseLapses, Reaped, TInv
<1>2. RunsOK' /\ RunsLater /\ SentStays
  BY <1>1, RunsSame DEF TInv
<1>3. TasksOK /\ ApprovalsOK /\ task[t] \in Task
  BY DEF TInv, TasksOK
<1>4. TasksOK'
  <2>1. CASE Resume(t)
    <3> DEFINE u == [task[t] EXCEPT !.st = "pending"]
    <3>1. u \in Task /\ u.st = "pending" /\ u.claim = task[t].claim /\ task[t].claim = None
      BY <1>3, <2>1 DEF Resume, TasksOK, Task
    <3>2. task' = [task EXCEPT ![t] = u]
      BY <1>3, <2>1 DEF Resume, TasksOK
    <3> HIDE DEF u
    <3>3. QED
      BY <1>2, <1>3, <3>1, <3>2, TaskSet
  <2>2. CASE Reap(t) \/ LeaseLapses(t)
    <3>1. task' = [task EXCEPT ![t] = TaskOver]
      BY <2>2 DEF Reap, LeaseLapses, Reaped
    <3>2. QED
      BY <1>2, <1>3, <3>1, TasksAre, TaskSet
  <2>3. QED
    BY <2>1, <2>2
<1>5. ApprovalsOK'
  BY <1>2, <1>3, ApprovalsStay, ApprovalsClosed DEF Resume, Reap, LeaseLapses, Reaped
<1>6. QED
  BY <1>1, <1>2, <1>4, <1>5, LoopsSame, CallsSame DEF TInv

LEMMA TypeOfCrash ==
  ASSUME TInv, NEW e \in Engines, Crash(e)
  PROVE  TInv'
<1> DEFINE l == [IdleLoop EXCEPT !.at = "down"]
<1>1. /\ loop' = [loop EXCEPT ![e] = l] /\ UNCHANGED <<task, approval>> /\ breaks' \in 0..MaxBreaks
      /\ \A i \in Runs : run'[i] = IF run[i].eng = e THEN RunOver(run[i]) ELSE run[i]
      /\ \A c \in Calls : call'[c] = IF call[c].eng = e THEN CallOver ELSE call[c]
  BY BreakIs DEF Crash
<1>2. RunsOK /\ CallsOK /\ LoopsOK /\ \A i \in Runs : OneRun(run[i]) /\ run[i] \in Run
  BY DEF TInv, RunsOK
<1>3. \A i \in Runs : /\ OneRun(RunOver(run[i]))
                      /\ RunOver(run[i]).st = "over" /\ RunOver(run[i]).eng = run[i].eng
  BY <1>2, RunOverIs
<1>4. run' \in [Runs -> Run] /\ call' \in [Calls -> Call]
  BY <1>2, <1>3, NoCallIs DEF Crash, OneRun, RunsOK, CallsOK, OneCall
<1>5. \A i \in Runs : OneRun(run'[i])
  BY <1>1, <1>2, <1>3
<1>6. RunsOK'
  BY <1>4, <1>5 DEF RunsOK, OneRun
<1>7. RunsLater
  BY <1>1, <1>3 DEF RunsLater
<1>8. \A j \in Runs : run[j].st = "sent" /\ run[j].eng # e => run'[j].st = "sent"
  BY <1>1
<1>9. l \in Loop /\ l.run = None /\ l.at = "down"
  BY LimitsAssumption DEF IdleLoop, Loop
<1> HIDE DEF l
<1>10. LoopsOK'
  BY <1>1, <1>2, <1>7, <1>8, <1>9, LoopSet
<1>11. CallsOK'
  BY <1>1, <1>2, <1>4, <1>7, NoCallIs, CallsMove
<1>12. QED
  BY <1>1, <1>6, <1>7, <1>10, <1>11, TasksSame, ApprovalsStay DEF TInv

LEMMA TypeOfRegister ==
  ASSUME TInv, NEW e \in Engines, Register(e)
  PROVE  TInv'
<1> DEFINE orphans == {t \in Tasks : task[t].st = "running" /\ run[task[t].claim].eng = e}
<1>1. UNCHANGED <<run, call, breaks>> /\ loop' = [loop EXCEPT ![e] = IdleLoop]
  BY DEF Register
<1>2. PICK again \in SUBSET {t \in orphans : ~task[t].requeued} :
          /\ task' = [t \in Tasks |->
                 IF t \in again THEN [Queued EXCEPT !.requeued = TRUE]
                 ELSE IF t \in orphans THEN TaskOver ELSE task[t]]
          /\ ClosesApprovals(orphans \ again)
  BY DEF Register
<1> HIDE DEF orphans
<1>3. RunsOK' /\ RunsLater /\ SentStays
  BY <1>1, RunsSame DEF TInv
<1>4. TasksOK /\ ApprovalsOK /\ LoopsOK
  BY DEF TInv
<1>5. TasksOK'
  <2>1. task' \in [Tasks -> Task]
    BY <1>2, <1>4, TasksAre DEF TasksOK
  <2>2. ASSUME NEW t \in Tasks
        PROVE  /\ task'[t].claim # None <=> task'[t].st = "running"
               /\ task'[t].claim \in {task[t].claim, None}
    <3>1. task'[t] \in {[Queued EXCEPT !.requeued = TRUE], TaskOver, task[t]}
      BY <1>2
    <3>2. QED
      BY <1>4, <3>1, TasksAre DEF TasksOK
  <2>3. QED
    BY <1>3, <1>4, <2>1, <2>2, TasksMove
<1>6. ApprovalsOK'
  BY <1>2, <1>3, <1>4, ApprovalsClosed
<1>7. LoopsOK'
  <2>1. IdleLoop \in Loop /\ IdleLoop.run = None /\ IdleLoop.at = "idle"
    BY LimitsAssumption DEF IdleLoop, Loop
  <2>2. QED
    BY <1>1, <1>3, <1>4, <2>1, LoopSet DEF SentStays
<1>8. QED
  BY <1>1, <1>3, <1>5, <1>6, <1>7, CallsSame DEF TInv

LEMMA TypeAtFirst == Init => TInv
<1> SUFFICES ASSUME Init PROVE TInv
  OBVIOUS
<1>1. TasksOK
  BY TasksAre DEF Init, TasksOK, Known
<1>2. ApprovalsOK
  BY ApprovalsAre DEF Init, ApprovalsOK
<1>3. IdleLoop \in Loop /\ IdleLoop.run = None /\ IdleLoop.at = "idle"
  BY LimitsAssumption DEF IdleLoop, Loop
<1>4. LoopsOK
  BY <1>3 DEF Init, LoopsOK
<1>5. OneRun(NoRun) /\ NoRun \in Run
  BY DEF OneRun, NoRun, Run, HasSlot
<1>6. RunsOK
  BY <1>5 DEF Init, RunsOK
<1>7. CallsOK
  BY NoCallIs DEF Init, CallsOK, Owned, OneCall
<1>8. breaks \in 0..MaxBreaks
  BY LimitsAssumption DEF Init
<1>9. QED
  BY <1>1, <1>2, <1>4, <1>6, <1>7, <1>8 DEF TInv

LEMMA TypeNext == TInv /\ [Next]_vars => TInv'
<1> SUFFICES ASSUME TInv, [Next]_vars PROVE TInv'
  OBVIOUS
<1>1. CASE Next
  BY <1>1, TypeOfPolling, TypeOfBeginning, TypeOfCalls, TypeOfInterrupt, TypeOfEnding, TypeOfTasks,
     TypeOfCrash, TypeOfRegister DEF Next
<1>2. CASE UNCHANGED vars
  BY <1>2, RunsSame, CallsSame, Elsewhere DEF vars, TInv
<1>3. QED
  BY <1>1, <1>2

(* Types; a running task has a claim that was handed out, an answer under way *)
(* is for the engine that asked, a call belongs to a run of its own engine.   *)
THEOREM TypeCorrect == Spec => []TypeOK
<1>1. Spec => []TInv
  BY TypeAtFirst, TypeNext, PTL DEF Spec
<1>2. QED
  BY <1>1, TInvType, PTL

-----------------------------------------------------------------------------
(* The limits of an engine.                                                   *)
Unparked(e) == {i \in Slots(e) : ~run[i].parked}
UnparkedBackground(e) == {i \in Slots(e) : run[i].task \in Background /\ ~run[i].parked}
BackgroundLimit == IF MaxWorkers > Reserve THEN MaxWorkers - Reserve ELSE 1

\* The count an engine asks with leaves room for all it may get, and so does its answer.
Room(e) ==
    /\ Cardinality(Slots(e)) <= MaxActive
    /\ Cardinality(Unparked(e)) <= MaxWorkers
    /\ Cardinality(UnparkedBackground(e)) <= BackgroundLimit
    /\ loop[e].at = "asked" =>
         /\ loop[e].free > 0
         /\ Cardinality(Slots(e)) + loop[e].free <= MaxActive
         /\ Cardinality(Unparked(e)) + loop[e].free <= MaxWorkers
    /\ loop[e].at = "answered" =>
         /\ Cardinality(Slots(e)) < MaxActive
         /\ Cardinality(Unparked(e)) < MaxWorkers
         /\ run[loop[e].run].task \in Background => Cardinality(UnparkedBackground(e)) < BackgroundLimit

RoomInv == \A e \in Engines : Room(e)

\* Nothing takes a slot of e, comes back from parking unmarked, or changes its task.
Settles(e) ==
    \A i \in Runs :
        /\ run'[i].st \in HasSlot /\ run'[i].eng = e =>
             /\ run[i].st \in HasSlot /\ run[i].eng = e /\ run'[i].task = run[i].task
             /\ run[i].parked => run'[i].parked
        /\ run[i].st = "sent" => run'[i].task = run[i].task \/ run'[i].st = "over"

LEMMA SizesAre ==
  ASSUME NEW e \in Engines
  PROVE  /\ Cardinality(Slots(e)) \in Nat /\ Cardinality(Unparked(e)) \in Nat
         /\ Cardinality(UnparkedBackground(e)) \in Nat
         /\ IsFiniteSet(Slots(e)) /\ IsFiniteSet(Unparked(e)) /\ IsFiniteSet(UnparkedBackground(e))
         /\ Cardinality(UnparkedBackground(e)) <= Cardinality(Unparked(e))
         /\ Cardinality(Unparked(e)) <= Cardinality(Slots(e))
<1>1. /\ Slots(e) \in SUBSET Runs /\ Unparked(e) \in SUBSET Runs /\ UnparkedBackground(e) \in SUBSET Runs
      /\ UnparkedBackground(e) \subseteq Unparked(e) /\ Unparked(e) \subseteq Slots(e)
  BY DEF Slots, Unparked, UnparkedBackground
<1>2. QED
  BY <1>1, RunsAreFinite, FS_Subset

LEMMA SizesShrink ==
  ASSUME NEW e \in Engines, Settles(e)
  PROVE  /\ Cardinality(Slots(e)') <= Cardinality(Slots(e))
         /\ Cardinality(Unparked(e)') <= Cardinality(Unparked(e))
         /\ Cardinality(UnparkedBackground(e)') <= Cardinality(UnparkedBackground(e))
         /\ Cardinality(Slots(e)') \in Nat /\ Cardinality(Unparked(e)') \in Nat
         /\ Cardinality(UnparkedBackground(e)') \in Nat
<1>1. /\ Slots(e)' \subseteq Slots(e) /\ Unparked(e)' \subseteq Unparked(e)
      /\ UnparkedBackground(e)' \subseteq UnparkedBackground(e)
  BY DEF Settles, Slots, Unparked, UnparkedBackground
<1>2. QED
  BY <1>1, SizesAre, FS_Subset, FS_CardinalityType

LEMMA LimitIs == BackgroundLimit \in Nat /\ BackgroundLimit >= 1
BY LimitsAssumption DEF BackgroundLimit

\* An engine whose loop stays where it is, or stops asking, keeps its room.
LEMMA RoomStays ==
  ASSUME TInv, TInv', NEW e \in Engines, Room(e), Settles(e),
         loop'[e] = loop[e] \/ loop'[e].at \in {"idle", "down"}
  PROVE  Room(e)'
<1>1. loop[e].free \in Int /\ MaxActive \in Int /\ MaxWorkers \in Int
  BY LimitsAssumption DEF TInv, LoopsOK, Loop
<1>2. /\ Cardinality(Slots(e)') <= MaxActive /\ Cardinality(Unparked(e)') <= MaxWorkers
      /\ Cardinality(UnparkedBackground(e)') <= BackgroundLimit
  BY <1>1, SizesAre, SizesShrink, LimitIs DEF Room
<1>3. ASSUME loop'[e].at = "asked"
      PROVE  /\ loop'[e].free > 0
             /\ Cardinality(Slots(e)') + loop'[e].free <= MaxActive
             /\ Cardinality(Unparked(e)') + loop'[e].free <= MaxWorkers
  <2>1. loop'[e] = loop[e]
    BY <1>3
  <2>2. /\ loop[e].free > 0
        /\ Cardinality(Slots(e)) + loop[e].free <= MaxActive
        /\ Cardinality(Unparked(e)) + loop[e].free <= MaxWorkers
    BY <1>3, <2>1 DEF Room
  <2>3. QED
    BY <1>1, <2>1, <2>2, SizesAre, SizesShrink
<1>4. ASSUME loop'[e].at = "answered"
      PROVE  /\ Cardinality(Slots(e)') < MaxActive
             /\ Cardinality(Unparked(e)') < MaxWorkers
             /\ run'[loop'[e].run].task \in Background => Cardinality(UnparkedBackground(e)') < BackgroundLimit
  <2>1. loop'[e] = loop[e]
    BY <1>4
  <2>2. /\ Cardinality(Slots(e)) < MaxActive /\ Cardinality(Unparked(e)) < MaxWorkers
        /\ run[loop[e].run].task \in Background => Cardinality(UnparkedBackground(e)) < BackgroundLimit
    BY <1>4, <2>1 DEF Room
  <2>3. loop[e].run \in Runs /\ run[loop[e].run].st = "sent" /\ run'[loop[e].run].st = "sent"
    BY <1>4, <2>1 DEF TInv, LoopsOK
  <2>4. run'[loop[e].run].task = run[loop[e].run].task
    BY <2>3 DEF Settles
  <2>5. QED
    BY <1>1, <2>1, <2>2, <2>4, SizesAre, SizesShrink, LimitIs
<1>5. QED
  BY <1>2, <1>3, <1>4 DEF Room, BackgroundLimit

LEMMA SettlesSame == ASSUME UNCHANGED run PROVE \A e \in Engines : Settles(e)
BY DEF Settles, HasSlot

\* One run changes that has started, or ends.
LEMMA SettlesSet ==
  ASSUME TInv, NEW i \in Runs, NEW r, run' = [run EXCEPT ![i] = r],
         \/ r.st \in {"sent", "over"} /\ (run[i].st = "sent" => r.st = "over")
         \/ /\ run[i].st \in HasSlot /\ r.eng = run[i].eng /\ r.task = run[i].task
            /\ run[i].parked => r.parked
  PROVE  \A e \in Engines : Settles(e)
<1>1. run'[i] = r /\ \A j \in Runs : j # i => run'[j] = run[j]
  BY DEF TInv, RunsOK
<1>2. ASSUME NEW e \in Engines, NEW j \in Runs
      PROVE  /\ run'[j].st \in HasSlot /\ run'[j].eng = e =>
                  /\ run[j].st \in HasSlot /\ run[j].eng = e /\ run'[j].task = run[j].task
                  /\ run[j].parked => run'[j].parked
             /\ run[j].st = "sent" => run'[j].task = run[j].task \/ run'[j].st = "over"
  BY <1>1 DEF HasSlot
<1>3. QED
  BY <1>2 DEF Settles

LEMMA SettlesReported ==
  ASSUME TInv, NEW c \in Calls, NEW n \in Int, run' = ReportedBy(c, n)
  PROVE  \A e \in Engines : Settles(e)
<1>1. \A j \in Runs : run'[j] = IF j = call[c].run THEN Reported(run[j], n) ELSE run[j]
  BY ReportIs
<1>2. \A j \in Runs : OneRun(run[j])
  BY DEF TInv, RunsOK
<1>3. \A j \in Runs : LET q == Reported(run[j], n)
                      IN q.st = run[j].st /\ q.eng = run[j].eng /\ q.task = run[j].task
                         /\ (run[j].parked => q.parked)
  BY <1>2, ReportedIs
<1>4. QED
  BY <1>1, <1>3 DEF Settles

LEMMA SettlesOthers ==
  ASSUME TInv,
         \/ \E t \in Tasks : Resume(t) \/ Reap(t) \/ LeaseLapses(t)
         \/ \E c \in Calls : AskAsync(c) \/ BeginWait(c) \/ EndWait(c) \/ EndCall(c) \/ Upgrade(c)
                        \/ Decide(c) \/ Sweep(c)
         \/ \E i \in Runs : BeginCall(i) \/ BeginAsync(i) \/ Interrupt(i) \/ Post(i) \/ LosePost(i)
                       \/ Suspend(i)
         \/ UNCHANGED vars
  PROVE  UNCHANGED loop /\ \A e \in Engines : Settles(e)
<1>1. UNCHANGED loop
  BY DEF Resume, Reap, LeaseLapses, Reaped, AskAsync, BeginWait, EndWait, EndCall, Upgrade, Decide, Sweep,
         BeginCall, BeginAsync, Interrupt, Post, LosePost, Suspend, vars
<1>2. CASE UNCHANGED run
  BY <1>1, <1>2, SettlesSame
<1>3. ASSUME NEW c \in Calls, BeginWait(c) \/ EndWait(c) \/ Upgrade(c)
      PROVE  \A e \in Engines : Settles(e)
  BY <1>3, SettlesReported, SettlesSame DEF BeginWait, EndWait, Upgrade, Detached
<1>4. ASSUME NEW i \in Runs, Interrupt(i)
      PROVE  \A e \in Engines : Settles(e)
  <2> DEFINE reports == {c \in {d \in OwnCalls(i) : ~call[d].relayed} : call[c].st = "waiting"}
             q == Reported(run[i], -Cardinality(reports))
             r == [q EXCEPT !.st = "stopping"]
  <2>1. OneRun(run[i]) /\ run[i].st \in HasSlot
    BY <1>4 DEF TInv, RunsOK, Interrupt, HasSlot
  <2>2. -Cardinality(reports) \in Int
    <3>1. Cardinality(reports) \in Nat
      BY CallsAreFinite DEF OwnCalls
    <3>2. QED
      BY <3>1
  <2>3. /\ q \in Run /\ q.eng = run[i].eng /\ q.task = run[i].task
        /\ run[i].parked => q.parked
    BY <2>1, <2>2, ReportedIs DEF OneRun
  <2>4. run' = [run EXCEPT ![i] = r]
    BY <1>4 DEF Interrupt, TInv, RunsOK
  <2> HIDE DEF q
  <2>5. r.eng = q.eng /\ r.task = q.task /\ r.parked = q.parked
    BY <2>3 DEF Run
  <2> HIDE DEF r
  <2>6. QED
    BY <2>1, <2>3, <2>4, <2>5, SettlesSet
<1>5. ASSUME NEW i \in Runs, Post(i) \/ LosePost(i) \/ Suspend(i)
      PROVE  \A e \in Engines : Settles(e)
  <2>1. run' = [run EXCEPT ![i] = RunOver(run[i])]
    BY <1>5 DEF Post, LosePost, Suspend, TInv, RunsOK
  <2>2. RunOver(run[i]).st = "over"
    BY RunOverIs DEF TInv, RunsOK
  <2>3. QED
    BY <2>1, <2>2, SettlesSet
<1>6. QED
  BY <1>1, <1>2, <1>3, <1>4, <1>5
     DEF Resume, Reap, LeaseLapses, Reaped, AskAsync, EndCall, Decide, Sweep, BeginCall, BeginAsync, vars

\* What a poll counts.
LEMMA FreeSlotsAre ==
  ASSUME TInv, NEW e \in Engines, FreeSlots(e) > 0
  PROVE  /\ FreeSlots(e) \in Int
         /\ Cardinality(Slots(e)) + FreeSlots(e) <= MaxActive
         /\ Cardinality(Unparked(e)) + FreeSlots(e) <= MaxWorkers
<1> DEFINE m == MaxWorkers - Cardinality(Running(e))
           n == MaxActive - Cardinality(Slots(e))
<1>1. Running(e) \in SUBSET Runs /\ Slots(e) \in SUBSET Runs /\ Unparked(e) \in SUBSET Runs
  BY DEF Running, Slots, Unparked
<1>2. Unparked(e) \subseteq Running(e)
  BY DEF Unparked, Running, Slots, Parked, TInv, RunsOK, OneRun
<1>3. /\ Cardinality(Running(e)) \in Nat /\ Cardinality(Slots(e)) \in Nat /\ Cardinality(Unparked(e)) \in Nat
      /\ Cardinality(Unparked(e)) <= Cardinality(Running(e))
  BY <1>1, <1>2, RunsAreFinite, FS_Subset
<1>4. m \in Int /\ n \in Int /\ MaxWorkers \in Int /\ MaxActive \in Int
  BY <1>3, LimitsAssumption
<1>5. FreeSlots(e) = Max({0, Min({m, n})})
  BY DEF FreeSlots
<1> HIDE DEF m, n
<1>6. Min({m, n}) = IF m < n THEN m ELSE n
  BY <1>4, MinOfTwo
<1>7. Min({m, n}) \in Int
  BY <1>4, <1>6
<1>8. FreeSlots(e) \in Int /\ FreeSlots(e) <= m /\ FreeSlots(e) <= n
  BY <1>4, <1>5, <1>6, <1>7, MaxOfTwo
<1>9. QED
  BY <1>3, <1>4, <1>8 DEF m, n

\* The next run of e may start: Answer found room for it.
LEMMA RoomAnswer ==
  ASSUME TInv, TInv', RoomInv, NEW e \in Engines, Answer(e)
  PROVE  RoomInv'
<1>1. loop \in [Engines -> Loop] /\ loop[e].at = "asked" /\ LoopsOK
  BY DEF TInv, LoopsOK, Answer
<1>2. CASE loop' = [loop EXCEPT ![e] = IdleLoop] /\ UNCHANGED <<task, run>>
  <2>1. ASSUME NEW f \in Engines PROVE Room(f)'
    <3>1. loop'[f] = loop[f] \/ loop'[f].at = "idle"
      BY <1>1, <1>2 DEF IdleLoop
    <3>2. Settles(f) /\ Room(f)
      BY <1>2, SettlesSame DEF RoomInv
    <3>3. QED
      BY <3>1, <3>2, RoomStays
  <2>2. QED
    BY <2>1 DEF RoomInv
<1>3. ASSUME NEW t \in Tasks, NEW i \in Runs, Claimable(t, loop[e].free), run[i].st = "none",
             run' = [run EXCEPT ![i] = [NoRun EXCEPT !.st = "sent", !.task = t, !.eng = e]],
             loop' = [loop EXCEPT ![e] = [at |-> "answered", free |-> 0, run |-> i]]
      PROVE  RoomInv'
  <2> DEFINE r == [NoRun EXCEPT !.st = "sent", !.task = t, !.eng = e]
  <2>1. r.st = "sent" /\ r.task = t
    BY DEF NoRun
  <2>2. run'[i] = r
    BY <1>3 DEF TInv, RunsOK
  <2>3. \A f \in Engines : Settles(f)
    <3> HIDE DEF r
    <3>1. QED
      BY <1>3, <2>1, SettlesSet DEF r
  <2>4. ASSUME NEW f \in Engines, f # e PROVE Room(f)'
    BY <1>1, <1>3, <2>3, <2>4, RoomStays DEF RoomInv
  <2>5. /\ loop'[e].at = "answered" /\ loop'[e].run = i
    BY <1>1, <1>3
  <2>6. /\ loop[e].free \in Int /\ loop[e].free > 0 /\ loop[e].free <= MaxWorkers
        /\ MaxActive \in Int /\ MaxWorkers \in Int /\ Reserve \in Nat
    BY <1>1, LimitsAssumption DEF Loop, RoomInv, Room
  <2>7. /\ Cardinality(Slots(e)) + loop[e].free <= MaxActive
        /\ Cardinality(Unparked(e)) + loop[e].free <= MaxWorkers
    BY <1>1 DEF RoomInv, Room
  <2>8. Settles(e)
    BY <2>3
  <2>9. /\ Cardinality(Slots(e)') < MaxActive /\ Cardinality(Unparked(e)') < MaxWorkers
    BY <2>6, <2>7, <2>8, SizesAre, SizesShrink
  <2>10. ASSUME t \in Background PROVE Cardinality(UnparkedBackground(e)') < BackgroundLimit
    <3>1. loop[e].free > Reserve \/ loop[e].free >= MaxWorkers
      BY <1>3, <2>10 DEF Claimable, WorkerTakesBackground
    <3>2. /\ Cardinality(UnparkedBackground(e)') \in Nat
          /\ Cardinality(UnparkedBackground(e)') + loop[e].free <= MaxWorkers
      BY <2>6, <2>7, <2>8, SizesAre, SizesShrink
    <3>3. QED
      BY <2>6, <3>1, <3>2 DEF BackgroundLimit
  <2>11. Cardinality(UnparkedBackground(e)') <= BackgroundLimit
    <3>1. Cardinality(UnparkedBackground(e)) <= BackgroundLimit
      BY DEF RoomInv, Room
    <3>2. QED
      BY <2>8, <3>1, SizesAre, SizesShrink, LimitIs
  <2>12. run'[loop'[e].run].task = t
    BY <2>1, <2>2, <2>5
  <2>13. /\ Cardinality(Slots(e)') <= MaxActive /\ Cardinality(Unparked(e)') <= MaxWorkers
    BY <2>6, <2>8, <2>9, SizesShrink
  <2>14. Room(e)'
    BY <2>5, <2>9, <2>10, <2>11, <2>12, <2>13 DEF Room, BackgroundLimit
  <2>15. QED
    BY <2>4, <2>14 DEF RoomInv
<1>4. QED
  BY <1>2, <1>3 DEF Answer, NextClaimable

\* It starts.
LEMMA RoomStart ==
  ASSUME TInv, TInv', RoomInv, NEW e \in Engines, Start(e)
  PROVE  RoomInv'
<1>1. PICK i \in Runs : i = loop[e].run /\ run[i].st = "sent" /\ run[i].eng = e
  BY DEF Start, TInv, LoopsOK
<1> DEFINE r == [run[i] EXCEPT !.st = "live"]
<1>2. run[i] \in Run /\ OneRun(run[i]) /\ loop[e].at = "answered"
  BY DEF TInv, RunsOK, Start
<1>3. /\ run'[i] = r /\ \A j \in Runs : j # i => run'[j] = run[j]
      /\ loop'[e] = IdleLoop /\ \A f \in Engines : f # e => loop'[f] = loop[f]
  BY <1>1 DEF Start, TInv, RunsOK, LoopsOK
<1>4. r.st = "live" /\ r.eng = e /\ r.task = run[i].task /\ r.parked = run[i].parked
  BY <1>1, <1>2 DEF Run
<1> HIDE DEF r
<1>5. ASSUME NEW f \in Engines, f # e PROVE Room(f)'
  <2>1. Settles(f)
    BY <1>1, <1>3, <1>4, <1>5 DEF Settles
  <2>2. QED
    BY <1>3, <1>5, <2>1, RoomStays DEF RoomInv
<1>6. /\ Slots(e)' \subseteq Slots(e) \union {i}
      /\ Unparked(e)' \subseteq Unparked(e) \union {i}
      /\ UnparkedBackground(e)' \subseteq
            IF run[i].task \in Background THEN UnparkedBackground(e) \union {i} ELSE UnparkedBackground(e)
  BY <1>3, <1>4 DEF Slots, Unparked, UnparkedBackground
<1>7. ASSUME NEW S, IsFiniteSet(S), NEW T, T \subseteq S \union {i}
      PROVE  Cardinality(S) \in Nat /\ Cardinality(T) \in Nat /\ Cardinality(T) <= Cardinality(S) + 1
  <2>1. IsFiniteSet(S \union {i}) /\ Cardinality(S) \in Nat /\ Cardinality(S \union {i}) \in Nat
        /\ Cardinality(S \union {i}) <= Cardinality(S) + 1
    <3>1. IsFiniteSet(S) /\ Cardinality(S) \in Nat
      BY <1>7, FS_CardinalityType
    <3>2. /\ IsFiniteSet(S \union {i})
          /\ Cardinality(S \union {i}) = IF i \in S THEN Cardinality(S) ELSE Cardinality(S) + 1
      BY <3>1, FS_AddElement
    <3>3. QED
      BY <3>1, <3>2
  <2>2. IsFiniteSet(T) /\ Cardinality(T) \in Nat /\ Cardinality(T) <= Cardinality(S \union {i})
    BY <1>7, <2>1, FS_Subset, FS_CardinalityType
  <2>3. QED
    BY <2>1, <2>2
<1>8. /\ Cardinality(Slots(e)) < MaxActive /\ Cardinality(Unparked(e)) < MaxWorkers
      /\ run[i].task \in Background => Cardinality(UnparkedBackground(e)) < BackgroundLimit
      /\ Cardinality(UnparkedBackground(e)) <= BackgroundLimit
      /\ MaxActive \in Int /\ MaxWorkers \in Int /\ BackgroundLimit \in Int
  BY <1>1, <1>2, LimitIs, LimitsAssumption DEF RoomInv, Room
<1>9. /\ Cardinality(Slots(e)') <= MaxActive /\ Cardinality(Unparked(e)') <= MaxWorkers
  <2>1. IsFiniteSet(Slots(e)) /\ IsFiniteSet(Unparked(e))
    BY SizesAre
  <2>2. QED
    BY <1>6, <1>7, <1>8, <2>1
<1>10. Cardinality(UnparkedBackground(e)') <= BackgroundLimit
  <2>1. IsFiniteSet(UnparkedBackground(e)) /\ Cardinality(UnparkedBackground(e)) \in Nat
    BY SizesAre
  <2>2. CASE run[i].task \in Background
    <3>1. UnparkedBackground(e)' \subseteq UnparkedBackground(e) \union {i}
      BY <1>6, <2>2
    <3>2. QED
      BY <1>7, <1>8, <2>1, <2>2, <3>1
  <2>3. CASE run[i].task \notin Background
    <3>1. UnparkedBackground(e)' \subseteq UnparkedBackground(e)
      BY <1>6, <2>3
    <3>2. Cardinality(UnparkedBackground(e)') \in Nat
          /\ Cardinality(UnparkedBackground(e)') <= Cardinality(UnparkedBackground(e))
      BY <2>1, <3>1, FS_Subset, FS_CardinalityType
    <3>3. QED
      BY <1>8, <2>1, <3>2
  <2>4. QED
    BY <2>2, <2>3
<1>11. Room(e)'
  BY <1>3, <1>9, <1>10 DEF Room, IdleLoop, BackgroundLimit
<1>12. QED
  BY <1>5, <1>11 DEF RoomInv

LEMMA RoomPoll ==
  ASSUME TInv, TInv', RoomInv, NEW e \in Engines, Poll(e)
  PROVE  RoomInv'
<1>1. /\ FreeSlots(e) > 0 /\ UNCHANGED run
      /\ loop' = [loop EXCEPT ![e] = [at |-> "asked", free |-> FreeSlots(e), run |-> None]]
  BY DEF Poll
<1>2. /\ loop'[e].at = "asked" /\ loop'[e].free = FreeSlots(e)
      /\ \A f \in Engines : f # e => loop'[f] = loop[f]
  BY <1>1 DEF TInv, LoopsOK
<1>3. ASSUME NEW f \in Engines, f # e PROVE Room(f)'
  BY <1>1, <1>2, <1>3, SettlesSame, RoomStays DEF RoomInv
<1>4. Slots(e)' = Slots(e) /\ Unparked(e)' = Unparked(e) /\ UnparkedBackground(e)' = UnparkedBackground(e)
  BY <1>1 DEF Slots, Unparked, UnparkedBackground
<1>5. Room(e)'
  <2>1. Room(e)
    BY DEF RoomInv
  <2>2. QED
    BY <1>1, <1>2, <1>4, <2>1, FreeSlotsAre DEF Room, BackgroundLimit
<1>6. QED
  BY <1>3, <1>5 DEF RoomInv

LEMMA RoomStops ==
  ASSUME TInv, TInv', RoomInv, NEW e \in Engines, LoseAnswer(e) \/ Crash(e) \/ Register(e)
  PROVE  RoomInv'
<1>1. \A f \in Engines : loop'[f] = loop[f] \/ loop'[f].at \in {"idle", "down"}
  BY DEF LoseAnswer, Crash, Register, IdleLoop, TInv, LoopsOK
<1>2. \A i \in Runs : RunOver(run[i]).st = "over"
  BY RunOverIs DEF TInv, RunsOK
<1>3. CASE LoseAnswer(e)
  <2>1. PICK i \in Runs : run' = [run EXCEPT ![i] = RunOver(run[i])]
    BY <1>3 DEF LoseAnswer, TInv, LoopsOK, RunsOK
  <2>2. QED
    BY <1>1, <1>2, <2>1, SettlesSet, RoomStays DEF RoomInv
<1>4. CASE Crash(e)
  <2>1. \A i \in Runs : run'[i] = run[i] \/ run'[i].st = "over"
    BY <1>2, <1>4 DEF Crash
  <2>2. \A f \in Engines : Settles(f)
    BY <2>1 DEF Settles, HasSlot
  <2>3. QED
    BY <1>1, <2>2, RoomStays DEF RoomInv
<1>5. CASE Register(e)
  BY <1>1, <1>5, SettlesSame, RoomStays DEF RoomInv, Register
<1>6. QED
  BY <1>3, <1>4, <1>5

LEMMA RoomAtFirst == Init => RoomInv
<1> SUFFICES ASSUME Init, NEW e \in Engines PROVE Room(e)
  BY DEF RoomInv
<1>1. Slots(e) = {} /\ Unparked(e) = {} /\ UnparkedBackground(e) = {}
  BY DEF Init, NoRun, Slots, Unparked, UnparkedBackground, HasSlot
<1>2. loop[e].at = "idle"
  BY DEF Init, IdleLoop
<1>3. QED
  BY <1>1, <1>2, FS_EmptySet, LimitIs, LimitsAssumption DEF Room

LEMMA RoomNext == TInv /\ TInv' /\ RoomInv /\ [Next]_vars => RoomInv'
<1> SUFFICES ASSUME TInv, TInv', RoomInv, [Next]_vars PROVE RoomInv'
  OBVIOUS
<1>1. CASE UNCHANGED loop /\ \A e \in Engines : Settles(e)
  BY <1>1, RoomStays DEF RoomInv
<1>2. QED
  BY <1>1, SettlesOthers, RoomPoll, RoomAnswer, RoomStart, RoomStops DEF Next

(* An engine never holds more than MaxActive tasks, nor more than MaxWorkers  *)
(* that never waited for an approval: its count of free slots is out of date  *)
(* when the answer comes, but only downwards.                                 *)
THEOREM LimitsHold == Spec => []SlotsWithinLimits
<1>1. RoomInv => SlotsWithinLimits
  BY DEF RoomInv, Room, SlotsWithinLimits, Unparked
<1>2. Spec => [](TInv /\ RoomInv)
  BY TypeAtFirst, TypeNext, RoomAtFirst, RoomNext, PTL DEF Spec
<1>3. QED
  BY <1>1, <1>2, PTL

(* Background tasks leave the reserve of their engine free, for every reserve *)
(* and number of workers.                                                     *)
THEOREM ReserveHolds == Spec => []ReserveKept
<1>1. RoomInv => ReserveKept
  BY DEF RoomInv, Room, ReserveKept, UnparkedBackground, BackgroundLimit
<1>2. Spec => [](TInv /\ RoomInv)
  BY TypeAtFirst, TypeNext, RoomAtFirst, RoomNext, PTL DEF Spec
<1>3. QED
  BY <1>1, <1>2, PTL

-----------------------------------------------------------------------------
(* Parked slots.                                                              *)
WaitingOf(i) == {c \in OwnCalls(i) : call[c].st = "waiting"}

WaitsFor(i) == run[i].st \in HasSlot => run[i].waits = Cardinality(WaitingOf(i))

WaitsInv == \A i \in Runs : WaitsFor(i)

LEMMA WaitingAre ==
  ASSUME NEW i \in Runs
  PROVE  IsFiniteSet(WaitingOf(i)) /\ Cardinality(WaitingOf(i)) \in Nat
BY CallsAreFinite DEF WaitingOf, OwnCalls

\* A run whose waiting calls and slot stay as they are.
LEMMA WaitsStay ==
  ASSUME NEW i \in Runs, WaitsFor(i),
         run'[i].st \in HasSlot => run[i].st \in HasSlot /\ run'[i].waits = run[i].waits,
         \A c \in Calls : (call'[c].run = i /\ call'[c].st = "waiting")
                            <=> (call[c].run = i /\ call[c].st = "waiting")
  PROVE  WaitsFor(i)'
<1>1. WaitingOf(i)' = WaitingOf(i)
  BY DEF WaitingOf, OwnCalls
<1>2. QED
  BY <1>1 DEF WaitsFor

\* A call that waits now, or no longer, and the report of it.
LEMMA WaitsReported ==
  ASSUME TInv, WaitsInv, NEW c \in Calls, NEW C \in Call, call' = [call EXCEPT ![c] = C],
         \/ /\ run' = ReportedBy(c, 1) /\ C.run = call[c].run
            /\ call[c].st # "waiting" /\ C.st = "waiting"
         \/ run' = ReportedBy(c, -1) /\ call[c].st = "waiting" /\ C.run = None
  PROVE  WaitsInv'
<1>1. call'[c] = C /\ \A d \in Calls : d # c => call'[d] = call[d]
  BY DEF TInv, CallsOK
<1>2. SUFFICES ASSUME NEW i \in Runs PROVE WaitsFor(i)'
  BY DEF WaitsInv
<1>3. PICK n \in {1, -1} : /\ run' = ReportedBy(c, n)
                           /\ n = 1 => C.run = call[c].run /\ call[c].st # "waiting" /\ C.st = "waiting"
                           /\ n = -1 => call[c].st = "waiting" /\ C.run = None
  OBVIOUS
<1>4. run'[i] = IF i = call[c].run THEN Reported(run[i], n) ELSE run[i]
  BY <1>3, ReportIs
<1>5. WaitsFor(i) /\ OneRun(run[i]) /\ run[i].waits \in Nat
  BY DEF WaitsInv, TInv, RunsOK, Run
<1>6. CASE i # call[c].run
  BY <1>1, <1>3, <1>4, <1>5, <1>6, NoneIsNone, WaitsStay
<1>7. CASE i = call[c].run
  <2>1. ASSUME run'[i].st \in HasSlot
        PROVE  run'[i].waits = Cardinality(WaitingOf(i)')
    <3>1. run'[i].st = run[i].st /\ run[i].st \in HasSlot
      BY <1>4, <1>5, <1>7, <2>1, ReportedIs
    <3>2. run'[i].waits = IF run[i].waits + n > 0 THEN run[i].waits + n ELSE 0
      <4>1. n \in Int
        OBVIOUS
      <4>2. Reported(run[i], n).waits = IF run[i].waits + n > 0 THEN run[i].waits + n ELSE 0
        BY <1>5, <3>1, <4>1, ReportedIs
      <4>3. run'[i] = Reported(run[i], n)
        BY <1>4, <1>7
      <4>4. QED
        BY <4>2, <4>3
    <3>3. run[i].waits = Cardinality(WaitingOf(i)) /\ IsFiniteSet(WaitingOf(i))
      BY <1>5, <3>1, WaitingAre DEF WaitsFor
    <3>4. CASE n = 1
      <4>1. WaitingOf(i)' = WaitingOf(i) \union {c} /\ c \notin WaitingOf(i)
        BY <1>1, <1>3, <1>7, <3>4 DEF WaitingOf, OwnCalls
      <4>2. Cardinality(WaitingOf(i)') = Cardinality(WaitingOf(i)) + 1
        BY <3>3, <4>1, FS_AddElement
      <4>3. QED
        BY <1>5, <3>2, <3>3, <3>4, <4>2
    <3>5. CASE n = -1
      <4>1. WaitingOf(i)' = WaitingOf(i) \ {c} /\ c \in WaitingOf(i)
        BY <1>1, <1>3, <1>7, <3>5, NoneIsNone DEF WaitingOf, OwnCalls
      <4>2. Cardinality(WaitingOf(i)') = Cardinality(WaitingOf(i)) - 1 /\ Cardinality(WaitingOf(i)') \in Nat
        BY <3>3, <4>1, FS_RemoveElement, FS_CardinalityType
      <4>3. QED
        BY <1>5, <3>2, <3>3, <3>5, <4>2
    <3>6. QED
      BY <1>3, <3>4, <3>5
  <2>2. QED
    BY <2>1 DEF WaitsFor
<1>8. QED
  BY <1>6, <1>7

LEMMA WaitsInterrupt ==
  ASSUME TInv, WaitsInv, NEW i \in Runs, Interrupt(i)
  PROVE  WaitsInv'
<1> DEFINE unwound == {c \in OwnCalls(i) : ~call[c].relayed}
           reports == {c \in unwound : call[c].st = "waiting"}
           q == Reported(run[i], -Cardinality(reports))
           r == [q EXCEPT !.st = "stopping"]
<1>1. OneRun(run[i]) /\ run[i].st \in HasSlot /\ run[i].waits \in Nat
  BY DEF TInv, RunsOK, Interrupt, HasSlot, Run
<1>2. IsFiniteSet(reports) /\ Cardinality(reports) \in Nat /\ -Cardinality(reports) \in Int
  <2>1. IsFiniteSet(reports) /\ Cardinality(reports) \in Nat
    BY CallsAreFinite DEF OwnCalls
  <2>2. QED
    BY <2>1
<1>3. /\ q \in Run /\ q.waits = IF run[i].waits - Cardinality(reports) > 0
                                THEN run[i].waits - Cardinality(reports) ELSE 0
  <2>1. run[i].waits + (-Cardinality(reports)) = run[i].waits - Cardinality(reports)
    BY <1>1, <1>2
  <2>2. QED
    BY <1>1, <1>2, <2>1, ReportedIs DEF OneRun
<1>4. run'[i] = r /\ \A j \in Runs : j # i => run'[j] = run[j]
  BY DEF Interrupt, TInv, RunsOK
<1>5. \A c \in Calls : call'[c] = IF c \in unwound THEN CallOver ELSE call[c]
  BY DEF Interrupt
<1>6. reports \subseteq WaitingOf(i) /\ WaitingOf(i)' = WaitingOf(i) \ reports
  BY <1>5, NoCallIs, NoneIsNone DEF WaitingOf, OwnCalls
<1>7. \A c \in unwound : call[c].run = i
  BY DEF OwnCalls
<1> HIDE DEF q, reports, unwound
<1>8. r.waits = q.waits
  BY <1>3 DEF Run
<1>9. WaitsFor(i)'
  <2>1. run[i].waits = Cardinality(WaitingOf(i)) /\ IsFiniteSet(WaitingOf(i))
    BY <1>1, WaitingAre DEF WaitsInv, WaitsFor
  <2>2. WaitingOf(i) \intersect reports = reports
    BY <1>6
  <2>3. Cardinality(WaitingOf(i)') = Cardinality(WaitingOf(i)) - Cardinality(reports)
    <3>1. Cardinality(WaitingOf(i) \ reports)
            = Cardinality(WaitingOf(i)) - Cardinality(WaitingOf(i) \intersect reports)
      BY <2>1, FS_Difference
    <3>2. QED
      BY <1>6, <2>2, <3>1
  <2>4. Cardinality(WaitingOf(i)') \in Nat
    BY <1>6, <2>1, FS_Difference, FS_CardinalityType
  <2>5. run'[i].waits = Cardinality(WaitingOf(i)')
    BY <1>1, <1>2, <1>3, <1>4, <1>8, <2>1, <2>3, <2>4
  <2>6. QED
    BY <2>5 DEF WaitsFor
<1>10. ASSUME NEW j \in Runs, j # i PROVE WaitsFor(j)'
  <2>1. \A c \in Calls : (call'[c].run = j /\ call'[c].st = "waiting")
                            <=> (call[c].run = j /\ call[c].st = "waiting")
    BY <1>5, <1>7, <1>10, NoCallIs, NoneIsNone
  <2>2. QED
    BY <1>4, <1>10, <2>1, WaitsStay DEF WaitsInv
<1>11. QED
  BY <1>9, <1>10 DEF WaitsInv

\* A run that has only started has no calls.
LEMMA WaitsStart ==
  ASSUME TInv, WaitsInv, NEW e \in Engines, Start(e)
  PROVE  WaitsInv'
<1>1. PICK i \in Runs : i = loop[e].run /\ run[i].st = "sent"
  BY DEF Start, TInv, LoopsOK
<1>2. OneRun(run[i]) /\ run[i] \in Run /\ run[i].st \notin HasSlot \union {"over"}
  BY <1>1 DEF TInv, RunsOK, HasSlot
<1>3. run[i].waits = 0
  BY <1>2 DEF OneRun, Run
<1>4. /\ run'[i] = [run[i] EXCEPT !.st = "live"] /\ UNCHANGED call
      /\ \A j \in Runs : j # i => run'[j] = run[j]
  BY <1>1 DEF Start, TInv, RunsOK
<1>5. run'[i].waits = 0
  BY <1>2, <1>3, <1>4 DEF Run
<1>6. \A c \in Calls : call[c].run # i
  BY <1>2, NoneIsNone DEF TInv, CallsOK, Owned
<1>7. WaitingOf(i)' = {}
  BY <1>4, <1>6 DEF WaitingOf, OwnCalls
<1>8. WaitsFor(i)'
  BY <1>5, <1>7, FS_EmptySet DEF WaitsFor
<1>9. ASSUME NEW j \in Runs, j # i PROVE WaitsFor(j)'
  BY <1>4, <1>9, WaitsStay DEF WaitsInv
<1>10. QED
  BY <1>8, <1>9 DEF WaitsInv

LEMMA WaitsCrash ==
  ASSUME TInv, WaitsInv, NEW e \in Engines, Crash(e)
  PROVE  WaitsInv'
<1>1. /\ \A i \in Runs : run'[i] = IF run[i].eng = e THEN RunOver(run[i]) ELSE run[i]
      /\ \A c \in Calls : call'[c] = IF call[c].eng = e THEN CallOver ELSE call[c]
  BY DEF Crash
<1>2. \A i \in Runs : RunOver(run[i]).st \notin HasSlot
  BY RunOverIs DEF TInv, RunsOK, HasSlot
<1>3. \A c \in Calls : call[c].run \in Runs => run[call[c].run].eng = call[c].eng
  BY NoneIsNone DEF TInv, CallsOK, Owned
<1>4. ASSUME NEW i \in Runs, run[i].eng = e PROVE WaitsFor(i)'
  BY <1>1, <1>2, <1>4 DEF WaitsFor
<1>5. ASSUME NEW i \in Runs, run[i].eng # e PROVE WaitsFor(i)'
  <2>1. \A c \in Calls : (call'[c].run = i /\ call'[c].st = "waiting")
                            <=> (call[c].run = i /\ call[c].st = "waiting")
    BY <1>1, <1>3, <1>5, NoCallIs, NoneIsNone
  <2>2. QED
    BY <1>1, <1>5, <2>1, WaitsStay DEF WaitsInv
<1>6. QED
  BY <1>4, <1>5 DEF WaitsInv

\* One call changes that does not wait, before or after.
LEMMA WaitsElsewhere ==
  ASSUME TInv, WaitsInv, NEW c \in Calls, NEW C, call' = [call EXCEPT ![c] = C], UNCHANGED run,
         call[c].st # "waiting", C.st # "waiting" \/ C.run = None
  PROVE  WaitsInv'
<1>1. call'[c] = C /\ \A d \in Calls : d # c => call'[d] = call[d]
  BY DEF TInv, CallsOK
<1>2. ASSUME NEW i \in Runs PROVE WaitsFor(i)'
  <2>1. \A d \in Calls : (call'[d].run = i /\ call'[d].st = "waiting")
                            <=> (call[d].run = i /\ call[d].st = "waiting")
    BY <1>1, NoneIsNone
  <2>2. QED
    BY <2>1, WaitsStay DEF WaitsInv
<1>3. QED
  BY <1>2 DEF WaitsInv

LEMMA WaitsRequest ==
  ASSUME TInv, WaitsInv, NEW c \in Calls, NEW C \in Call, NEW t, Request(c, C, t), UNCHANGED run,
         call[c].st # "waiting"
  PROVE  WaitsInv'
<1>1. PICK a \in Calls : call' = [call EXCEPT ![c] = [C EXCEPT !.st = "asked", !.on = a]]
  BY DEF Request, SameFingerprint
<1> DEFINE D == [C EXCEPT !.st = "asked", !.on = a]
<1>2. D.st = "asked"
  BY DEF Call
<1> HIDE DEF D
<1>3. call' = [call EXCEPT ![c] = D]
  BY <1>1 DEF D
<1>4. QED
  BY <1>2, <1>3, WaitsElsewhere

LEMMA WaitsCalls ==
  ASSUME TInv, WaitsInv, NEW c \in Calls,
         AskAsync(c) \/ BeginWait(c) \/ EndWait(c) \/ EndCall(c) \/ Upgrade(c)
  PROVE  WaitsInv'
<1>1. call[c] \in Call /\ call \in [Calls -> Call] /\ CallOver \in Call
  BY NoCallIs DEF TInv, CallsOK, OneCall
<1>2. CASE AskAsync(c)
  BY <1>1, <1>2, WaitsRequest DEF AskAsync
<1>3. CASE BeginWait(c)
  <2> DEFINE C == [call[c] EXCEPT !.st = "waiting"]
  <2>1. C \in Call /\ C.st = "waiting" /\ C.run = call[c].run /\ call[c].st = "asked"
    BY <1>1, <1>3 DEF Call, BeginWait
  <2>2. call' = [call EXCEPT ![c] = C] /\ run' = ReportedBy(c, 1)
    BY <1>1, <1>3 DEF BeginWait
  <2> HIDE DEF C
  <2>3. QED
    BY <2>1, <2>2, WaitsReported
<1>4. CASE EndWait(c)
  BY <1>1, <1>4, NoCallIs, WaitsReported DEF EndWait
<1>5. CASE EndCall(c)
  BY <1>5, NoCallIs, WaitsElsewhere DEF EndCall
<1>6. CASE Upgrade(c)
  <2> DEFINE C == InBackground(call[c])
  <2>1. C \in Call /\ C.run = None
    BY <1>1 DEF Call, InBackground
  <2>2. call' = [call EXCEPT ![c] = C]
    BY <1>1, <1>6 DEF Upgrade
  <2> HIDE DEF C
  <2>3. CASE call[c].st = "waiting"
    BY <1>6, <2>1, <2>2, <2>3, WaitsReported DEF Upgrade, Detached
  <2>4. CASE call[c].st # "waiting"
    BY <1>6, <2>1, <2>2, <2>4, WaitsElsewhere DEF Upgrade, Detached
  <2>5. QED
    BY <2>3, <2>4
<1>7. QED
  BY <1>2, <1>3, <1>4, <1>5, <1>6

\* Steps that leave the calls alone and let no run with a slot change.
LEMMA WaitsRuns ==
  ASSUME TInv, WaitsInv, UNCHANGED call,
         \/ UNCHANGED run
         \/ \E i \in Runs : \E r : r.st \notin HasSlot /\ run' = [run EXCEPT ![i] = r]
  PROVE  WaitsInv'
<1>1. ASSUME NEW j \in Runs
      PROVE  run'[j].st \in HasSlot => run[j].st \in HasSlot /\ run'[j].waits = run[j].waits
  BY DEF TInv, RunsOK
<1>2. ASSUME NEW j \in Runs PROVE WaitsFor(j)'
  BY <1>1, WaitsStay DEF WaitsInv
<1>3. QED
  BY <1>2 DEF WaitsInv

LEMMA WaitsNext == TInv /\ WaitsInv /\ [Next]_vars => WaitsInv'
<1> SUFFICES ASSUME TInv, WaitsInv, [Next]_vars PROVE WaitsInv'
  OBVIOUS
<1>1. ASSUME NEW i \in Runs PROVE RunOver(run[i]).st \notin HasSlot
  BY RunOverIs DEF TInv, RunsOK, HasSlot
<1>2. CASE UNCHANGED <<call, run>>
  BY <1>2, WaitsRuns
<1>3. ASSUME NEW e \in Engines, Answer(e) PROVE WaitsInv'
  <2>1. CASE UNCHANGED run
    BY <1>3, <2>1, WaitsRuns DEF Answer
  <2>2. ASSUME NEW t \in Tasks, NEW i \in Runs,
               run' = [run EXCEPT ![i] = [NoRun EXCEPT !.st = "sent", !.task = t, !.eng = e]]
        PROVE  WaitsInv'
    <3> DEFINE r == [NoRun EXCEPT !.st = "sent", !.task = t, !.eng = e]
    <3>1. r.st \notin HasSlot
      BY DEF NoRun, HasSlot
    <3> HIDE DEF r
    <3>2. run' = [run EXCEPT ![i] = r]
      BY <2>2 DEF r
    <3>3. QED
      BY <1>3, <3>1, <3>2, WaitsRuns DEF Answer
  <2>3. QED
    BY <1>3, <2>1, <2>2 DEF Answer, NextClaimable
<1>4. ASSUME NEW e \in Engines, LoseAnswer(e) PROVE WaitsInv'
  <2>1. PICK i \in Runs : run' = [run EXCEPT ![i] = RunOver(run[i])] /\ UNCHANGED call
    BY <1>4 DEF LoseAnswer, TInv, LoopsOK, RunsOK
  <2>2. QED
    BY <1>1, <2>1, WaitsRuns
<1>5. ASSUME NEW i \in Runs, Post(i) \/ LosePost(i) \/ Suspend(i) PROVE WaitsInv'
  <2>1. run' = [run EXCEPT ![i] = RunOver(run[i])] /\ UNCHANGED call
    BY <1>5 DEF Post, LosePost, Suspend, TInv, RunsOK
  <2>2. QED
    BY <1>1, <2>1, WaitsRuns
<1>6. ASSUME NEW i \in Runs, BeginCall(i) PROVE WaitsInv'
  <2>1. PICK c \in Calls, relayed \in BOOLEAN :
           IsNextCall(c) /\ Request(c, [CallOf(i) EXCEPT !.relayed = relayed], run[i].task) /\ UNCHANGED run
    BY <1>6 DEF BeginCall
  <2> DEFINE C == [CallOf(i) EXCEPT !.relayed = relayed]
  <2>2. run[i].task \in Tasks /\ run[i].eng \in Engines
    BY <1>6 DEF BeginCall, TInv, RunsOK, OneRun, HasSlot
  <2>3. C \in Call
    BY <2>2 DEF CallOf, NoCall, Call
  <2> HIDE DEF C
  <2>4. call[c].st # "waiting" /\ Request(c, C, run[i].task) /\ UNCHANGED run
    BY <2>1 DEF C, IsNextCall
  <2>5. QED
    BY <2>3, <2>4, WaitsRequest
<1>7. ASSUME NEW i \in Runs, BeginAsync(i) PROVE WaitsInv'
  <2>1. PICK c \in Calls : /\ IsNextCall(c) /\ UNCHANGED run
                           /\ call' = [call EXCEPT ![c] = [InBackground(CallOf(i)) EXCEPT !.st = "ready"]]
    BY <1>7 DEF BeginAsync
  <2> DEFINE C == [InBackground(CallOf(i)) EXCEPT !.st = "ready"]
  <2>2. C.st = "ready"
    BY DEF InBackground, CallOf, NoCall
  <2> HIDE DEF C
  <2>3. call' = [call EXCEPT ![c] = C] /\ call[c].st # "waiting"
    BY <2>1 DEF C, IsNextCall
  <2>4. QED
    BY <2>1, <2>2, <2>3, WaitsElsewhere
<1>8. QED
  BY <1>2, <1>3, <1>4, <1>5, <1>6, <1>7, WaitsInterrupt, WaitsStart, WaitsCrash, WaitsCalls
     DEF Next, vars, Poll, Register, Resume, Reap, LeaseLapses, Reaped, Decide, Sweep

LEMMA WaitsAtFirst == Init => WaitsInv
BY DEF Init, NoRun, WaitsInv, WaitsFor, HasSlot

(* A slot counts as parked for exactly the calls its task has to wait for: no *)
(* report is counted twice, or for a run that is not the call's.              *)
THEOREM SlotsParkRightly == Spec => []ParkedWhileItsCallsWait
<1>1. WaitsInv => ParkedWhileItsCallsWait
  BY DEF WaitsInv, WaitsFor, WaitingOf, ParkedWhileItsCallsWait
<1>2. Spec => [](TInv /\ WaitsInv)
  BY TypeAtFirst, TypeNext, WaitsAtFirst, WaitsNext, PTL DEF Spec
<1>3. QED
  BY <1>1, <1>2, PTL

-----------------------------------------------------------------------------
(* The cap on the background lane.                                            *)

\* Whoever excuses a background task from the cap asked during its claim.
AskedInv ==
    \A a \in Calls :
        approval[a].st = "pending" =>
            LET t == approval[a].task
            IN t \in Background /\ task[t].st = "running" /\ approval[a].claim = task[t].claim => task[t].asked

Quiet == {t \in Tasks \intersect Background : task[t].st = "running" /\ ~task[t].asked}

CapInv == AskedInv /\ (BackgroundMax > 0 => Cardinality(Quiet) <= BackgroundMax)

LEMMA QuietCounts ==
  ASSUME AskedInv
  PROVE  Quiet \subseteq BackgroundRunning /\ IsFiniteSet(BackgroundRunning) /\ IsFiniteSet(Quiet)
<1>1. Quiet \subseteq BackgroundRunning
  BY DEF AskedInv, Quiet, BackgroundRunning, Awaiting, AskedInCurrentClaim
<1>2. QED
  BY <1>1, TasksAreFinite DEF BackgroundRunning, Quiet

\* Steps that claim no task and ask for nothing.
LEMMA CapStays ==
  ASSUME TInv, CapInv,
         \A t \in Tasks : \/ task'[t].st # "running"
                          \/ /\ task'[t].st = task[t].st /\ task'[t].claim = task[t].claim
                             /\ task[t].asked => task'[t].asked
                             /\ task'[t].asked \in BOOLEAN,
         \A a \in Calls : approval'[a].st = "pending" => approval'[a] = approval[a]
  PROVE  CapInv'
<1>1. AskedInv'
  BY DEF AskedInv, CapInv, TInv, ApprovalsOK
<1>2. Quiet' \subseteq Quiet
  BY DEF Quiet
<1>3. IsFiniteSet(Quiet)
  BY TasksAreFinite DEF Quiet
<1>4. Cardinality(Quiet') \in Nat /\ Cardinality(Quiet) \in Nat /\ Cardinality(Quiet') <= Cardinality(Quiet)
  BY <1>2, <1>3, FS_Subset, FS_CardinalityType
<1>5. BackgroundMax > 0 => Cardinality(Quiet') <= BackgroundMax
  BY <1>4, LimitsAssumption DEF CapInv
<1>6. QED
  BY <1>1, <1>5 DEF CapInv

LEMMA CapRequest ==
  ASSUME TInv, CapInv, NEW c \in Calls, NEW C, NEW t \in Tasks, Request(c, C, t)
  PROVE  CapInv'
<1>1. task \in [Tasks -> Task] /\ task[t] \in Task
  BY DEF TInv, TasksOK
<1>2. CASE UNCHANGED <<task, approval>>
  BY <1>1, <1>2, CapStays DEF Task
<1>3. CASE /\ approval' = [approval EXCEPT ![c] = [st |-> "pending", task |-> t, claim |-> task[t].claim]]
           /\ task' = [task EXCEPT ![t].asked = @ \/ (t \in Background /\ task[t].st = "running")]
  <2> DEFINE b == task[t].asked \/ (t \in Background /\ task[t].st = "running")
             u == [task[t] EXCEPT !.asked = b]
  <2>1. b \in BOOLEAN /\ (task[t].asked => b) /\ (t \in Background /\ task[t].st = "running" => b)
    BY <1>1 DEF Task
  <2>2. u.st = task[t].st /\ u.claim = task[t].claim /\ u.asked = b
    BY <1>1 DEF Task
  <2>3. task' = [task EXCEPT ![t] = u]
    BY <1>1, <1>3
  <2> HIDE DEF u, b
  <2>4. task'[t] = u /\ \A v \in Tasks : v # t => task'[v] = task[v]
    BY <1>1, <2>3
  <2>5. /\ approval'[c].task = t /\ approval'[c].claim = task[t].claim
        /\ \A a \in Calls : a # c => approval'[a] = approval[a]
    BY <1>3 DEF TInv, ApprovalsOK
  <2>6. AskedInv'
    <3>1. ASSUME NEW a \in Calls, approval'[a].st = "pending",
                 approval'[a].task \in Background, task'[approval'[a].task].st = "running",
                 approval'[a].claim = task'[approval'[a].task].claim
          PROVE  task'[approval'[a].task].asked
      <4>1. CASE a = c
        BY <2>1, <2>2, <2>4, <2>5, <3>1, <4>1
      <4>2. CASE a # c
        <5>1. approval'[a] = approval[a] /\ approval[a].st = "pending" /\ approval[a].task \in Tasks
          BY <2>5, <3>1, <4>2 DEF TInv, ApprovalsOK
        <5>2. CASE approval[a].task = t
          BY <2>1, <2>2, <2>4, <3>1, <5>1, <5>2
        <5>3. CASE approval[a].task # t
          BY <2>4, <3>1, <5>1, <5>3 DEF CapInv, AskedInv
        <5>4. QED
          BY <5>2, <5>3
      <4>3. QED
        BY <4>1, <4>2
    <3>2. QED
      BY <3>1 DEF AskedInv
  <2>7. Quiet' \subseteq Quiet
    <3>1. ASSUME NEW v \in Quiet' PROVE v \in Quiet
      <4>1. v \in Tasks /\ v \in Background /\ task'[v].st = "running" /\ ~task'[v].asked
        BY <3>1 DEF Quiet
      <4>2. task[v].st = "running" /\ ~task[v].asked
        BY <2>1, <2>2, <2>4, <4>1
      <4>3. QED
        BY <4>1, <4>2 DEF Quiet
    <3>2. QED
      BY <3>1
  <2>8. IsFiniteSet(Quiet)
    BY TasksAreFinite DEF Quiet
  <2>9. Cardinality(Quiet') \in Nat /\ Cardinality(Quiet) \in Nat /\ Cardinality(Quiet') <= Cardinality(Quiet)
    BY <2>7, <2>8, FS_Subset, FS_CardinalityType
  <2>10. BackgroundMax > 0 => Cardinality(Quiet') <= BackgroundMax
    BY <2>9, LimitsAssumption DEF CapInv
  <2>11. QED
    BY <2>6, <2>10 DEF CapInv
<1>4. QED
  BY <1>2, <1>3 DEF Request

\* A claim: its number is new, so no approval is of it.
LEMMA CapAnswer ==
  ASSUME TInv, CapInv, NEW e \in Engines, Answer(e)
  PROVE  CapInv'
<1>1. task \in [Tasks -> Task]
  BY DEF TInv, TasksOK
<1>2. CASE UNCHANGED <<task, approval>>
  BY <1>1, <1>2, CapStays DEF Task
<1>3. ASSUME NEW t \in Tasks, NEW i \in Runs, Claimable(t, loop[e].free), run[i].st = "none",
             UNCHANGED approval,
             task' = [task EXCEPT ![t] = [task[t] EXCEPT !.st = "running", !.claim = i, !.asked = FALSE]]
      PROVE  CapInv'
  <2>1. /\ task'[t].claim = i /\ task'[t].asked = FALSE
        /\ \A v \in Tasks : v # t => task'[v] = task[v]
    BY <1>1, <1>3 DEF Task
  <2>2. ASSUME NEW a \in Calls, approval[a].st = "pending"
        PROVE  approval[a].claim # i /\ approval[a].task \in Tasks
    BY <1>3, <2>2, NoneIsNone DEF TInv, ApprovalsOK, Known
  <2>3. AskedInv'
    <3>1. ASSUME NEW a \in Calls, approval[a].st = "pending",
                 approval[a].task \in Background, task'[approval[a].task].st = "running",
                 approval[a].claim = task'[approval[a].task].claim
          PROVE  task'[approval[a].task].asked
      <4>1. approval[a].task # t /\ approval[a].task \in Tasks
        BY <2>1, <2>2, <3>1
      <4>2. QED
        BY <2>1, <3>1, <4>1 DEF CapInv, AskedInv
    <3>2. QED
      BY <1>3, <3>1 DEF AskedInv
  <2>4. Quiet' \subseteq IF t \in Background THEN Quiet \union {t} ELSE Quiet
    <3>1. ASSUME NEW v \in Quiet', v # t PROVE v \in Quiet
      BY <2>1, <3>1 DEF Quiet
    <3>2. t \in Quiet' => t \in Background
      BY DEF Quiet
    <3>3. QED
      BY <3>1, <3>2
  <2>5. /\ Quiet \subseteq BackgroundRunning /\ IsFiniteSet(BackgroundRunning) /\ IsFiniteSet(Quiet)
        /\ Cardinality(Quiet) <= Cardinality(BackgroundRunning)
        /\ Cardinality(Quiet) \in Nat /\ Cardinality(BackgroundRunning) \in Nat
    <3>1. Quiet \subseteq BackgroundRunning /\ IsFiniteSet(BackgroundRunning) /\ IsFiniteSet(Quiet)
      BY QuietCounts DEF CapInv
    <3>2. QED
      BY <3>1, FS_Subset, FS_CardinalityType
  <2>6. CASE t \in Background
    <3>1. BackgroundMax > 0 => Cardinality(BackgroundRunning) < BackgroundMax
      BY <1>3, <2>6, LimitsAssumption DEF Claimable, BackgroundHasRoom
    <3>2. /\ IsFiniteSet(Quiet \union {t})
          /\ Cardinality(Quiet \union {t}) = IF t \in Quiet THEN Cardinality(Quiet) ELSE Cardinality(Quiet) + 1
      BY <2>5, FS_AddElement
    <3>3. Quiet' \subseteq Quiet \union {t}
      BY <2>4, <2>6
    <3>4. Cardinality(Quiet') \in Nat /\ Cardinality(Quiet') <= Cardinality(Quiet \union {t})
      BY <3>2, <3>3, FS_Subset, FS_CardinalityType
    <3>5. BackgroundMax > 0 => Cardinality(Quiet') <= BackgroundMax
      BY <2>5, <3>1, <3>2, <3>4, LimitsAssumption
    <3>6. QED
      BY <2>3, <3>5 DEF CapInv
  <2>7. CASE t \notin Background
    <3>1. Quiet' \subseteq Quiet
      BY <2>4, <2>7
    <3>2. Cardinality(Quiet') \in Nat /\ Cardinality(Quiet') <= Cardinality(Quiet)
      BY <2>5, <3>1, FS_Subset, FS_CardinalityType
    <3>3. BackgroundMax > 0 => Cardinality(Quiet') <= BackgroundMax
      BY <2>5, <3>2, LimitsAssumption DEF CapInv
    <3>4. QED
      BY <2>3, <3>3 DEF CapInv
  <2>8. QED
    BY <2>6, <2>7
<1>4. QED
  BY <1>2, <1>3 DEF Answer, NextClaimable

LEMMA CapNext == TInv /\ CapInv /\ [Next]_vars => CapInv'
<1> SUFFICES ASSUME TInv, CapInv, [Next]_vars PROVE CapInv'
  OBVIOUS
<1>1. /\ task \in [Tasks -> Task] /\ approval \in [Calls -> Approval]
      /\ \A t \in Tasks : task[t].asked \in BOOLEAN
  BY DEF TInv, TasksOK, ApprovalsOK, Task
<1>2. CASE UNCHANGED <<task, approval>>
  BY <1>1, <1>2, CapStays
<1>3. ASSUME NEW S, S \subseteq Tasks,
             \A t \in Tasks : task'[t].st # "running" \/ task'[t] = task[t],
             approval' = approval \/ ClosesApprovals(S)
      PROVE  CapInv'
  <2>1. \A a \in Calls : approval'[a].st = "pending" => approval'[a] = approval[a]
    BY <1>3, ApprovalsAre DEF ClosesApprovals
  <2>2. QED
    BY <1>1, <1>3, <2>1, CapStays
<1>4. ASSUME NEW c \in Calls, EndWait(c) \/ Decide(c) \/ Sweep(c) PROVE CapInv'
  <2>1. \A a \in Calls : approval'[a].st = "pending" => approval'[a] = approval[a]
    BY <1>1, <1>4, ApprovalsAre DEF EndWait, Decide, Sweep
  <2>2. UNCHANGED task
    BY <1>4 DEF EndWait, Decide, Sweep
  <2>3. QED
    BY <1>1, <2>1, <2>2, CapStays
<1>5. ASSUME NEW c \in Calls, AskAsync(c) PROVE CapInv'
  <2>1. call[c].task \in Tasks
    BY <1>5 DEF AskAsync, TInv, CallsOK, OneCall
  <2>2. QED
    BY <1>5, <2>1, CapRequest DEF AskAsync
<1>6. ASSUME NEW i \in Runs, BeginCall(i) PROVE CapInv'
  <2>1. run[i].task \in Tasks
    BY <1>6 DEF BeginCall, TInv, RunsOK, OneRun, HasSlot
  <2>2. QED
    BY <1>6, <2>1, CapRequest DEF BeginCall
<1>7. TaskOver.st # "running" /\ Queued.st # "running" /\ [Queued EXCEPT !.requeued = TRUE].st # "running"
  BY TasksAre
<1>8. ASSUME NEW i \in Runs, Post(i) \/ Suspend(i) PROVE CapInv'
  <2>1. run[i].task \in Tasks
    BY <1>8 DEF Post, Suspend, WorkIsDone, TInv, RunsOK, OneRun, HasSlot
  <2>2. task[run[i].task] \in Task
    BY <1>1, <2>1
  <2>3. Suspended(task[run[i].task]).st # "running"
    BY <2>2 DEF Suspended, Task
  <2>4. \A t \in Tasks : task'[t].st # "running" \/ task'[t] = task[t]
    BY <1>1, <1>7, <1>8, <2>1, <2>3 DEF Post, Suspend, Ends
  <2>5. approval' = approval \/ ClosesApprovals({run[i].task})
    BY <1>8 DEF Post, Suspend, Ends
  <2>6. QED
    BY <1>3, <2>1, <2>4, <2>5
<1>9. ASSUME NEW t \in Tasks, Resume(t) \/ Reap(t) \/ LeaseLapses(t) PROVE CapInv'
  <2>1. task[t] \in Task
    BY <1>1
  <2>2. [task[t] EXCEPT !.st = "pending"].st # "running"
    BY <2>1 DEF Task
  <2>3. task' = [task EXCEPT ![t] = [task[t] EXCEPT !.st = "pending"]] \/ task' = [task EXCEPT ![t] = TaskOver]
    BY <1>1, <1>9 DEF Resume, Reap, LeaseLapses, Reaped
  <2>4. \A v \in Tasks : task'[v].st # "running" \/ task'[v] = task[v]
    BY <1>1, <1>7, <2>2, <2>3
  <2>5. approval' = approval \/ ClosesApprovals({t})
    BY <1>9 DEF Resume, Reap, LeaseLapses, Reaped
  <2>6. QED
    BY <1>3, <2>4, <2>5
<1>10. ASSUME NEW e \in Engines, Register(e) PROVE CapInv'
  <2> DEFINE orphans == {t \in Tasks : task[t].st = "running" /\ run[task[t].claim].eng = e}
  <2>1. PICK again \in SUBSET {t \in orphans : ~task[t].requeued} :
          /\ task' = [t \in Tasks |->
                 IF t \in again THEN [Queued EXCEPT !.requeued = TRUE]
                 ELSE IF t \in orphans THEN TaskOver ELSE task[t]]
          /\ ClosesApprovals(orphans \ again)
    BY <1>10 DEF Register
  <2>2. orphans \ again \subseteq Tasks
    OBVIOUS
  <2> HIDE DEF orphans
  <2>3. \A t \in Tasks : task'[t].st # "running" \/ task'[t] = task[t]
    BY <1>7, <2>1
  <2>4. QED
    BY <1>3, <2>1, <2>2, <2>3
<1>11. QED
  BY <1>2, <1>4, <1>5, <1>6, <1>8, <1>9, <1>10, CapAnswer
     DEF Next, vars, Poll, Start, LoseAnswer, Crash, BeginWait, EndCall, Upgrade, BeginAsync, Interrupt, LosePost

LEMMA CapAtFirst == Init => CapInv
<1> SUFFICES ASSUME Init PROVE CapInv
  OBVIOUS
<1>1. AskedInv
  BY ApprovalsAre DEF Init, AskedInv
<1>2. Quiet = {}
  BY TasksAre DEF Init, Quiet
<1>3. QED
  BY <1>1, <1>2, FS_EmptySet, LimitsAssumption DEF CapInv

(* More than background_max_running background tasks run only while enough of *)
(* them have asked for an approval since they were claimed: an approval that  *)
(* an earlier claim left open excuses nobody.                                 *)
THEOREM CapHolds == Spec => []BackgroundCap
<1>1. CapInv => BackgroundCap
  BY DEF CapInv, Quiet, BackgroundCap
<1>2. Spec => [](TInv /\ CapInv)
  BY TypeAtFirst, TypeNext, CapAtFirst, CapNext, PTL DEF Spec
<1>3. QED
  BY <1>1, <1>2, PTL
=============================================================================
