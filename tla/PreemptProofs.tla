---------------------------- MODULE PreemptProofs ----------------------------
(* Type correctness of Preempt and, from one invariant per task (TaskInv):    *)
(* no accepted message vanishes, the last look of a task counts, and every    *)
(* conversation gets its messages once and in order.                          *)
EXTENDS Preempt, TLAPS

(* What the slot holds. *)
Slot(t) == [message |-> task[t].message, revision |-> task[t].revision]

(* x is a message the task accepted, under its revision. *)
Fits(t, x) ==
    /\ x.revision \in 1 .. Len(taken[t])
    /\ x.message = Text(taken[t][x.revision])

(* x may be written next. *)
Newer(t, x) == \A k \in 1 .. Len(talk[t]) : Follows(t, talk[t][k], x)

(* Only a task that runs, or ran, has a process. *)
RunsWhenClaimed(t) == task[t].status \in {"none", "pending", "suspended"} => run[t] = Idle

(* Slot, process and conversation hold accepted messages. *)
HoldsAccepted(t) ==
    /\ task[t].revision = Len(taken[t])
    /\ Waiting(t) => Fits(t, Slot(t))
    /\ run[t].info # NoInfo => Fits(t, run[t].info)
    /\ \A k \in 1 .. Len(talk[t]) : Fits(t, talk[t][k])
    /\ run[t].mark <= task[t].revision
    /\ run[t].at \in {"inject", "wrote"} => run[t].info # NoInfo

(* What was just written is the last thing in the conversation; it and what  *)
(* the process holds or the slot holds may follow what is there.             *)
JustWrote(t) ==
    run[t].at = "wrote" =>
        /\ run[t].info.revision \in Written(t) \cup lost[t]
        /\ \A k \in 1 .. Len(talk[t]) : talk[t][k].revision <= run[t].info.revision

WritesNewer(t) ==
    /\ run[t].info # NoInfo /\ run[t].at # "wrote" => Newer(t, run[t].info)
    /\ Waiting(t) /\ ~(run[t].at = "wrote" /\ run[t].info.revision = task[t].revision)
          => Newer(t, Slot(t))

TaskInv(t) ==
    /\ RunsWhenClaimed(t)
    /\ HoldsAccepted(t)
    /\ JustWrote(t)
    /\ WritesNewer(t)
    /\ Accounted(t)
    /\ EndsInformed(t)
    /\ InOrder(t)

(* Nobody took a message the adapter still offers, unless it could not know. *)
OffersFresh ==
    \A m \in Users \ twice : sender[m].at # "done" => \A t \in Tasks : ~TookIt(t, m)

OneTakes ==
    \A m \in Users \ twice : \A t, u \in Tasks : TookIt(t, m) /\ TookIt(u, m) => t = u

PInv ==
    /\ TypeOK
    /\ \A t \in Tasks : TaskInv(t)
    /\ OffersFresh
    /\ OneTakes

-----------------------------------------------------------------------------
(* Types *)

LEMMA TasksAreNumbers == Tasks \subseteq Nat \ {0}
  BY PreemptAssumption DEF Tasks

LEMMA TextIs == \A m \in Messages : Text(m) \in Messages \cup {NoText}
  BY DEF Text

LEMMA IdleIs == Idle \in Runs /\ NoInfo \in Infos
  BY DEF Idle, Runs, NoInfo, Infos

LEMMA SeesTyped ==
  ASSUME TypeOK, NEW t \in Tasks
  PROVE  Sees(run[t], t) \in Runs /\ Blind(run[t]) \in Runs
<1>1. run[t] \in Runs /\ task[t] \in TaskRecords
  BY DEF TypeOK
<1>2. [message |-> task[t].message, revision |-> task[t].revision] \in Infos
  BY <1>1 DEF TaskRecords, Infos
<1>3. QED
  BY <1>1, <1>2, ZenonT(60) DEF Sees, Blind, Runs

LEMMA EndTyped ==
  ASSUME NEW r \in Runs,
         NEW x \in {"none", "finish", "silent", "dispatch", "compact", "implicit",
                    "preempted", "fail", "cancelled"}
  PROVE  End(r, x) \in Runs
  BY DEF End, Runs

LEMMA ContinueTyped ==
  ASSUME NEW r \in Runs
  PROVE  \A n \in Continue(r) : n \in Runs
<1>1. End(r, "fail") \in Runs
  BY EndTyped
<1>2. [r EXCEPT !.at = "top", !.mark = 0, !.blind = FALSE] \in Runs
  BY DEF Runs
<1>3. QED
  BY <1>1, <1>2 DEF Continue

LEMMA GoesTyped ==
  ASSUME TypeOK, NEW t \in Tasks, NEW n \in Runs, Goes(t, n), faults' \in Nat
  PROVE  TypeOK'
<1>1. run' \in [Tasks -> Runs]
  BY DEF TypeOK, Goes
<1>2. QED
  BY <1>1 DEF TypeOK, Goes

LEMMA LooksTyped ==
  ASSUME TypeOK, NEW t \in Tasks, NEW n \in Views(t), Looks(t, n)
  PROVE  n \in Runs /\ faults' \in Nat
<1>1. n \in Runs
  BY SeesTyped DEF Views
<1>2. faults' \in Nat
  BY DEF Looks, Fault, TypeOK
<1>3. QED
  BY <1>1, <1>2

-----------------------------------------------------------------------------
(* What changes nothing for a task keeps its invariant. *)
SameAt(u) ==
    /\ task'[u] = task[u]
    /\ run'[u] = run[u]
    /\ talk'[u] = talk[u]
    /\ taken'[u] = taken[u]
    /\ lost'[u] = lost[u]
    /\ unsure'[u] = unsure[u]

LEMMA Frame ==
  ASSUME NEW u \in Tasks, TaskInv(u), SameAt(u)
  PROVE  TaskInv(u)'
<1>1. Waiting(u)' = Waiting(u) /\ Slot(u)' = Slot(u) /\ Written(u)' = Written(u)
      /\ InSlot(u)' = InSlot(u) /\ InHand(u)' = InHand(u)
  BY DEF SameAt, Waiting, Slot, Written, InSlot, InHand
<1>2. RunsWhenClaimed(u)'
  BY DEF SameAt, TaskInv, RunsWhenClaimed
<1>3. HoldsAccepted(u)'
  BY <1>1 DEF SameAt, TaskInv, HoldsAccepted, Fits
<1>4. JustWrote(u)'
  BY <1>1 DEF SameAt, TaskInv, JustWrote
<1>5. WritesNewer(u)'
  BY <1>1 DEF SameAt, TaskInv, WritesNewer, Newer, Follows
<1>6. Accounted(u)'
  BY <1>1 DEF SameAt, TaskInv, Accounted
<1>7. EndsInformed(u)'
  BY <1>1 DEF SameAt, TaskInv, EndsInformed
<1>8. InOrder(u)'
  BY DEF SameAt, TaskInv, InOrder, Follows
<1>9. QED
  BY <1>2, <1>3, <1>4, <1>5, <1>6, <1>7, <1>8 DEF TaskInv

LEMMA SendersSame ==
  ASSUME OffersFresh, OneTakes, UNCHANGED <<sender, taken, origin, twice>>
  PROVE  OffersFresh' /\ OneTakes'
<1>1. \A t \in Tasks, m \in Users : TookIt(t, m)' = TookIt(t, m)
  BY DEF TookIt
<1>2. OffersFresh'
  BY <1>1 DEF OffersFresh
<1>3. OneTakes'
  BY <1>1 DEF OneTakes
<1>4. QED
  BY <1>2, <1>3

(* A step of one task, seen from the invariant. *)
Keeps(t) ==
    /\ TypeOK'
    /\ TaskInv(t)'
    /\ \A u \in Tasks \ {t} : SameAt(u)
    /\ OffersFresh' /\ OneTakes'

LEMMA KeepsInv ==
  ASSUME PInv, NEW t \in Tasks, Keeps(t)
  PROVE  PInv'
<1>1. \A u \in Tasks : TaskInv(u)'
  <2>1. TAKE u \in Tasks
  <2>2. CASE u = t
    BY <2>2 DEF Keeps
  <2>3. CASE u # t
    BY <2>3, Frame DEF Keeps, PInv
  <2>4. QED
    BY <2>2, <2>3
<1>2. QED
  BY <1>1 DEF Keeps, PInv

-----------------------------------------------------------------------------
(* Moves of the inference loop *)

(* A move of the loop forgets nothing it has read and reads only what is in  *)
(* the slot; it ends informed only if nothing is there.                      *)
Orderly(t, n) ==
    /\ run[t].at \notin {"off", "wrote"}
    /\ n.at \notin {"off", "wrote"}
    /\ \/ n.info = run[t].info
       \/ run[t].info = NoInfo /\ Waiting(t) /\ n.info = Slot(t)
    /\ n.at = "inject" => n.info # NoInfo
    /\ n.mark <= task[t].revision
    /\ /\ n.at = "done" /\ n.result \in {"finish", "silent", "dispatch"}
       /\ ~n.soft /\ ~n.blind
       => n.info = NoInfo /\ ~Waiting(t)

LEMMA Moves ==
  ASSUME PInv, NEW t \in Tasks, NEW n \in Runs, Orderly(t, n), Goes(t, n), faults' \in Nat
  PROVE  Keeps(t)
<1> DEFINE r == run[t]
<1>0. TypeOK /\ TaskInv(t) /\ OffersFresh /\ OneTakes
  BY DEF PInv
<1>1. run'[t] = n /\ (\A u \in Tasks \ {t} : run'[u] = run[u])
      /\ UNCHANGED <<task, talk, sender, taken, origin, lost, unsure, twice>>
  BY <1>0 DEF Goes, TypeOK
<1>2. TypeOK'
  BY <1>0, GoesTyped
<1>3. \A u \in Tasks \ {t} : SameAt(u)
  BY <1>1 DEF SameAt
<1>4. OffersFresh' /\ OneTakes'
  BY <1>0, <1>1, SendersSame
<1>5. Waiting(t)' = Waiting(t) /\ Slot(t)' = Slot(t) /\ Written(t)' = Written(t)
      /\ InSlot(t)' = InSlot(t)
  BY <1>1 DEF Waiting, Slot, Written, InSlot
<1>6. RunsWhenClaimed(t)'
  BY <1>0, <1>1 DEF TaskInv, RunsWhenClaimed, Orderly, Idle
<1>7. HoldsAccepted(t)'
  <2>1. n.info # NoInfo => Fits(t, n.info)
    BY <1>0 DEF Orderly, TaskInv, HoldsAccepted
  <2>2. n.info # NoInfo => Fits(t, n.info)'
    BY <2>1, <1>1 DEF Fits
  <2>3. QED
    BY <1>0, <1>1, <1>5, <2>2 DEF Orderly, TaskInv, HoldsAccepted, Fits
<1>8. JustWrote(t)'
  BY <1>1 DEF JustWrote, Orderly
<1>9. WritesNewer(t)'
  <2>1. Waiting(t) => Newer(t, Slot(t))
    BY <1>0 DEF TaskInv, WritesNewer, Orderly
  <2>2. n.info # NoInfo => Newer(t, n.info)
    BY <1>0, <2>1 DEF TaskInv, WritesNewer, Orderly
  <2>3. (Waiting(t) => Newer(t, Slot(t)))' /\ (n.info # NoInfo => Newer(t, n.info)')
    BY <2>1, <2>2, <1>1, <1>5 DEF Newer, Follows
  <2>4. QED
    BY <1>1, <2>3 DEF WritesNewer
<1>10. Accounted(t)'
  <2>1. InHand(t) \subseteq InHand(t)'
    BY <1>1 DEF InHand, Orderly
  <2>2. QED
    BY <1>0, <1>1, <1>5, <2>1 DEF TaskInv, Accounted
<1>11. EndsInformed(t)'
  <2>1. n.info = NoInfo => InHand(t)' = {}
    BY <1>1 DEF InHand
  <2>2. ~Waiting(t) => InSlot(t)' = {}
    BY <1>5 DEF InSlot
  <2>3. QED
    BY <1>1, <2>1, <2>2 DEF EndsInformed, Orderly
<1>12. InOrder(t)'
  BY <1>0, <1>1 DEF TaskInv, InOrder, Follows
<1>13. QED
  BY <1>2, <1>3, <1>4, <1>6, <1>7, <1>8, <1>9, <1>10, <1>11, <1>12 DEF Keeps, TaskInv

LEMMA EndIs ==
  ASSUME NEW r \in Runs, NEW x
  PROVE  /\ End(r, x).at = "done" /\ End(r, x).result = x
         /\ End(r, x).info = r.info /\ End(r, x).mark = r.mark
         /\ End(r, x).soft = r.soft /\ End(r, x).blind = r.blind
  BY DEF End, Runs

LEMMA ContinueIs ==
  ASSUME NEW r \in Runs, NEW n \in Continue(r)
  PROVE  /\ n \in Runs
         /\ n.at \in {"top", "done"} /\ (n.at = "done" => n.result = "fail")
         /\ n.info = r.info /\ n.mark \in {0, r.mark}
<1>1. n \in Runs
  BY ContinueTyped
<1>2. QED
  BY <1>1 DEF Continue, End, Runs

LEMMA ViewIs ==
  ASSUME TypeOK, NEW t \in Tasks, NEW v \in Views(t), Looks(t, v)
  PROVE  /\ v \in Runs /\ faults' \in Nat
         /\ v.at = run[t].at /\ v.mark = run[t].mark
         /\ \/ v.info = run[t].info
            \/ run[t].info = NoInfo /\ Waiting(t) /\ v.info = Slot(t)
         /\ v.info = NoInfo /\ ~v.soft /\ ~v.blind => ~Waiting(t)
<1>1. run[t] \in Runs /\ task[t] \in TaskRecords
  BY DEF TypeOK
<1>2. v \in Runs /\ faults' \in Nat
  BY LooksTyped
<1>3. CASE v = Blind(run[t])
  BY <1>1, <1>2, <1>3 DEF Blind, Runs
<1>4. CASE v = Sees(run[t], t)
  <2>1. CASE run[t].soft \/ run[t].info # NoInfo \/ ~task[t].requested
    BY <1>2, <1>4, <2>1 DEF Sees, Waiting
  <2>2. CASE ~(run[t].soft \/ run[t].info # NoInfo \/ ~task[t].requested)
    <3>1. CASE task[t].message = NoText
      BY <1>1, <1>2, <1>4, <2>2, <3>1 DEF Sees, Waiting, Runs
    <3>2. CASE task[t].message # NoText
      <4>1. Slot(t) # NoInfo /\ Waiting(t)
        BY <2>2, <3>2 DEF Slot, NoInfo, Waiting
      <4>2. v = [run[t] EXCEPT !.info = Slot(t)]
        BY <1>4, <2>2, <3>2 DEF Sees, Slot
      <4>3. QED
        BY <1>1, <1>2, <2>2, <4>1, <4>2 DEF Runs
    <3>3. QED
      BY <3>1, <3>2
  <2>3. QED
    BY <2>1, <2>2
<1>5. QED
  BY <1>3, <1>4 DEF Views

(* A process reads the mark off the task's own revision. *)
LEMMA MarkIs ==
  ASSUME PInv, NEW t \in Tasks
  PROVE  /\ run[t] \in Runs /\ task[t].revision \in Nat /\ run[t].mark \in Nat
         /\ run[t].mark <= task[t].revision
  BY DEF PInv, TypeOK, TaskInv, HoldsAccepted, Runs, TaskRecords

LEMMA NoticeCancelKeeps ==
  ASSUME PInv, NEW t \in Tasks, NoticeCancel(t)
  PROVE  Keeps(t)
<1> DEFINE n == End(run[t], "cancelled")
<1>1. n \in Runs
  BY MarkIs, EndTyped
<1>2. Orderly(t, n)
  BY MarkIs, EndIs DEF NoticeCancel, Orderly
<1>3. faults' \in Nat
  BY DEF NoticeCancel, PInv, TypeOK
<1>4. Goes(t, n)
  BY DEF NoticeCancel
<1>5. QED
  BY <1>1, <1>2, <1>3, <1>4, Moves

LEMMA LookAtTopKeeps ==
  ASSUME PInv, NEW t \in Tasks, LookAtTop(t)
  PROVE  Keeps(t)
<1>1. PICK v \in Views(t) :
        /\ Looks(t, v)
        /\ Goes(t, [v EXCEPT !.at = IF v.info = NoInfo THEN "think" ELSE "inject",
                             !.blind = FALSE])
  BY DEF LookAtTop
<1>2. /\ v \in Runs /\ faults' \in Nat
      /\ v.at = run[t].at /\ v.mark = run[t].mark
      /\ \/ v.info = run[t].info
         \/ run[t].info = NoInfo /\ Waiting(t) /\ v.info = Slot(t)
  BY <1>1, ViewIs DEF PInv
<1>3. PICK n : n = [v EXCEPT !.at = IF v.info = NoInfo THEN "think" ELSE "inject",
                            !.blind = FALSE]
  OBVIOUS
<1>4. n \in Runs /\ n.info = v.info /\ n.mark = v.mark
      /\ n.at = IF v.info = NoInfo THEN "think" ELSE "inject"
  BY <1>2, <1>3 DEF Runs
<1>5. Orderly(t, n)
  BY <1>2, <1>4, MarkIs DEF LookAtTop, Orderly
<1>6. QED
  BY <1>1, <1>2, <1>3, <1>4, <1>5, Moves

LEMMA PollKeeps ==
  ASSUME PInv, NEW t \in Tasks, Poll(t)
  PROVE  Keeps(t)
<1>1. faults' \in Nat
  BY DEF Poll, PInv, TypeOK
<1>2. PICK v : v = Sees(run[t], t)
  OBVIOUS
<1>3. v \in Views(t) /\ Looks(t, v)
  BY <1>2 DEF Views, Looks, Poll
<1>4. /\ v \in Runs
      /\ v.at = run[t].at /\ v.mark = run[t].mark
      /\ \/ v.info = run[t].info
         \/ run[t].info = NoInfo /\ Waiting(t) /\ v.info = Slot(t)
  BY <1>3, ViewIs DEF PInv
<1>5. CASE Goes(t, v)
  <2>1. Orderly(t, v)
    BY <1>4, MarkIs DEF Poll, Orderly
  <2>2. QED
    BY <1>1, <1>4, <1>5, <2>1, Moves
<1>6. ASSUME NEW n \in Continue(v), Goes(t, n)
      PROVE  Keeps(t)
  <2>1. Orderly(t, n)
    BY <1>4, <1>6, MarkIs, ContinueIs DEF Poll, Orderly
  <2>2. QED
    BY <1>1, <1>4, <1>6, <2>1, Moves, ContinueIs
<1>7. QED
  BY <1>2, <1>5, <1>6 DEF Poll

LEMMA StartTextKeeps ==
  ASSUME PInv, NEW t \in Tasks, StartText(t)
  PROVE  Keeps(t)
<1>1. PICK n : n = [run[t] EXCEPT !.at = "text"]
  OBVIOUS
<1>2. n \in Runs /\ n.at = "text" /\ n.info = run[t].info /\ n.mark = run[t].mark
  BY <1>1, MarkIs DEF Runs
<1>3. Orderly(t, n) /\ Goes(t, n) /\ faults' \in Nat
  BY <1>1, <1>2, MarkIs DEF StartText, Orderly, PInv, TypeOK
<1>4. QED
  BY <1>2, <1>3, Moves

LEMMA AnswerKeeps ==
  ASSUME PInv, NEW t \in Tasks, Answer(t)
  PROVE  Keeps(t)
<1>1. faults' \in Nat
  BY DEF Answer, PInv, TypeOK
<1>2. ASSUME NEW kind \in {"tools", "finish", "silent", "wait", "plain", "refused"},
             Goes(t, [run[t] EXCEPT !.at = kind, !.mark = task[t].revision])
      PROVE  Keeps(t)
  <2>1. PICK n : n = [run[t] EXCEPT !.at = kind, !.mark = task[t].revision]
    OBVIOUS
  <2>2. n \in Runs /\ n.at = kind /\ n.info = run[t].info /\ n.mark = task[t].revision
    BY <2>1, MarkIs DEF Runs
  <2>3. Orderly(t, n)
    BY <1>2, <2>2, MarkIs DEF Answer, Orderly
  <2>4. QED
    BY <1>1, <1>2, <2>1, <2>2, <2>3, Moves
<1>3. ASSUME NEW x \in {"fail", "compact"}, Goes(t, End(run[t], x))
      PROVE  Keeps(t)
  <2>1. Orderly(t, End(run[t], x))
    BY <1>3, MarkIs, EndIs DEF Answer, Orderly
  <2>2. QED
    BY <1>1, <1>3, <2>1, Moves, EndTyped, MarkIs
<1>4. QED
  BY <1>2, <1>3 DEF Answer

(* The ways a step of the loop is over without a promise to have looked. *)
Plainly == {"compact", "implicit", "preempted", "fail", "cancelled"}

LEMMA StepEnds ==
  ASSUME PInv, NEW t \in Tasks, NEW v \in Runs, run[t].at \notin {"off", "wrote"},
         v.mark = run[t].mark,
         \/ v.info = run[t].info
         \/ run[t].info = NoInfo /\ Waiting(t) /\ v.info = Slot(t),
         NEW n \in Continue(v) \cup {End(v, x) : x \in Plainly},
         Goes(t, n), faults' \in Nat
  PROVE  Keeps(t)
<1>1. CASE n \in Continue(v)
  <2>1. /\ n \in Runs
        /\ n.at \in {"top", "done"} /\ (n.at = "done" => n.result = "fail")
        /\ n.info = v.info /\ n.mark \in {0, v.mark}
    BY <1>1, ContinueIs
  <2>2. Orderly(t, n)
    BY <2>1, MarkIs DEF Orderly
  <2>3. QED
    BY <2>1, <2>2, Moves
<1>2. ASSUME NEW x \in Plainly, n = End(v, x)
      PROVE  Keeps(t)
  <2>1. n \in Runs
    BY <1>2, EndTyped DEF Plainly
  <2>2. n.at = "done" /\ n.result = x /\ n.info = v.info /\ n.mark = v.mark
    BY <1>2, EndIs
  <2>3. Orderly(t, n)
    BY <2>2, MarkIs DEF Orderly, Plainly
  <2>4. QED
    BY <2>1, <2>3, Moves
<1>3. QED
  BY <1>1, <1>2

(* ... and with one: nothing may be left in the slot. *)
LEMMA InformedEnds ==
  ASSUME PInv, NEW t \in Tasks, NEW v \in Views(t), Looks(t, v),
         run[t].at \notin {"off", "wrote"}, v.info = NoInfo,
         NEW x \in {"finish", "silent", "dispatch"}, Goes(t, End(v, x))
  PROVE  Keeps(t)
<1>1. /\ v \in Runs /\ faults' \in Nat
      /\ v.mark = run[t].mark
      /\ \/ v.info = run[t].info
         \/ run[t].info = NoInfo /\ Waiting(t) /\ v.info = Slot(t)
      /\ v.info = NoInfo /\ ~v.soft /\ ~v.blind => ~Waiting(t)
  BY ViewIs DEF PInv
<1>2. PICK n : n = End(v, x)
  OBVIOUS
<1>3. /\ n \in Runs /\ n.at = "done" /\ n.info = v.info /\ n.mark = v.mark
      /\ n.soft = v.soft /\ n.blind = v.blind
  BY <1>1, <1>2, EndIs, EndTyped
<1>4. Orderly(t, n)
  BY <1>1, <1>3, MarkIs DEF Orderly
<1>5. QED
  BY <1>1, <1>2, <1>3, <1>4, Moves

LEMMA ToolsDoneKeeps ==
  ASSUME PInv, NEW t \in Tasks, ToolsDone(t)
  PROVE  Keeps(t)
<1>1. faults' \in Nat /\ run[t].at \notin {"off", "wrote"}
  BY DEF ToolsDone, PInv, TypeOK
<1>2. PICK n \in Continue(run[t]) \cup {End(run[t], x) : x \in Plainly} : Goes(t, n)
  BY DEF ToolsDone, Plainly
<1>3. QED
  BY <1>1, <1>2, MarkIs, StepEnds

LEMMA FinishKeeps ==
  ASSUME PInv, NEW t \in Tasks, Finish(t)
  PROVE  Keeps(t)
<1>1. PICK v \in Views(t) :
        /\ Looks(t, v)
        /\ \E n \in IF v.info # NoInfo THEN Continue(v)
                    ELSE IF v.soft THEN {End(v, "preempted")}
                    ELSE Continue(v) \cup {End(v, x) : x \in {"finish", "implicit"}} :
              Goes(t, n)
  BY DEF Finish
<1>2. run[t].at \notin {"off", "wrote"}
  BY DEF Finish
<1>3. CASE v.info = NoInfo /\ Goes(t, End(v, "finish"))
  BY <1>1, <1>2, <1>3, InformedEnds
<1>4. ASSUME NEW n \in Continue(v) \cup {End(v, x) : x \in Plainly}, Goes(t, n)
      PROVE  Keeps(t)
  BY <1>1, <1>2, <1>4, ViewIs, StepEnds DEF PInv
<1>5. QED
  BY <1>1, <1>3, <1>4 DEF Plainly

LEMMA StaySilentKeeps ==
  ASSUME PInv, NEW t \in Tasks, StaySilent(t)
  PROVE  Keeps(t)
<1>1. PICK v \in Views(t) :
        /\ Looks(t, v)
        /\ \E n \in IF v.info # NoInfo THEN Continue(v) ELSE {End(v, "silent")} : Goes(t, n)
  BY DEF StaySilent
<1>2. run[t].at \notin {"off", "wrote"}
  BY DEF StaySilent
<1>3. CASE v.info = NoInfo /\ Goes(t, End(v, "silent"))
  BY <1>1, <1>2, <1>3, InformedEnds
<1>4. ASSUME NEW n \in Continue(v), Goes(t, n)
      PROVE  Keeps(t)
  BY <1>1, <1>2, <1>4, ViewIs, StepEnds DEF PInv
<1>5. QED
  BY <1>1, <1>3, <1>4

LEMMA SuspendKeeps ==
  ASSUME PInv, NEW t \in Tasks, Suspend(t)
  PROVE  Keeps(t)
<1>1. PICK v \in Views(t) :
        /\ Looks(t, v)
        /\ \E n \in IF v.info # NoInfo THEN Continue(v)
                    ELSE {End(v, IF v.soft THEN "preempted" ELSE "dispatch")} : Goes(t, n)
  BY DEF Suspend
<1>2. run[t].at \notin {"off", "wrote"}
  BY DEF Suspend
<1>3. CASE v.info = NoInfo /\ Goes(t, End(v, "dispatch"))
  BY <1>1, <1>2, <1>3, InformedEnds
<1>4. ASSUME NEW n \in Continue(v) \cup {End(v, x) : x \in Plainly}, Goes(t, n)
      PROVE  Keeps(t)
  BY <1>1, <1>2, <1>4, ViewIs, StepEnds DEF PInv
<1>5. QED
  BY <1>1, <1>3, <1>4 DEF Plainly

LEMMA PlainTextKeeps ==
  ASSUME PInv, NEW t \in Tasks, PlainText(t)
  PROVE  Keeps(t)
<1>1. faults' \in Nat /\ run[t].at \notin {"off", "wrote"}
  BY DEF PlainText, PInv, TypeOK
<1>2. PICK n \in Continue(run[t]) \cup {End(run[t], x) : x \in Plainly} : Goes(t, n)
  BY DEF PlainText, Plainly
<1>3. QED
  BY <1>1, <1>2, MarkIs, StepEnds

LEMMA RefusedKeeps ==
  ASSUME PInv, NEW t \in Tasks, Refused(t)
  PROVE  Keeps(t)
<1>1. faults' \in Nat /\ run[t].at \notin {"off", "wrote"}
  BY DEF Refused, PInv, TypeOK
<1>2. PICK n \in Continue(run[t]) \cup {End(run[t], x) : x \in Plainly} : Goes(t, n)
  BY DEF Refused, Plainly
<1>3. QED
  BY <1>1, <1>2, MarkIs, StepEnds

-----------------------------------------------------------------------------
(* Steps of the supervisor on the task's status *)

(* x is the slot, as it was written: what is behind it may be followed by it. *)
LEMMA SlotFollows ==
  ASSUME PInv, NEW t \in Tasks, Waiting(t), run[t].at = "wrote",
         run[t].info.revision = task[t].revision
  PROVE  \A k \in 1 .. Len(talk[t]) :
            talk[t][k].revision < task[t].revision \/ talk[t][k] = Slot(t)
<1>1. Fits(t, Slot(t)) /\ \A k \in 1 .. Len(talk[t]) : Fits(t, talk[t][k])
  BY DEF PInv, TaskInv, HoldsAccepted
<1>2. TAKE k \in 1 .. Len(talk[t])
<1>3. talk[t][k] \in Infos /\ Slot(t) \in Infos
  <2>1. talk[t] \in Seq(Infos)
    BY DEF PInv, TypeOK
  <2>2. talk[t][k] \in Infos
    BY <2>1
  <2>3. task[t] \in TaskRecords
    BY DEF PInv, TypeOK
  <2>4. Slot(t) \in Infos
    BY <2>3 DEF Slot, TaskRecords, Infos
  <2>5. QED
    BY <2>2, <2>4
<1>4. talk[t][k].revision <= task[t].revision
  BY DEF PInv, TaskInv, JustWrote
<1>5. CASE talk[t][k].revision = task[t].revision
  <2>1. talk[t][k].message = Slot(t).message /\ talk[t][k].revision = Slot(t).revision
    BY <1>1, <1>5 DEF Fits, Slot
  <2>2. QED
    BY <1>3, <2>1 DEF Infos
<1>6. QED
  BY <1>3, <1>4, <1>5 DEF Infos, PInv, TypeOK, TaskRecords

(* r is the record of t with another status. *)
SlotAs(t, r) ==
    /\ r \in TaskRecords
    /\ r.requested = task[t].requested
    /\ r.message = task[t].message
    /\ r.revision = task[t].revision
    /\ task' = [task EXCEPT ![t] = r]

LEMMA SlotStays ==
  ASSUME TypeOK, NEW t \in Tasks, NEW r, SlotAs(t, r)
  PROVE  /\ task' \in [Tasks -> TaskRecords] /\ task'[t] = r
         /\ \A u \in Tasks \ {t} : task'[u] = task[u]
         /\ Waiting(t)' = Waiting(t) /\ Slot(t)' = Slot(t) /\ InSlot(t)' = InSlot(t)
<1>1. task' \in [Tasks -> TaskRecords] /\ task'[t] = r
      /\ \A u \in Tasks \ {t} : task'[u] = task[u]
  BY DEF TypeOK, SlotAs
<1>2. QED
  BY <1>1 DEF SlotAs, Waiting, Slot, InSlot

LEMMA StatusInv ==
  ASSUME PInv, NEW t \in Tasks, NEW r, SlotAs(t, r),
         r.status \in {"none", "pending", "suspended"} => run[t] = Idle,
         UNCHANGED <<run, talk, taken, lost, unsure>>
  PROVE  /\ task' \in [Tasks -> TaskRecords]
         /\ TaskInv(t)'
         /\ \A u \in Tasks \ {t} : SameAt(u)
<1>0. TypeOK /\ TaskInv(t)
  BY DEF PInv
<1>1. /\ task' \in [Tasks -> TaskRecords] /\ task'[t] = r
      /\ \A u \in Tasks \ {t} : task'[u] = task[u]
      /\ Waiting(t)' = Waiting(t) /\ Slot(t)' = Slot(t) /\ InSlot(t)' = InSlot(t)
  BY <1>0, SlotStays
<1>2. \A u \in Tasks \ {t} : SameAt(u)
  BY <1>1 DEF SameAt
<1>3. Written(t)' = Written(t) /\ InHand(t)' = InHand(t)
  BY DEF Written, InHand
<1>4. RunsWhenClaimed(t)'
  BY <1>1 DEF RunsWhenClaimed
<1>5. HoldsAccepted(t)'
  BY <1>0, <1>1 DEF TaskInv, HoldsAccepted, Fits, SlotAs
<1>6. JustWrote(t)'
  BY <1>0, <1>3 DEF TaskInv, JustWrote
<1>7. WritesNewer(t)'
  BY <1>0, <1>1 DEF TaskInv, WritesNewer, Newer, Follows, SlotAs
<1>8. Accounted(t)'
  BY <1>0, <1>1, <1>3 DEF TaskInv, Accounted
<1>9. EndsInformed(t)'
  BY <1>0, <1>1, <1>3 DEF TaskInv, EndsInformed
<1>10. InOrder(t)'
  BY <1>0 DEF TaskInv, InOrder, Follows
<1>11. QED
  BY <1>1, <1>2, <1>4, <1>5, <1>6, <1>7, <1>8, <1>9, <1>10 DEF TaskInv

LEMMA StatusKeeps ==
  ASSUME PInv, NEW t \in Tasks, NEW r, SlotAs(t, r),
         r.status \in {"none", "pending", "suspended"} => run[t] = Idle,
         UNCHANGED <<run, talk, sender, taken, origin, lost, unsure, twice, faults>>
  PROVE  Keeps(t)
<1>1. /\ task' \in [Tasks -> TaskRecords]
      /\ TaskInv(t)'
      /\ \A u \in Tasks \ {t} : SameAt(u)
  BY StatusInv
<1>2. TypeOK'
  BY <1>1 DEF PInv, TypeOK
<1>3. OffersFresh' /\ OneTakes'
  BY SendersSame DEF PInv
<1>4. QED
  BY <1>1, <1>2, <1>3 DEF Keeps

LEMMA ResumeKeeps ==
  ASSUME PInv, NEW t \in Tasks, Resume(t)
  PROVE  Keeps(t)
<1>1. PICK r : r = [task[t] EXCEPT !.status = "pending"]
  OBVIOUS
<1>2. SlotAs(t, r) /\ r.status = "pending"
  BY <1>1 DEF Resume, SlotAs, PInv, TypeOK, TaskRecords
<1>3. run[t] = Idle
  BY DEF Resume, PInv, TaskInv, RunsWhenClaimed
<1>4. QED
  BY <1>2, <1>3, StatusKeeps DEF Resume

LEMMA CancelKeeps ==
  ASSUME PInv, NEW t \in Tasks, Cancel(t)
  PROVE  Keeps(t)
<1>0. task \in [Tasks -> TaskRecords] /\ task[t] \in TaskRecords
  BY DEF PInv, TypeOK
<1>1. PICK r : r = [task[t] EXCEPT !.cancel = TRUE,
                                  !.status = IF @ = "running" THEN @ ELSE "over"]
  OBVIOUS
<1>2. r \in TaskRecords /\ r.status \in {"running", "over"}
      /\ r.requested = task[t].requested /\ r.message = task[t].message
      /\ r.revision = task[t].revision
  BY <1>0, <1>1 DEF TaskRecords
<1>3. task' = [task EXCEPT ![t] = r]
  BY <1>0, <1>1 DEF Cancel, TaskRecords
<1>4. SlotAs(t, r)
  BY <1>2, <1>3 DEF SlotAs
<1>5. QED
  BY <1>2, <1>4, StatusKeeps DEF Cancel

LEMMA ReapKeeps ==
  ASSUME PInv, NEW t \in Tasks, Reap(t)
  PROVE  Keeps(t)
<1>1. PICK r : r = [task[t] EXCEPT !.status = "over"]
  OBVIOUS
<1>2. SlotAs(t, r) /\ r.status = "over"
  BY <1>1, ZenonT(60) DEF Reap, SlotAs, PInv, TypeOK, TaskRecords
<1>3. QED
  BY <1>2, StatusKeeps DEF Reap

(* A process starts or stops: it holds nothing, and what it held is in the   *)
(* slot or lost; an acknowledgement it still owed is unsure.                  *)
LEMMA ResetKeeps ==
  ASSUME PInv, NEW t \in Tasks, NEW r, SlotAs(t, r),
         NEW n \in Runs, run' = [run EXCEPT ![t] = n],
         n.at \in {"off", "top"}, n.info = NoInfo, n.mark = 0,
         n = Idle \/ r.status = "running",
         lost' \in [Tasks -> SUBSET Nat], unsure' \in [Tasks -> SUBSET Nat], faults' \in Nat,
         lost[t] \cup (InHand(t) \ InSlot(t)) \subseteq lost'[t],
         unsure[t] \subseteq unsure'[t],
         run[t].at = "wrote" => run[t].info.revision \in unsure'[t],
         \A u \in Tasks \ {t} : lost'[u] = lost[u] /\ unsure'[u] = unsure[u],
         UNCHANGED <<talk, sender, taken, origin, twice>>
  PROVE  Keeps(t)
<1>0. TypeOK /\ TaskInv(t) /\ OffersFresh /\ OneTakes
  BY DEF PInv
<1>1. /\ task' \in [Tasks -> TaskRecords] /\ task'[t] = r
      /\ \A u \in Tasks \ {t} : task'[u] = task[u]
      /\ Waiting(t)' = Waiting(t) /\ Slot(t)' = Slot(t) /\ InSlot(t)' = InSlot(t)
  BY <1>0, SlotStays
<1>2. run' \in [Tasks -> Runs] /\ run'[t] = n /\ \A u \in Tasks \ {t} : run'[u] = run[u]
  BY <1>0 DEF TypeOK
<1>3. TypeOK'
  BY <1>0, <1>1, <1>2 DEF TypeOK
<1>4. \A u \in Tasks \ {t} : SameAt(u)
  BY <1>1, <1>2 DEF SameAt
<1>5. OffersFresh' /\ OneTakes'
  BY <1>0, SendersSame
<1>6. Written(t)' = Written(t)
  BY DEF Written
<1>7. RunsWhenClaimed(t)'
  BY <1>1, <1>2 DEF RunsWhenClaimed
<1>8. HoldsAccepted(t)'
  <2>1. task[t].revision \in Nat
    BY MarkIs
  <2>2. QED
    BY <1>0, <1>1, <1>2, <2>1 DEF TaskInv, HoldsAccepted, Fits, SlotAs
<1>9. JustWrote(t)'
  BY <1>2 DEF JustWrote
<1>10. WritesNewer(t)'
  <2>1. ASSUME Waiting(t), NEW k \in 1 .. Len(talk[t])
        PROVE  Follows(t, talk[t][k], Slot(t))'
    <3>1. CASE run[t].at = "wrote" /\ run[t].info.revision = task[t].revision
      <4>1. talk[t][k].revision < task[t].revision \/ talk[t][k] = Slot(t)
        BY <2>1, <3>1, SlotFollows
      <4>2. QED
        BY <1>1, <3>1, <4>1 DEF Follows, Slot
    <3>2. CASE ~(run[t].at = "wrote" /\ run[t].info.revision = task[t].revision)
      <4>1. Follows(t, talk[t][k], Slot(t))
        BY <1>0, <2>1, <3>2 DEF TaskInv, WritesNewer, Newer
      <4>2. QED
        BY <1>1, <4>1 DEF Follows
    <3>3. QED
      BY <3>1, <3>2
  <2>2. QED
    BY <1>1, <1>2, <2>1 DEF WritesNewer, Newer
<1>11. Accounted(t)'
  BY <1>0, <1>1, <1>6 DEF TaskInv, Accounted
<1>12. EndsInformed(t)'
  BY <1>2 DEF EndsInformed
<1>13. InOrder(t)'
  BY <1>0 DEF TaskInv, InOrder, Follows
<1>14. QED
  BY <1>3, <1>4, <1>5, <1>7, <1>8, <1>9, <1>10, <1>11, <1>12, <1>13 DEF Keeps, TaskInv

LEMMA HandIs ==
  ASSUME PInv, NEW t \in Tasks
  PROVE  /\ InHand(t) \subseteq Nat /\ InSlot(t) \subseteq Nat
         /\ run[t].info.revision \in Nat
         /\ lost \in [Tasks -> SUBSET Nat] /\ unsure \in [Tasks -> SUBSET Nat]
         /\ task[t] \in TaskRecords /\ task \in [Tasks -> TaskRecords]
<1>1. run[t].info \in Infos
  BY MarkIs DEF Runs
<1>2. QED
  BY <1>1, MarkIs DEF Infos, InHand, InSlot, PInv, TypeOK

LEMMA IdleSays ==
  /\ Idle.at = "off" /\ Idle.info = NoInfo /\ Idle.mark = 0
  /\ \A n : n = [Idle EXCEPT !.at = "top"] =>
        n \in Runs /\ n.at = "top" /\ n.info = NoInfo /\ n.mark = 0
  BY IdleIs DEF Idle, Runs

LEMMA ClaimKeeps ==
  ASSUME PInv, NEW t \in Tasks, Claim(t)
  PROVE  Keeps(t)
<1>1. PICK r : r = [task[t] EXCEPT !.status = "running"]
  OBVIOUS
<1>2. SlotAs(t, r) /\ r.status = "running"
  BY <1>1, HandIs DEF Claim, SlotAs, TaskRecords
<1>3. PICK n : n = [Idle EXCEPT !.at = "top"]
  OBVIOUS
<1>4. n \in Runs /\ n.at = "top" /\ n.info = NoInfo /\ n.mark = 0
  BY <1>3, IdleSays
<1>5. run[t] = Idle
  BY DEF Claim, PInv, TaskInv, RunsWhenClaimed
<1>6. InHand(t) = {} /\ run[t].at # "wrote"
  BY <1>5, IdleSays DEF InHand
<1>7. run' = [run EXCEPT ![t] = n] /\ faults' \in Nat
      /\ UNCHANGED <<talk, sender, taken, origin, lost, unsure, twice>>
  BY <1>3 DEF Claim, PInv, TypeOK
<1>8. QED
  BY <1>2, <1>4, <1>6, <1>7, HandIs, ResetKeeps

LEMMA ReportKeeps ==
  ASSUME PInv, NEW t \in Tasks, Report(t)
  PROVE  Keeps(t)
<1>1. PICK s : s = IF /\ task[t].status = "running"
                      /\ run[t].result \in {"dispatch", "compact"} /\ ~task[t].cancel
                   THEN "suspended" ELSE "over"
  OBVIOUS
<1>2. PICK r : r = [task[t] EXCEPT !.status = s]
  OBVIOUS
<1>3. s \in {"suspended", "over"}
  BY <1>1
<1>4. task' = [task EXCEPT ![t] = r]
  BY <1>1, <1>2, HandIs DEF Report, TaskRecords
<1>5. SlotAs(t, r)
  BY <1>2, <1>3, <1>4, HandIs DEF SlotAs, TaskRecords
<1>6. Idle \in Runs /\ Idle.at = "off" /\ Idle.info = NoInfo /\ Idle.mark = 0
  BY IdleIs, IdleSays
<1>7. /\ lost' \in [Tasks -> SUBSET Nat]
      /\ lost'[t] = lost[t] \cup (InHand(t) \ InSlot(t))
      /\ \A u \in Tasks \ {t} : lost'[u] = lost[u]
  BY HandIs DEF Report
<1>8. run' = [run EXCEPT ![t] = Idle] /\ faults' \in Nat /\ run[t].at = "done"
      /\ UNCHANGED <<talk, sender, taken, origin, unsure, twice>>
  BY DEF Report, PInv, TypeOK
<1>9. QED
  BY <1>5, <1>6, <1>7, <1>8, HandIs, ResetKeeps

LEMMA CrashKeeps ==
  ASSUME PInv, NEW t \in Tasks, Crash(t)
  PROVE  Keeps(t)
<1>1. PICK s \in {"pending", "over"} : task' = [task EXCEPT ![t].status = s]
  BY DEF Crash
<1>2. PICK r : r = [task[t] EXCEPT !.status = s]
  OBVIOUS
<1>3. task' = [task EXCEPT ![t] = r]
  BY <1>1, <1>2, HandIs DEF TaskRecords
<1>4. SlotAs(t, r)
  BY <1>2, <1>3, HandIs DEF SlotAs, TaskRecords
<1>5. Idle \in Runs /\ Idle.at = "off" /\ Idle.info = NoInfo /\ Idle.mark = 0
  BY IdleIs, IdleSays
<1>6. /\ lost' \in [Tasks -> SUBSET Nat]
      /\ lost'[t] = lost[t] \cup (InHand(t) \ InSlot(t))
      /\ \A u \in Tasks \ {t} : lost'[u] = lost[u]
  BY HandIs DEF Crash
<1>7. /\ unsure' \in [Tasks -> SUBSET Nat]
      /\ unsure[t] \subseteq unsure'[t]
      /\ run[t].at = "wrote" => run[t].info.revision \in unsure'[t]
      /\ \A u \in Tasks \ {t} : unsure'[u] = unsure[u]
  BY HandIs DEF Crash
<1>8. run' = [run EXCEPT ![t] = Idle] /\ faults' \in Nat
      /\ UNCHANGED <<talk, sender, taken, origin, twice>>
  BY DEF Crash, Fault, PInv, TypeOK
<1>9. QED
  BY <1>4, <1>5, <1>6, <1>7, <1>8, HandIs, ResetKeeps

-----------------------------------------------------------------------------
(* The write and its acknowledgement *)

LEMMA InjectKeeps ==
  ASSUME PInv, NEW t \in Tasks, Inject(t)
  PROVE  Keeps(t)
<1> DEFINE x == run[t].info
<1>0. TypeOK /\ TaskInv(t) /\ OffersFresh /\ OneTakes
  BY DEF PInv
<1>1. run[t] \in Runs /\ run[t].at = "inject" /\ x # NoInfo /\ x \in Infos /\ x.revision \in Nat
  BY <1>0, MarkIs DEF Inject, TaskInv, HoldsAccepted, Runs, Infos
<1>2. Fits(t, x) /\ Newer(t, x)
  BY <1>0, <1>1 DEF TaskInv, HoldsAccepted, WritesNewer
<1>3. PICK n : n = [run[t] EXCEPT !.at = "wrote"]
  OBVIOUS
<1>4. n \in Runs /\ n.at = "wrote" /\ n.info = x /\ n.mark = run[t].mark
  BY <1>1, <1>3 DEF Runs
<1>5. run' = [run EXCEPT ![t] = n]
  BY <1>3 DEF Inject
<1>6. run' \in [Tasks -> Runs] /\ run'[t] = n /\ \A u \in Tasks \ {t} : run'[u] = run[u]
  BY <1>0, <1>4, <1>5 DEF TypeOK
<1>7. talk \in [Tasks -> Seq(Infos)] /\ talk[t] \in Seq(Infos)
  BY <1>0 DEF TypeOK
<1>8. /\ talk' \in [Tasks -> Seq(Infos)] /\ \A u \in Tasks \ {t} : talk'[u] = talk[u]
      /\ lost' \in [Tasks -> SUBSET Nat] /\ \A u \in Tasks \ {t} : lost'[u] = lost[u]
      /\ lost[t] \subseteq lost'[t] /\ faults' \in Nat
      /\ \/ talk'[t] = Append(talk[t], x)
         \/ talk'[t] = talk[t] /\ x.revision \in lost'[t]
  <2>1. CASE talk' = [talk EXCEPT ![t] = Append(@, x)] /\ UNCHANGED <<lost, faults>>
    <3>1. Append(talk[t], x) \in Seq(Infos)
      BY <1>1, <1>7
    <3>2. QED
      BY <1>7, <2>1, <3>1, HandIs, <1>0 DEF TypeOK
  <2>2. CASE lost' = [lost EXCEPT ![t] = @ \cup {x.revision}] /\ Fault /\ UNCHANGED talk
    BY <1>1, <1>7, <2>2, HandIs, <1>0 DEF TypeOK, Fault
  <2>3. QED
    BY <2>1, <2>2 DEF Inject
<1>9. UNCHANGED <<task, sender, taken, origin, unsure, twice>>
  BY DEF Inject
<1>10. \A k \in 1 .. Len(talk'[t]) :
          \/ k \in 1 .. Len(talk[t]) /\ talk'[t][k] = talk[t][k]
          \/ k = Len(talk[t]) + 1 /\ talk'[t][k] = x
  BY <1>7, <1>8
<1>11. Len(talk[t]) \in Nat /\ Len(talk'[t]) >= Len(talk[t])
       /\ \A k \in 1 .. Len(talk[t]) : talk'[t][k] = talk[t][k]
  BY <1>7, <1>8
<1>12. Written(t) \subseteq Written(t)'
  BY <1>11 DEF Written
<1>13. x.revision \in Written(t)' \cup lost'[t]
  <2>1. CASE talk'[t] = Append(talk[t], x)
    <3>1. Len(talk'[t]) = Len(talk[t]) + 1 /\ talk'[t][Len(talk[t]) + 1] = x
      BY <1>7, <2>1
    <3>2. Len(talk[t]) + 1 \in 1 .. Len(talk'[t])
      BY <1>11, <3>1
    <3>3. QED
      BY <3>1, <3>2 DEF Written
  <2>2. QED
    BY <1>8, <2>1
<1>14. TypeOK'
  BY <1>0, <1>6, <1>8, <1>9 DEF TypeOK
<1>15. \A u \in Tasks \ {t} : SameAt(u)
  BY <1>6, <1>8, <1>9 DEF SameAt
<1>16. OffersFresh' /\ OneTakes'
  BY <1>0, <1>9, SendersSame
<1>17. Waiting(t)' = Waiting(t) /\ Slot(t)' = Slot(t) /\ InSlot(t)' = InSlot(t)
  BY <1>9 DEF Waiting, Slot, InSlot
<1>18. RunsWhenClaimed(t)'
  BY <1>0, <1>1, <1>9, IdleSays DEF TaskInv, RunsWhenClaimed
<1>19. HoldsAccepted(t)'
  <2>1. \A k \in 1 .. Len(talk'[t]) : Fits(t, talk'[t][k])
    BY <1>0, <1>2, <1>10 DEF TaskInv, HoldsAccepted
  <2>2. QED
    BY <1>0, <1>1, <1>2, <1>4, <1>6, <1>9, <1>17, <2>1 DEF TaskInv, HoldsAccepted, Fits
<1>20. JustWrote(t)'
  <2>1. ASSUME NEW k \in 1 .. Len(talk[t])
        PROVE  talk[t][k].revision <= x.revision
    <3>1. talk[t][k] \in Infos
      BY <1>7
    <3>2. QED
      BY <1>1, <1>2, <3>1 DEF Newer, Follows, Infos
  <2>2. \A k \in 1 .. Len(talk'[t]) : talk'[t][k].revision <= x.revision
    BY <1>1, <1>10, <2>1
  <2>3. QED
    BY <1>4, <1>6, <1>13, <2>2 DEF JustWrote
<1>21. WritesNewer(t)'
  <2>1. ASSUME Waiting(t), x.revision # task[t].revision,
               NEW k \in 1 .. Len(talk'[t])
        PROVE  Follows(t, talk'[t][k], Slot(t))
    <3>1. Newer(t, Slot(t))
      BY <1>0, <1>1, <2>1 DEF TaskInv, WritesNewer
    <3>2. x.revision < task[t].revision
      BY <1>0, <1>1, <1>2, <2>1, MarkIs DEF TaskInv, HoldsAccepted, Fits
    <3>3. Follows(t, x, Slot(t))
      BY <3>2 DEF Follows, Slot
    <3>4. QED
      BY <1>10, <3>1, <3>3 DEF Newer
  <2>2. \A y, z : Follows(t, y, z)' = Follows(t, y, z)
    BY <1>9 DEF Follows
  <2>3. (Waiting(t) /\ x.revision # task[t].revision => Newer(t, Slot(t)))'
    BY <1>4, <1>6, <1>9, <1>17, <2>1, <2>2 DEF Newer, Follows
  <2>4. QED
    BY <1>4, <1>6, <2>3 DEF WritesNewer
<1>22. Accounted(t)'
  <2>1. InHand(t) = {x.revision}
    BY <1>1 DEF InHand
  <2>2. QED
    BY <1>0, <1>8, <1>9, <1>12, <1>13, <1>17, <2>1 DEF TaskInv, Accounted
<1>23. EndsInformed(t)'
  BY <1>4, <1>6 DEF EndsInformed
<1>24. InOrder(t)'
  <2>1. ASSUME NEW j \in 1 .. Len(talk'[t]), NEW k \in 1 .. j - 1
        PROVE  Follows(t, talk'[t][k], talk'[t][j])
    <3>1. k \in 1 .. Len(talk[t]) /\ talk'[t][k] = talk[t][k]
      BY <1>10, <1>11
    <3>2. CASE j \in 1 .. Len(talk[t]) /\ talk'[t][j] = talk[t][j]
      BY <1>0, <3>1, <3>2 DEF TaskInv, InOrder
    <3>3. CASE talk'[t][j] = x
      BY <1>2, <3>1, <3>3 DEF Newer
    <3>4. QED
      BY <1>10, <3>2, <3>3
  <2>2. QED
    BY <1>9, <2>1 DEF InOrder, Follows
<1>25. QED
  BY <1>14, <1>15, <1>16, <1>18, <1>19, <1>20, <1>21, <1>22, <1>23, <1>24 DEF Keeps, TaskInv

LEMMA AcknowledgeKeeps ==
  ASSUME PInv, NEW t \in Tasks, Acknowledge(t)
  PROVE  Keeps(t)
<1> DEFINE x == run[t].info
<1>0. TypeOK /\ TaskInv(t) /\ OffersFresh /\ OneTakes
  BY DEF PInv
<1>1. run[t] \in Runs /\ run[t].at = "wrote" /\ x.revision \in Nat
      /\ task[t].revision \in Nat
  BY MarkIs, HandIs DEF Acknowledge
<1>2. PICK n : n = [run[t] EXCEPT !.at = "think", !.info = NoInfo]
  OBVIOUS
<1>3. n \in Runs /\ n.at = "think" /\ n.info = NoInfo /\ n.mark = run[t].mark
  BY <1>1, <1>2, IdleIs DEF Runs
<1>4. run' = [run EXCEPT ![t] = n]
  <2>1. run \in [Tasks -> Runs]
    BY <1>0 DEF TypeOK
  <2>2. run' = [run EXCEPT ![t].at = "think", ![t].info = NoInfo]
    BY DEF Acknowledge
  <2>3. QED
    BY <1>2, <2>1, <2>2
<1>5. run' \in [Tasks -> Runs] /\ run'[t] = n /\ \A u \in Tasks \ {t} : run'[u] = run[u]
  BY <1>0, <1>3, <1>4 DEF TypeOK
<1>6. PICK r : r = Consumed(task[t], x.revision)
  OBVIOUS
<1>7. /\ r \in TaskRecords /\ r.status = task[t].status /\ r.revision = task[t].revision
      /\ x.revision = task[t].revision => ~r.requested
      /\ x.revision # task[t].revision => r = task[t]
  BY <1>6, HandIs DEF Consumed, TaskRecords
<1>8. UNCHANGED <<talk, sender, taken, origin, lost, twice>>
  BY DEF Acknowledge
<1>9. /\ task' \in [Tasks -> TaskRecords] /\ \A u \in Tasks \ {t} : task'[u] = task[u]
      /\ unsure' \in [Tasks -> SUBSET Nat] /\ \A u \in Tasks \ {t} : unsure'[u] = unsure[u]
      /\ unsure[t] \subseteq unsure'[t] /\ faults' \in Nat
      /\ \/ task'[t] = r
         \/ task'[t] = task[t] /\ x.revision \in unsure'[t]
  <2>1. CASE /\ task' = [task EXCEPT ![t] = Consumed(@, run[t].info.revision)]
             /\ UNCHANGED <<unsure, faults>>
    BY <2>1, <1>0, <1>6, <1>7, HandIs DEF TypeOK
  <2>2. CASE /\ unsure' = [unsure EXCEPT ![t] = @ \cup {run[t].info.revision}]
             /\ Fault
             /\ UNCHANGED task
    BY <2>2, <1>0, <1>1, HandIs DEF TypeOK, Fault
  <2>3. QED
    BY <2>1, <2>2 DEF Acknowledge
<1>10. /\ task'[t].status = task[t].status /\ task'[t].revision = task[t].revision
       /\ Waiting(t)' => Waiting(t) /\ Slot(t)' = Slot(t) /\ InSlot(t)' = InSlot(t)
       /\ ~Waiting(t)' => InSlot(t) \subseteq {x.revision}
  BY <1>7, <1>9 DEF Waiting, Slot, InSlot
<1>11. Written(t)' = Written(t)
  BY <1>8 DEF Written
<1>12. x.revision \in Written(t) \cup lost[t]
  BY <1>0, <1>1 DEF TaskInv, JustWrote
<1>13. TypeOK'
  BY <1>0, <1>5, <1>8, <1>9 DEF TypeOK
<1>14. \A u \in Tasks \ {t} : SameAt(u)
  BY <1>5, <1>8, <1>9 DEF SameAt
<1>15. OffersFresh' /\ OneTakes'
  BY <1>0, <1>8, SendersSame
<1>16. RunsWhenClaimed(t)'
  BY <1>0, <1>1, <1>10, IdleSays DEF TaskInv, RunsWhenClaimed
<1>17. HoldsAccepted(t)'
  BY <1>0, <1>3, <1>5, <1>8, <1>10 DEF TaskInv, HoldsAccepted, Fits
<1>18. JustWrote(t)'
  BY <1>3, <1>5 DEF JustWrote
<1>19. WritesNewer(t)'
  <2>1. ASSUME Waiting(t)', NEW k \in 1 .. Len(talk[t])
        PROVE  Follows(t, talk[t][k], Slot(t))'
    <3>1. CASE x.revision = task[t].revision
      <4>1. talk[t][k].revision < task[t].revision \/ talk[t][k] = Slot(t)
        BY <1>1, <1>10, <2>1, <3>1, SlotFollows
      <4>2. task[t].revision \in unsure'[t]
        BY <1>7, <1>9, <2>1, <3>1 DEF Waiting
      <4>3. QED
        BY <1>8, <1>10, <2>1, <4>1, <4>2 DEF Follows, Slot
    <3>2. CASE x.revision # task[t].revision
      <4>1. Follows(t, talk[t][k], Slot(t))
        BY <1>0, <1>10, <2>1, <3>2 DEF TaskInv, WritesNewer, Newer
      <4>2. QED
        BY <1>8, <1>9, <1>10, <2>1, <4>1 DEF Follows
    <3>3. QED
      BY <3>1, <3>2
  <2>2. (Waiting(t) => Newer(t, Slot(t)))'
    BY <1>8, <2>1 DEF Newer
  <2>3. QED
    BY <1>3, <1>5, <2>2 DEF WritesNewer
<1>20. Accounted(t)'
  <2>1. InHand(t) = {}
    BY <1>1 DEF InHand
  <2>2. ASSUME NEW i \in InSlot(t)
        PROVE  i \in InSlot(t)' \cup {x.revision}
    BY <1>10
  <2>3. QED
    BY <1>0, <1>8, <1>11, <1>12, <2>1, <2>2 DEF TaskInv, Accounted
<1>21. EndsInformed(t)'
  BY <1>3, <1>5 DEF EndsInformed
<1>22. InOrder(t)'
  BY <1>0, <1>8, <1>9 DEF TaskInv, InOrder, Follows
<1>23. QED
  BY <1>13, <1>14, <1>15, <1>16, <1>17, <1>18, <1>19, <1>20, <1>21, <1>22 DEF Keeps, TaskInv

-----------------------------------------------------------------------------
(* A message is accepted *)

LEMMA OverwriteKeeps ==
  ASSUME PInv, NEW t \in Tasks, NEW m \in Messages, Overwrite(t, m),
         UNCHANGED <<run, talk, unsure>>
  PROVE  /\ task' \in [Tasks -> TaskRecords] /\ taken' \in [Tasks -> Seq(Messages)]
         /\ lost' \in [Tasks -> SUBSET Nat]
         /\ taken'[t] = Append(taken[t], m)
         /\ TaskInv(t)'
         /\ \A u \in Tasks \ {t} : SameAt(u)
<1> DEFINE L == Len(taken[t])
<1>0. TypeOK /\ TaskInv(t)
  BY DEF PInv
<1>1. taken \in [Tasks -> Seq(Messages)] /\ taken[t] \in Seq(Messages) /\ L \in Nat
  BY <1>0 DEF TypeOK
<1>2. /\ taken' \in [Tasks -> Seq(Messages)] /\ taken'[t] = Append(taken[t], m)
      /\ \A u \in Tasks \ {t} : taken'[u] = taken[u]
  <2>1. Append(taken[t], m) \in Seq(Messages)
    BY <1>1
  <2>2. QED
    BY <1>1, <2>1 DEF Overwrite
<1>3. /\ Len(taken'[t]) = L + 1 /\ taken'[t][L + 1] = m
      /\ \A i \in 1 .. L : taken'[t][i] = taken[t][i]
  BY <1>1, <1>2
<1>4. PICK r : r = [task[t] EXCEPT !.requested = TRUE, !.message = Text(m),
                                  !.revision = @ + 1]
  OBVIOUS
<1>5. r \in TaskRecords /\ r.status = task[t].status /\ r.requested
      /\ r.message = Text(m) /\ r.revision = L + 1
  <2>1. task[t] \in TaskRecords /\ Text(m) \in Messages \cup {NoText}
    BY HandIs, TextIs
  <2>2. task[t].revision = L
    BY <1>0 DEF TaskInv, HoldsAccepted
  <2>3. /\ r.status = task[t].status /\ r.cancel = task[t].cancel /\ r.requested = TRUE
        /\ r.message = Text(m) /\ r.revision = L + 1
    BY <1>4, <2>1, <2>2 DEF TaskRecords
  <2>4. r = [status |-> task[t].status, cancel |-> task[t].cancel, requested |-> TRUE,
             message |-> Text(m), revision |-> L + 1]
    BY <1>4, <2>1, <2>2 DEF TaskRecords
  <2>5. r \in TaskRecords
    BY <1>1, <2>1, <2>4 DEF TaskRecords
  <2>6. QED
    BY <2>3, <2>5
<1>6. task' = [task EXCEPT ![t] = r]
  <2>1. task' = [task EXCEPT ![t].requested = TRUE, ![t].message = Text(m),
                             ![t].revision = @ + 1]
    BY DEF Overwrite
  <2>2. QED
    BY <1>4, <2>1, HandIs
<1>7. task' \in [Tasks -> TaskRecords] /\ task'[t] = r
      /\ \A u \in Tasks \ {t} : task'[u] = task[u]
  BY <1>5, <1>6, HandIs
<1>8. /\ lost' \in [Tasks -> SUBSET Nat] /\ \A u \in Tasks \ {t} : lost'[u] = lost[u]
      /\ lost'[t] = lost[t] \cup (InSlot(t) \ (InHand(t) \cup Written(t)))
  BY HandIs DEF Overwrite
<1>9. \A u \in Tasks \ {t} : SameAt(u)
  BY <1>2, <1>7, <1>8 DEF SameAt
<1>10. Written(t)' = Written(t) /\ InHand(t)' = InHand(t)
  BY DEF Written, InHand
<1>11. InSlot(t)' \subseteq {L + 1} /\ (Waiting(t)' => Slot(t)' = [message |-> m, revision |-> L + 1])
       /\ (m \notin Quiet => InSlot(t)' = {L + 1})
  BY <1>5, <1>7, PreemptAssumption DEF InSlot, Waiting, Slot, Text, Messages
<1>12. \A y : Fits(t, y) => y.revision \in 1 .. L /\ Fits(t, y)'
  BY <1>1, <1>3 DEF Fits
<1>13. RunsWhenClaimed(t)'
  BY <1>0, <1>5, <1>7 DEF TaskInv, RunsWhenClaimed
<1>14. HoldsAccepted(t)'
  <2>1. Fits(t, Slot(t))'
    BY <1>1, <1>3, <1>5, <1>7 DEF Fits, Slot
  <2>2. run[t].mark <= L + 1
    BY <1>0, <1>1, MarkIs DEF TaskInv, HoldsAccepted
  <2>3. (run[t].info # NoInfo => Fits(t, run[t].info))'
    BY <1>0, <1>12 DEF TaskInv, HoldsAccepted, Fits
  <2>4. (\A k \in 1 .. Len(talk[t]) : Fits(t, talk[t][k]))'
    BY <1>0, <1>12 DEF TaskInv, HoldsAccepted, Fits
  <2>5. QED
    BY <1>0, <1>3, <1>5, <1>7, <2>1, <2>2, <2>3, <2>4 DEF TaskInv, HoldsAccepted
<1>15. JustWrote(t)'
  BY <1>0, <1>8, <1>10 DEF TaskInv, JustWrote
<1>16. WritesNewer(t)'
  <2>1. Newer(t, Slot(t))'
    BY <1>0, <1>1, <1>5, <1>7, <1>12 DEF Newer, Follows, Slot, TaskInv, HoldsAccepted
  <2>2. (run[t].info # NoInfo /\ run[t].at # "wrote" => Newer(t, run[t].info))'
    BY <1>0 DEF TaskInv, WritesNewer, Newer, Follows
  <2>3. QED
    BY <2>1, <2>2 DEF WritesNewer
<1>17. Accounted(t)'
  <2>1. ASSUME NEW i \in 1 .. L, taken[t][i] \notin Quiet
        PROVE  i \in Written(t) \cup InHand(t) \cup lost'[t]
    BY <1>0, <1>8, <2>1 DEF TaskInv, Accounted
  <2>2. QED
    BY <1>1, <1>3, <1>10, <1>11, <2>1 DEF Accounted
<1>18. EndsInformed(t)'
  <2>1. \A i \in InSlot(t)' : i > run[t].mark
    BY <1>0, <1>1, <1>11, MarkIs DEF TaskInv, HoldsAccepted
  <2>2. QED
    BY <1>0, <1>10, <2>1 DEF TaskInv, EndsInformed
<1>19. InOrder(t)'
  BY <1>0 DEF TaskInv, InOrder, Follows
<1>20. QED
  BY <1>2, <1>7, <1>8, <1>9, <1>13, <1>14, <1>15, <1>16, <1>17, <1>18, <1>19 DEF TaskInv

(* A message goes to one task: the adapter offered it, and asks nobody else  *)
(* when it hears that it was taken.                                           *)
LEMMA TakenOnce ==
  ASSUME PInv, NEW t \in Tasks, NEW m \in Messages,
         \A u \in Tasks : \A x : TookIt(u, x)' => TookIt(u, x) \/ (u = t /\ x = m),
         \A x \in Messages \ {m} : sender'[x] = sender[x],
         twice \subseteq twice',
         m \in Users \ twice' => sender[m].at # "done" /\ sender'[m].at = "done"
  PROVE  OffersFresh' /\ OneTakes'
<1>0. OffersFresh /\ OneTakes
  BY DEF PInv
<1>1. m \in Users \ twice' => \A u \in Tasks : TookIt(u, m)' => u = t
  BY <1>0 DEF OffersFresh
<1>2. OffersFresh'
  <2>1. ASSUME NEW x \in Users \ twice', sender'[x].at # "done", NEW u \in Tasks
        PROVE  ~TookIt(u, x)'
    <3>1. x # m /\ x \in Users \ twice
      BY <2>1
    <3>2. sender[x].at # "done"
      BY <2>1, <3>1 DEF Messages
    <3>3. QED
      BY <1>0, <3>1, <3>2 DEF OffersFresh
  <2>2. QED
    BY <2>1 DEF OffersFresh
<1>3. OneTakes'
  <2>1. ASSUME NEW x \in Users \ twice', NEW u \in Tasks, NEW v \in Tasks,
               TookIt(u, x)', TookIt(v, x)'
        PROVE  u = v
    <3>1. CASE x = m
      BY <1>1, <2>1, <3>1
    <3>2. CASE x # m
      BY <1>0, <2>1, <3>2 DEF OneTakes
    <3>3. QED
      BY <3>1, <3>2
  <2>2. QED
    BY <2>1 DEF OneTakes
<1>4. QED
  BY <1>2, <1>3

LEMMA AcceptedIs ==
  ASSUME PInv, NEW t \in Tasks, NEW m \in Messages, taken'[t] = Append(taken[t], m),
         \A u \in Tasks \ {t} : taken'[u] = taken[u],
         UNCHANGED origin
  PROVE  \A u \in Tasks : \A x : TookIt(u, x)' => TookIt(u, x) \/ (u = t /\ x = m)
<1>1. taken[t] \in Seq(Messages)
  BY DEF PInv, TypeOK
<1>2. \A i \in 1 .. Len(taken'[t]) :
         \/ i \in 1 .. Len(taken[t]) /\ taken'[t][i] = taken[t][i]
         \/ taken'[t][i] = m
  BY <1>1
<1>3. TAKE u \in Tasks
<1>4. TAKE x
<1>5. CASE u = t
  BY <1>2, <1>5 DEF TookIt
<1>6. CASE u # t
  BY <1>6 DEF TookIt
<1>7. QED
  BY <1>5, <1>6

LEMMA OverwriteTyped ==
  ASSUME PInv, NEW t \in Tasks, NEW m \in Messages, Overwrite(t, m),
         UNCHANGED <<run, talk, origin, unsure>>,
         sender' \in [Messages -> [at : {"new", "asking", "done"}, left : SUBSET Tasks]],
         twice' \subseteq Messages, faults' \in Nat,
         OffersFresh', OneTakes'
  PROVE  Keeps(t)
<1>1. TypeOK'
  BY OverwriteKeeps DEF TypeOK, PInv
<1>2. QED
  BY <1>1, OverwriteKeeps DEF Keeps

LEMMA SenderIs ==
  ASSUME PInv, NEW m \in Messages, NEW t \in Tasks
  PROVE  /\ Acceptance(m) \in [Messages -> [at : {"new", "asking", "done"}, left : SUBSET Tasks]]
         /\ Refusal(m, t) \in [Messages -> [at : {"new", "asking", "done"}, left : SUBSET Tasks]]
         /\ Acceptance(m)[m].at = "done"
         /\ Refusal(m, t)[m].at = sender[m].at
         /\ \A x \in Messages \ {m} :
               Acceptance(m)[x] = sender[x] /\ Refusal(m, t)[x] = sender[x]
  BY ZenonT(60) DEF PInv, TypeOK, Acceptance, Refusal

LEMMA SteerKeeps ==
  ASSUME PInv, NEW m \in Messages, NEW t \in Tasks, Steer(m, t)
  PROVE  Keeps(t)
<1>1. /\ Overwrite(t, m) /\ sender' = Acceptance(m) /\ m \notin Users
      /\ UNCHANGED <<run, talk, origin, unsure, twice, faults>>
  BY PreemptAssumption DEF Steer
<1>2. taken'[t] = Append(taken[t], m) /\ \A u \in Tasks \ {t} : taken'[u] = taken[u]
  BY <1>1, OverwriteKeeps DEF SameAt
<1>3. OffersFresh' /\ OneTakes'
  <2>1. \A u \in Tasks : \A x : TookIt(u, x)' => TookIt(u, x) \/ (u = t /\ x = m)
    BY <1>1, <1>2, AcceptedIs
  <2>2. QED
    BY <1>1, <2>1, SenderIs, TakenOnce
<1>4. twice' \subseteq Messages /\ faults' \in Nat
  BY <1>1 DEF PInv, TypeOK
<1>5. QED
  BY <1>1, <1>3, <1>4, SenderIs, OverwriteTyped

LEMMA OfferKeeps ==
  ASSUME PInv, NEW m \in Messages, NEW t \in Tasks, Offer(m, t)
  PROVE  Keeps(t)
<1>0. TypeOK /\ TaskInv(t) /\ OffersFresh /\ OneTakes
  BY DEF PInv
<1>1. sender[m].at = "asking" /\ UNCHANGED <<run, talk, origin, unsure>>
  BY DEF Offer
<1>2. CASE /\ Overwrite(t, m)
           /\ \/ sender' = Acceptance(m) /\ UNCHANGED <<twice, faults>>
              \/ sender' = Refusal(m, t) /\ Fault /\ twice' = twice \cup {m}
  <2>1. taken'[t] = Append(taken[t], m) /\ \A u \in Tasks \ {t} : taken'[u] = taken[u]
    BY <1>1, <1>2, OverwriteKeeps DEF SameAt
  <2>2. /\ twice' \subseteq Messages /\ twice \subseteq twice' /\ faults' \in Nat
        /\ m \in twice' \/ sender'[m].at = "done"
        /\ sender' \in [Messages -> [at : {"new", "asking", "done"}, left : SUBSET Tasks]]
        /\ \A x \in Messages \ {m} : sender'[x] = sender[x]
    <3>1. CASE sender' = Acceptance(m) /\ UNCHANGED <<twice, faults>>
      BY <1>0, <3>1, SenderIs DEF TypeOK
    <3>2. CASE sender' = Refusal(m, t) /\ Fault /\ twice' = twice \cup {m}
      BY <1>0, <3>2, SenderIs DEF TypeOK, Fault
    <3>3. QED
      BY <1>2, <3>1, <3>2
  <2>3. OffersFresh' /\ OneTakes'
    <3>1. m \in Users \ twice' => sender[m].at # "done" /\ sender'[m].at = "done"
      BY <1>1, <2>2
    <3>2. \A u \in Tasks : \A x : TookIt(u, x)' => TookIt(u, x) \/ (u = t /\ x = m)
      BY <1>1, <2>1, AcceptedIs
    <3>3. QED
      BY <2>2, <3>1, <3>2, TakenOnce
  <2>4. QED
    BY <1>1, <1>2, <2>2, <2>3, SenderIs, OverwriteTyped
<1>3. CASE sender' = Refusal(m, t) /\ UNCHANGED <<task, taken, lost, twice>> /\ faults' \in Nat
  <2>1. TypeOK'
    BY <1>0, <1>1, <1>3, SenderIs DEF TypeOK
  <2>2. \A u \in Tasks : SameAt(u)
    BY <1>1, <1>3 DEF SameAt
  <2>3. TaskInv(t)'
    BY <1>0, <2>2, Frame
  <2>4. \A x \in Messages : sender'[x].at = sender[x].at
    <3>1. sender' = Refusal(m, t)
      BY <1>3
    <3>2. sender'[m].at = sender[m].at
      BY <3>1, SenderIs
    <3>3. \A x \in Messages \ {m} : sender'[x] = sender[x]
      BY <3>1, SenderIs
    <3>4. QED
      BY <3>2, <3>3
  <2>5. \A u \in Tasks : \A x : TookIt(u, x)' = TookIt(u, x)
    BY <1>1, <1>3 DEF TookIt
  <2>6. OffersFresh' /\ OneTakes'
    BY <1>0, <1>3, <2>4, <2>5 DEF OffersFresh, OneTakes, Messages
  <2>7. QED
    BY <2>1, <2>2, <2>3, <2>6 DEF Keeps
<1>4. QED
  BY <1>0, <1>2, <1>3 DEF Offer, Fault, TypeOK

-----------------------------------------------------------------------------
(* The adapter's own steps *)

LEMMA ListTasksKeeps ==
  ASSUME PInv, NEW m \in Messages, ListTasks(m)
  PROVE  PInv'
<1>0. TypeOK /\ OffersFresh /\ OneTakes /\ \A t \in Tasks : TaskInv(t)
  BY DEF PInv
<1>1. UNCHANGED <<task, run, talk, taken, origin, lost, unsure, twice, faults>>
  BY DEF ListTasks
<1>2. PICK left \in SUBSET Tasks : sender' = [sender EXCEPT ![m] = [at |-> "asking", left |-> left]]
  BY DEF ListTasks
<1>3. TypeOK'
  BY <1>0, <1>1, <1>2 DEF TypeOK
<1>4. \A t \in Tasks : TaskInv(t)'
  BY <1>0, <1>1, Frame DEF SameAt
<1>5. \A u \in Tasks : \A x : TookIt(u, x)' = TookIt(u, x)
  BY <1>1 DEF TookIt
<1>6. sender[m].at = "new" /\ \A x \in Messages \ {m} : sender'[x] = sender[x]
  BY <1>0, <1>2 DEF ListTasks, TypeOK
<1>7. OffersFresh'
  <2>1. ASSUME NEW x \in Users \ twice', sender'[x].at # "done"
        PROVE  sender[x].at # "done"
    BY <1>6, <2>1 DEF Messages
  <2>2. QED
    BY <1>0, <1>1, <1>5, <2>1 DEF OffersFresh
<1>8. OneTakes'
  BY <1>0, <1>1, <1>5 DEF OneTakes
<1>9. QED
  BY <1>3, <1>4, <1>7, <1>8 DEF PInv

LEMMA SubmitKeeps ==
  ASSUME PInv, NEW m \in Messages, Submit(m)
  PROVE  PInv'
<1>0. TypeOK /\ OffersFresh /\ OneTakes /\ \A t \in Tasks : TaskInv(t)
  BY DEF PInv
<1>1. PICK t \in Tasks :
        /\ task[t].status = "none"
        /\ task' = [task EXCEPT ![t].status = "pending"]
        /\ origin' = [origin EXCEPT ![t] = m]
  BY DEF Submit
<1>2. /\ sender[m].at = "asking" /\ sender' = Acceptance(m)
      /\ UNCHANGED <<run, talk, taken, lost, unsure, twice, faults>>
  BY DEF Submit
<1>3. PICK r : r = [task[t] EXCEPT !.status = "pending"]
  OBVIOUS
<1>4. SlotAs(t, r)
  BY <1>1, <1>3, HandIs DEF SlotAs, TaskRecords
<1>5. run[t] = Idle
  BY <1>0, <1>1 DEF TaskInv, RunsWhenClaimed
<1>6. /\ task' \in [Tasks -> TaskRecords]
      /\ TaskInv(t)'
      /\ \A u \in Tasks \ {t} : SameAt(u)
  BY <1>2, <1>4, <1>5, StatusInv
<1>7. TypeOK'
  BY <1>0, <1>1, <1>2, <1>6, SenderIs DEF TypeOK
<1>8. \A u \in Tasks : \A x : TookIt(u, x)' => TookIt(u, x) \/ (u = t /\ x = m)
  BY <1>0, <1>1, <1>2 DEF TookIt, TypeOK
<1>9. OffersFresh' /\ OneTakes'
  <2>1. /\ sender'[m].at = "done" /\ sender[m].at # "done"
        /\ \A x \in Messages \ {m} : sender'[x] = sender[x]
    BY <1>2, SenderIs
  <2>2. twice \subseteq twice'
    BY <1>2
  <2>3. QED
    BY <1>8, <2>1, <2>2, TakenOnce
<1>10. Keeps(t)
  BY <1>6, <1>7, <1>9 DEF Keeps
<1>11. QED
  BY <1>10, KeepsInv

-----------------------------------------------------------------------------
(* The invariant, and what follows from it *)

LEMMA InitPInv == Init => PInv
<1> SUFFICES ASSUME Init PROVE PInv
  OBVIOUS
<1>1. NoTask \in TaskRecords /\ Idle \in Runs
  BY IdleIs DEF NoTask, TaskRecords
<1>2. TypeOK
  BY <1>1 DEF Init, TypeOK
<1>3. ASSUME NEW t \in Tasks
      PROVE  TaskInv(t)
  <2>1. /\ task[t] = NoTask /\ run[t] = Idle /\ talk[t] = <<>> /\ taken[t] = <<>>
        /\ Len(talk[t]) = 0 /\ Len(taken[t]) = 0
    BY DEF Init
  <2>2. ~Waiting(t) /\ InSlot(t) = {} /\ task[t].revision = 0
    BY <2>1 DEF Waiting, InSlot, NoTask
  <2>3. run[t].at = "off" /\ run[t].info = NoInfo /\ run[t].mark = 0
    BY <2>1, IdleSays
  <2>4. QED
    BY <2>1, <2>2, <2>3 DEF TaskInv, RunsWhenClaimed, HoldsAccepted, JustWrote, WritesNewer,
                            Accounted, EndsInformed, InOrder
<1>4. \A t \in Tasks, m \in Users : ~TookIt(t, m)
  BY PreemptAssumption DEF Init, TookIt
<1>5. OffersFresh /\ OneTakes
  BY <1>4 DEF OffersFresh, OneTakes
<1>6. QED
  BY <1>2, <1>3, <1>5 DEF PInv

LEMMA StutterPInv ==
  ASSUME PInv, UNCHANGED vars
  PROVE  PInv'
<1>1. TypeOK'
  BY DEF PInv, TypeOK, vars
<1>2. \A t \in Tasks : TaskInv(t)'
  BY Frame DEF PInv, vars, SameAt
<1>3. OffersFresh' /\ OneTakes'
  BY SendersSame DEF PInv, vars
<1>4. QED
  BY <1>1, <1>2, <1>3 DEF PInv

LEMMA NextPInv ==
  ASSUME PInv, [Next]_vars
  PROVE  PInv'
<1>1. ASSUME NEW t \in Tasks,
             \/ Claim(t) \/ Resume(t) \/ Cancel(t) \/ Reap(t) \/ Crash(t) \/ Report(t)
             \/ NoticeCancel(t) \/ LookAtTop(t) \/ Inject(t) \/ Acknowledge(t)
             \/ Poll(t) \/ StartText(t) \/ Answer(t) \/ ToolsDone(t) \/ Finish(t)
             \/ StaySilent(t) \/ Suspend(t) \/ PlainText(t) \/ Refused(t)
      PROVE  PInv'
  <2>1. Keeps(t)
    BY <1>1, ClaimKeeps, ResumeKeeps, CancelKeeps, ReapKeeps, CrashKeeps, ReportKeeps,
       NoticeCancelKeeps, LookAtTopKeeps, InjectKeeps, AcknowledgeKeeps, PollKeeps,
       StartTextKeeps, AnswerKeeps, ToolsDoneKeeps, FinishKeeps, StaySilentKeeps,
       SuspendKeeps, PlainTextKeeps, RefusedKeeps
  <2>2. QED
    BY <2>1, KeepsInv
<1>2. ASSUME NEW m \in Messages, ListTasks(m) \/ Submit(m)
      PROVE  PInv'
  BY <1>2, ListTasksKeeps, SubmitKeeps
<1>3. ASSUME NEW m \in Messages, NEW t \in Tasks, Offer(m, t) \/ Steer(m, t)
      PROVE  PInv'
  BY <1>3, OfferKeeps, SteerKeeps, KeepsInv
<1>4. CASE UNCHANGED vars
  BY <1>4, StutterPInv
<1>5. QED
  BY <1>1, <1>2, <1>3, <1>4 DEF Next

LEMMA PInvariant == Spec => []PInv
  BY InitPInv, NextPInv, PTL DEF Spec

(* Tasks, runs, conversations and deliveries keep their types: the slot's    *)
(* revision and what the engine remembers of it included.                     *)
THEOREM TypeCorrect == Spec => []TypeOK
<1>1. PInv => TypeOK
  BY DEF PInv
<1>2. QED
  BY <1>1, PInvariant, PTL

(* However senders, the engine and the supervisor interleave, a message a    *)
(* task accepted is written, waits in the slot, is in the hands of the        *)
(* process, or was lost in one of the ways Preempt names: replaced unread,    *)
(* not writable, or held by a process that stopped (preempt_task,             *)
(* consume_preempt_message, _inject_preempt_message).                         *)
THEOREM NothingIsDropped == Spec => []NothingVanishes
<1>1. PInv => NothingVanishes
  BY DEF PInv, TaskInv, NothingVanishes
<1>2. QED
  BY <1>1, PInvariant, PTL

(* For any number of senders: finish, ask, stay_silent and a suspension leave *)
(* no message behind that was there when the model's answer was complete.     *)
THEOREM LastLookSees == Spec => []LastLookCounts
<1>1. PInv => LastLookCounts
  BY DEF PInv, TaskInv, LastLookCounts
<1>2. QED
  BY <1>1, PInvariant, PTL

(* Messages are written once and in the order of their acceptance unless an  *)
(* acknowledgement was lost, and no two tasks take the same user's message    *)
(* unless an answer to the adapter was.                                       *)
THEOREM WritesOnceInOrder == Spec => []WrittenOnceInOrder
<1>1. PInv => WrittenOnceInOrder
  BY DEF PInv, TaskInv, OneTakes, WrittenOnceInOrder
<1>2. QED
  BY <1>1, PInvariant, PTL
=============================================================================
