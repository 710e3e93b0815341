------------------------- MODULE DispatchTreeProofs -------------------------
(***************************************************************************)
(* What holds of every tree of dispatches, for any number of tasks, rounds,  *)
(* items and threads, while the event log can be written: NoOrphanWork,      *)
(* BatchHasAWaker, ToldIsFinal and SuspendedOncePerDispatch.                 *)
(*                                                                         *)
(* The operators of DispatchTree map records to records, so the invariant is *)
(* a predicate on records, Good(T), and each operator has a lemma that it    *)
(* keeps Good.  Most of them only take tasks out of waiting: that is         *)
(* StepsDown, and what it needs of a cascade is that it is closed below the  *)
(* tasks it ends (BelowIsClosed).  A dispatch that goes out is BirthKeepsGood. *)
(*                                                                         *)
(* The second half says how each operator relates the records before to those *)
(* after: Follows (what was over or told stays) and KeepsWakers (what may     *)
(* wake a batch stays), up to the one task that is being ended or routed.    *)
(***************************************************************************)
EXTENDS DispatchTree, TLAPS

Typed(T) == T \in [Tasks -> TaskRecord]

IsLive(r) == r.status \in Live

(* A suspended task has no cancel request: a cancel ends it at once. *)
Calm(T) == \A t \in Tasks : T[t].status = "suspended" => ~T[t].cancelReq

(* What a task waits for are children of its own: one, or items of a batch. *)
WaitsForChildren(T) ==
    \A p \in Tasks : \A c \in T[p].waitsFor :
        /\ T[c].status # "unborn" /\ T[c].caller = p
        /\ ~T[c].batch => T[p].waitsFor = {c}

NoOrphans(T) ==
    \A c \in Tasks :
        IsLive(T[c]) /\ T[c].caller # NoTask => T[c].cancelReq \/ CallerWaits(T, c)

(* The completions of a task that goes on have been routed. *)
RoutedWhileLive(T) == \A t \in Tasks : IsLive(T[t]) /\ T[t].route # "routed" => T[t].round = 0

(* Only a task that was failed has a worker that is to stop. *)
StopsWhenOver(T) ==
    \A t \in Tasks : T[t].stopping # "no" => T[t].status = "failed" /\ T[t].round > 0

UnbornIsNew(T) == \A t \in Tasks : T[t].status = "unborn" => T[t].round = 0

Good(T) ==
    /\ Typed(T) /\ Calm(T) /\ WaitsForChildren(T) /\ NoOrphans(T)
    /\ RoutedWhileLive(T) /\ StopsWhenOver(T) /\ UnbornIsNew(T)

(* A dispatch that is still to be routed has created no child; a task that    *)
(* ended otherwise than completed has none to be routed.                     *)
Unrouted(r) == IsTerminal(r) /\ r.action = "dispatch" /\ r.route # "routed"

Fresh(T) ==
    /\ \A x \in Tasks : Unrouted(T[x]) => T[x].status = "completed"
    /\ \A c, t \in Tasks :
          T[c].status # "unborn" /\ T[c].caller = t
            => /\ T[c].key <= T[t].round
               /\ T[c].key = T[t].round => T[t].action # "dispatch" \/ T[t].route = "routed"

(* H threads are on their way to route completions that have been reported. *)
Consistent(T, H) ==
    /\ Good(T) /\ Fresh(T)
    /\ H \in [Tasks -> 0..MaxThreads]
    /\ \A t \in Tasks : T[t].round = 0 => H[t] = 0

Inv == Consistent(task, threads)

-----------------------------------------------------------------------------
(* Records that differ in nothing the invariant looks at but the route. *)
Alike(S, T) ==
    \A x \in Tasks :
        /\ S[x].status = T[x].status /\ S[x].cancelReq = T[x].cancelReq
        /\ S[x].caller = T[x].caller /\ S[x].batch = T[x].batch
        /\ S[x].waitsFor = T[x].waitsFor /\ S[x].round = T[x].round
        /\ \/ S[x].stopping \in {T[x].stopping, "no"}
           \/ T[x].status = "failed" /\ T[x].round > 0
        /\ S[x].route \in {T[x].route, "routed"} \/ IsTerminal(T[x])

LEMMA AlikeKeepsGood ==
    ASSUME NEW T, NEW S, Good(T), Typed(S), Alike(S, T)
    PROVE  Good(S)
<1>1. \A c \in Tasks : T[c].caller # NoTask => T[c].caller \in Tasks
  BY DEF Good, Typed, TaskRecord
<1>2. Calm(S) /\ UnbornIsNew(S)
  BY DEF Good, Alike, Calm, UnbornIsNew
<1>3. WaitsForChildren(S)
  <2> SUFFICES ASSUME NEW p \in Tasks, NEW c \in S[p].waitsFor
               PROVE  /\ S[c].status # "unborn" /\ S[c].caller = p
                      /\ ~S[c].batch => S[p].waitsFor = {c}
    BY DEF WaitsForChildren
  <2>1. c \in Tasks /\ c \in T[p].waitsFor
    BY DEF Good, Typed, TaskRecord, Alike
  <2> QED
    BY <2>1 DEF Good, WaitsForChildren, Alike
<1>4. NoOrphans(S)
  BY <1>1 DEF Good, NoOrphans, Alike, CallerWaits, CanResume, IsLive
<1>5. RoutedWhileLive(S)
  BY DEF Good, RoutedWhileLive, Alike, IsLive, IsTerminal, Live, Terminal
<1>6. StopsWhenOver(S)
  BY DEF Good, StopsWhenOver, Alike, IsTerminal
<1> QED
  BY <1>2, <1>3, <1>4, <1>5, <1>6 DEF Good

(* Task x stops waiting, or was not waiting: it goes on only if somebody still *)
(* waits for it, or it has been told to stop.                                *)
StopsWaiting(S, T, x) ==
    /\ S[x].status \notin {"suspended", "unborn"} /\ T[x].status # "unborn"
    /\ S[x].caller = T[x].caller /\ S[x].batch = T[x].batch
    /\ S[x].waitsFor = {} \/ S[x].waitsFor = T[x].waitsFor
    /\ IsLive(S[x]) => S[x].cancelReq \/ S[x].caller = NoTask \/ CallerWaits(S, x)
    /\ IsLive(S[x]) /\ S[x].route # "routed" => S[x].round = 0
    /\ S[x].stopping # "no" => S[x].status = "failed" /\ S[x].round > 0

(* What is alive below the tasks D that were suspended is among them, or has  *)
(* been told to stop.                                                       *)
ClosedBelow(T, D) ==
    \A c \in Tasks \ D :
        IsLive(T[c]) /\ T[c].caller \in D /\ T[T[c].caller].status = "suspended"
            => T[c].cancelReq

LEMMA StepsDown ==
    ASSUME NEW T, NEW S, NEW D \in SUBSET Tasks, Good(T), Typed(S),
           \A x \in Tasks \ D : S[x] = T[x],
           \A x \in D : StopsWaiting(S, T, x),
           ClosedBelow(T, D)
    PROVE  Good(S)
<1> USE DEF StopsWaiting, ClosedBelow
<1>1. \A c \in Tasks : T[c].caller # NoTask => T[c].caller \in Tasks
  BY DEF Good, Typed, TaskRecord
<1>2. Calm(S) /\ UnbornIsNew(S) /\ RoutedWhileLive(S) /\ StopsWhenOver(S)
  BY DEF Good, Calm, UnbornIsNew, RoutedWhileLive, StopsWhenOver
<1>3. WaitsForChildren(S)
  <2> SUFFICES ASSUME NEW p \in Tasks, NEW c \in S[p].waitsFor
               PROVE  /\ S[c].status # "unborn" /\ S[c].caller = p
                      /\ ~S[c].batch => S[p].waitsFor = {c}
    BY DEF WaitsForChildren
  <2>1. c \in Tasks /\ S[p].waitsFor = T[p].waitsFor
    BY DEF Typed, TaskRecord
  <2>2. T[c].status # "unborn" /\ T[c].caller = p /\ (~T[c].batch => T[p].waitsFor = {c})
    BY <2>1 DEF Good, WaitsForChildren
  <2> QED
    BY <2>1, <2>2
<1>4. NoOrphans(S)
  <2> SUFFICES ASSUME NEW c \in Tasks, IsLive(S[c]), S[c].caller # NoTask, ~S[c].cancelReq
               PROVE  CallerWaits(S, c)
    BY DEF NoOrphans
  <2>1. CASE c \in D
    BY <2>1
  <2>2. CASE c \notin D
    <3>1. S[c] = T[c] /\ CallerWaits(T, c)
      BY <2>2 DEF Good, NoOrphans
    <3>2. T[c].caller \notin D
      BY <2>2, <3>1 DEF CallerWaits, CanResume
    <3> QED
      BY <1>1, <3>1, <3>2 DEF CallerWaits
  <2> QED
    BY <2>1, <2>2
<1> QED
  BY <1>2, <1>3, <1>4 DEF Good

-----------------------------------------------------------------------------
(* Settling a caller changes nobody's completions and creates nobody. *)
SameCompletions(S, T) ==
    \A x \in Tasks :
        /\ S[x].status = "unborn" <=> T[x].status = "unborn"
        /\ IsTerminal(S[x]) <=> IsTerminal(T[x])
        /\ IsTerminal(T[x]) => S[x].status = T[x].status
        /\ S[x].caller = T[x].caller /\ S[x].key = T[x].key
        /\ S[x].round = T[x].round /\ S[x].action = T[x].action /\ S[x].route = T[x].route

(* The weaker fact that keeps Fresh: completions may be decided, or renewed. *)
SameTree(S, T) ==
    \A x \in Tasks :
        /\ S[x].status = "unborn" <=> T[x].status = "unborn"
        /\ S[x].caller = T[x].caller /\ S[x].key = T[x].key
        /\ S[x].round \in Nat /\ S[x].round >= T[x].round
        /\ S[x].round = T[x].round /\ S[x].action = "dispatch" /\ S[x].route # "routed"
              => T[x].action = "dispatch" /\ T[x].route # "routed"
        /\ Unrouted(S[x]) /\ S[x].status # "completed"
              => Unrouted(T[x]) /\ T[x].status # "completed"

LEMMA SameTreeKeepsFresh ==
    ASSUME NEW T, NEW S, Typed(T), Fresh(T), SameTree(S, T)
    PROVE  Fresh(S)
<1> SUFFICES ASSUME NEW c \in Tasks, NEW t \in Tasks, S[c].status # "unborn", S[c].caller = t
             PROVE  /\ S[c].key <= S[t].round
                    /\ S[c].key = S[t].round => S[t].action # "dispatch" \/ S[t].route = "routed"
  BY DEF Fresh, SameTree
<1>1. /\ T[c].status # "unborn" /\ T[c].caller = t /\ S[c].key = T[c].key
      /\ S[t].round \in Nat /\ S[t].round >= T[t].round
      /\ S[t].round = T[t].round /\ S[t].action = "dispatch" /\ S[t].route # "routed"
              => T[t].action = "dispatch" /\ T[t].route # "routed"
  BY DEF SameTree
<1>2. /\ T[c].key <= T[t].round
      /\ T[c].key = T[t].round => T[t].action # "dispatch" \/ T[t].route = "routed"
  BY <1>1 DEF Fresh
<1>3. T[c].key \in Nat /\ T[t].round \in Nat
  BY DEF Typed, TaskRecord
<1> QED
  BY <1>1, <1>2, <1>3

LEMMA SameCompletionsIsSameTree ==
    ASSUME NEW T, NEW S, Typed(T), SameCompletions(S, T)
    PROVE  SameTree(S, T)
<1>1. \A x \in Tasks : T[x].round \in Nat
  BY DEF Typed, TaskRecord
<1> QED
  BY <1>1 DEF SameCompletions, SameTree, Unrouted

(* What the operators on one record change. *)
SameRecord(q, r) ==
    /\ q.cancelReq = r.cancelReq /\ q.caller = r.caller /\ q.batch = r.batch
    /\ q.round = r.round /\ q.stopping = r.stopping
    /\ q.key = r.key /\ q.action = r.action

LEMMA RequeuedRecord ==
    ASSUME NEW r \in TaskRecord
    PROVE  /\ Requeued(r) \in TaskRecord /\ SameRecord(Requeued(r), r)
           /\ Requeued(r).status = "pending" /\ Requeued(r).waitsFor = {}
           /\ Requeued(r).route = r.route
  BY DEF TaskRecord, Requeued, Live, SameRecord

LEMMA NotedRecord ==
    ASSUME NEW r \in TaskRecord, NEW q \in {HandedOver(r), Watched(r)}
    PROVE  /\ q \in TaskRecord /\ SameRecord(q, r)
           /\ q.status = r.status /\ q.waitsFor = r.waitsFor /\ q.route = r.route
<1>1. CASE q = HandedOver(r)
  BY <1>1 DEF TaskRecord, HandedOver, Outcome, SameRecord
<1>2. CASE q = Watched(r)
  BY <1>2 DEF TaskRecord, Watched, SameRecord
<1> QED
  BY <1>1, <1>2

LEMMA RoutedRecord ==
    ASSUME NEW r \in TaskRecord
    PROVE  /\ Routed(r) \in TaskRecord /\ SameRecord(Routed(r), r)
           /\ Routed(r).status = r.status /\ Routed(r).waitsFor = r.waitsFor
           /\ Routed(r).route = "routed"
  BY DEF TaskRecord, Routed, SameRecord

LEMMA RouteFailedRecord ==
    ASSUME NEW r \in TaskRecord
    PROVE  /\ RouteFailed(r) \in TaskRecord /\ SameRecord(RouteFailed(r), r)
           /\ RouteFailed(r).status = r.status /\ RouteFailed(r).waitsFor = r.waitsFor
           /\ RouteFailed(r).route = "failed"
  BY DEF TaskRecord, RouteFailed, SameRecord

LEMMA TypedPointwise ==
    ASSUME NEW S, S = [x \in Tasks |-> S[x]], \A x \in Tasks : S[x] \in TaskRecord
    PROVE  Typed(S)
  BY DEF Typed

(* Nothing alive is left waiting for nobody when p is queued again. *)
LEMMA ResumeKeepsGood ==
    ASSUME NEW T, NEW p \in Tasks, Good(T), T[p].status = "suspended",
           \A x \in T[p].waitsFor : ~IsLive(T[x])
    PROVE  Good(Resume(T, p)) /\ SameCompletions(Resume(T, p), T)
<1> DEFINE W == T[p].waitsFor
           S == [x \in Tasks |-> IF x = p THEN Requeued(T[x]) ELSE T[x]]
           R == Resume(T, p)
<1>0. Typed(T) /\ \A x \in Tasks : T[x] \in TaskRecord
  BY DEF Good, Typed
<1>1. /\ \A x \in Tasks \ {p} : S[x] = T[x]
      /\ S[p] = Requeued(T[p])
      /\ \A x \in Tasks : R[x] = IF x \in W /\ x # p THEN HandedOver(T[x]) ELSE S[x]
      /\ R = [x \in Tasks |-> R[x]]
  BY DEF Resume
<1>2. Typed(S)
  BY <1>0, RequeuedRecord DEF Typed, S
<1> HIDE DEF S, R, W
<1>3. /\ S[p].status = "pending" /\ S[p].caller = T[p].caller /\ S[p].batch = T[p].batch
      /\ S[p].waitsFor = {} /\ S[p].route = T[p].route /\ S[p].round = T[p].round
      /\ S[p].stopping = T[p].stopping /\ S[p].key = T[p].key /\ S[p].action = T[p].action
      /\ S[p].cancelReq = T[p].cancelReq
  BY <1>0, <1>1, RequeuedRecord DEF SameRecord
<1>4. IsLive(T[p]) /\ ~IsTerminal(T[p]) /\ p \notin W
  BY DEF IsLive, IsTerminal, Live, Terminal, W
<1>5. S[p].cancelReq \/ S[p].caller = NoTask \/ CallerWaits(S, p)
  <2>1. T[p].caller = NoTask \/ CallerWaits(T, p)
    BY <1>4 DEF Good, Calm, NoOrphans
  <2>2. CASE CallerWaits(T, p)
    <3>1. T[p].caller \in Tasks \ {p}
      BY <1>0, <1>4, <2>2 DEF CallerWaits, TaskRecord
    <3> QED
      BY <1>1, <1>3, <2>2, <3>1 DEF CallerWaits
  <2> QED
    BY <1>3, <2>1, <2>2
<1>6. Good(S)
  <2>1. IsLive(T[p]) /\ T[p].route # "routed" => T[p].round = 0
    BY DEF Good, RoutedWhileLive
  <2>2. T[p].stopping = "no"
    BY <1>4 DEF Good, StopsWhenOver
  <2>3. ClosedBelow(T, {p})
    <3> SUFFICES ASSUME NEW c \in Tasks, IsLive(T[c]), T[c].caller = p, ~T[c].cancelReq
                 PROVE  FALSE
      BY DEF ClosedBelow
    <3>1. T[c].caller # NoTask
      BY RootAssumption
    <3>2. c \in W
      BY <3>1 DEF Good, NoOrphans, CallerWaits, W
    <3> QED
      BY <3>2 DEF W
  <2>4. StopsWaiting(S, T, p)
    BY <1>3, <1>4, <1>5, <2>1, <2>2 DEF StopsWaiting, IsLive, Live
  <2> QED
    BY StepsDown, <1>1, <1>2, <2>3, <2>4
<1>8. Typed(R)
  <2>1. \A x \in Tasks : R[x] \in TaskRecord
    BY <1>0, <1>1, <1>2, NotedRecord DEF Typed
  <2> QED
    BY <1>1, <2>1, TypedPointwise
<1>9. \A x \in Tasks :
        /\ R[x].status = S[x].status /\ R[x].cancelReq = S[x].cancelReq
        /\ R[x].caller = S[x].caller /\ R[x].batch = S[x].batch
        /\ R[x].waitsFor = S[x].waitsFor /\ R[x].round = S[x].round
        /\ R[x].stopping = S[x].stopping /\ R[x].route = S[x].route
        /\ R[x].key = S[x].key /\ R[x].action = S[x].action
  BY <1>0, <1>1, NotedRecord DEF SameRecord
<1>10. Good(R)
  BY AlikeKeepsGood, <1>6, <1>8, <1>9 DEF Alike
<1>11. SameCompletions(R, T)
  <2>1. \A x \in Tasks \ {p} : R[x].status = T[x].status
    BY <1>1, <1>9
  <2>2. R[p].status = "pending"
    BY <1>3, <1>9
  <2> QED
    BY <1>1, <1>3, <1>4, <1>9, <2>1, <2>2 DEF SameCompletions, IsTerminal, Terminal
<1> QED
  BY <1>10, <1>11 DEF R

LEMMA ResumeBatchKeepsGood ==
    ASSUME NEW T, NEW p \in Tasks, NEW R, Good(T), T[p].status = "suspended",
           \A x \in R : ~IsLive(T[x])
    PROVE  LET S == ResumeBatchIfSettled(T, p, R) IN Good(S) /\ SameCompletions(S, T)
<1> DEFINE open == {x \in T[p].waitsFor \ R : ResultOpen(T[x])}
           S == [x \in Tasks |-> IF x \in open /\ InTransit(T[x]) THEN Watched(T[x]) ELSE T[x]]
<1>1. CASE open = {}
  <2>1. \A x \in T[p].waitsFor : ~IsLive(T[x])
    BY <1>1 DEF ResultOpen, IsLive
  <2> QED
    BY <1>1, <2>1, ResumeKeepsGood DEF ResumeBatchIfSettled
<1>2. CASE open # {}
  <2>1. \A x \in Tasks : T[x] \in TaskRecord
    BY DEF Good, Typed
  <2>2. /\ S = [x \in Tasks |-> S[x]]
        /\ \A x \in Tasks : S[x] \in {Watched(T[x]), T[x]}
    OBVIOUS
  <2> HIDE DEF S
  <2>3. \A x \in Tasks : S[x] \in TaskRecord /\ SameRecord(S[x], T[x])
                        /\ S[x].status = T[x].status /\ S[x].waitsFor = T[x].waitsFor
                        /\ S[x].route = T[x].route
    BY <2>1, <2>2, NotedRecord DEF SameRecord
  <2>4. Good(S)
    BY <2>2, <2>3, TypedPointwise, AlikeKeepsGood DEF Alike, SameRecord
  <2>5. SameCompletions(S, T)
    BY <2>3 DEF SameCompletions, SameRecord, IsTerminal
  <2>6. S = ResumeBatchIfSettled(T, p, R)
    BY <1>2 DEF ResumeBatchIfSettled, S
  <2> QED
    BY <2>4, <2>5, <2>6
<1> QED
  BY <1>1, <1>2

LEMMA SameCompletionsOfItself ==
    ASSUME NEW T
    PROVE  SameCompletions(T, T)
  BY DEF SameCompletions

LEMMA SettleChildKeepsGood ==
    ASSUME NEW T, NEW c \in Tasks, Good(T), ~IsLive(T[c])
    PROVE  Good(SettleChild(T, c)) /\ SameCompletions(SettleChild(T, c), T)
<1>1. CASE ~CallerWaits(T, c)
  BY <1>1, SameCompletionsOfItself DEF SettleChild
<1>2. CASE CallerWaits(T, c)
  <2> DEFINE p == T[c].caller
  <2>1. p \in Tasks /\ T[p].status = "suspended" /\ c \in T[p].waitsFor
    BY <1>2 DEF CallerWaits, CanResume, Good, Typed, TaskRecord
  <2>2. CASE T[c].batch
    BY <1>2, <2>1, <2>2, ResumeBatchKeepsGood DEF SettleChild
  <2>3. CASE ~T[c].batch
    <3>1. T[p].waitsFor = {c}
      BY <2>1, <2>3 DEF Good, WaitsForChildren
    <3> QED
      BY <1>2, <2>1, <2>3, <3>1, ResumeKeepsGood DEF SettleChild
  <2> QED
    BY <2>2, <2>3
<1> QED
  BY <1>1, <1>2

LEMMA TransitEndedKeepsGood ==
    ASSUME NEW T, NEW c \in Tasks, Good(T)
    PROVE  Good(TransitEnded(T, c)) /\ SameCompletions(TransitEnded(T, c), T)
<1>1. CASE ~(T[c].batch /\ CallerWaits(T, c))
  BY <1>1, SameCompletionsOfItself DEF TransitEnded
<1>2. CASE T[c].batch /\ CallerWaits(T, c)
  <2>1. T[c].caller \in Tasks /\ T[T[c].caller].status = "suspended"
    BY <1>2 DEF CallerWaits, CanResume, Good, Typed, TaskRecord
  <2> QED
    BY <1>2, <2>1, ResumeBatchKeepsGood DEF TransitEnded
<1> QED
  BY <1>1, <1>2

(* Marking the route of t: what follows for a record S[t] that differs from *)
(* T[t] in its route alone.                                                 *)
LEMMA MarkKeepsGood ==
    ASSUME NEW T, NEW t \in Tasks, Good(T),
           NEW S \in {MarkRouted(T, t), MarkRouteFailed(T, t)},
           S = MarkRouted(T, t) \/ IsTerminal(T[t])
    PROVE  /\ Good(S)
           /\ \A x \in Tasks \ {t} : S[x] = T[x]
           /\ SameRecord(S[t], T[t]) /\ S[t].status = T[t].status
           /\ S[t].waitsFor = T[t].waitsFor
           /\ S[t].route = IF S = MarkRouted(T, t) THEN "routed" ELSE "failed"
<1>1. Typed(T) /\ T[t] \in TaskRecord
  BY DEF Good, Typed
<1>2. /\ \A x \in Tasks \ {t} : S[x] = T[x]
      /\ S[t] = IF S = MarkRouted(T, t) THEN Routed(T[t]) ELSE RouteFailed(T[t])
      /\ S = [x \in Tasks |-> S[x]]
  BY <1>1 DEF MarkRouted, MarkRouteFailed, Typed
<1>3. /\ S[t] \in TaskRecord /\ SameRecord(S[t], T[t]) /\ S[t].status = T[t].status
      /\ S[t].waitsFor = T[t].waitsFor
      /\ S[t].route = IF S = MarkRouted(T, t) THEN "routed" ELSE "failed"
  BY <1>1, <1>2, RoutedRecord, RouteFailedRecord
<1>4. Typed(S)
  BY <1>1, <1>2, <1>3, TypedPointwise DEF Typed
<1>5. Alike(S, T)
  BY <1>2, <1>3 DEF Alike, SameRecord
<1> QED
  BY <1>2, <1>3, <1>4, <1>5, AlikeKeepsGood

LEMMA RouteEndKeepsGood ==
    ASSUME NEW T, NEW t \in Tasks, Good(T), IsTerminal(T[t]), T[t].route # "routed",
           NEW S \in RouteEnd(T, t)
    PROVE  Good(S) /\ SameTree(S, T)
<1>0. ~IsLive(T[t]) /\ \A x \in Tasks : T[x].round \in Nat
  BY DEF IsTerminal, IsLive, Terminal, Live, Good, Typed, TaskRecord
<1> DEFINE U == SettleChild(T, t)
           F == MarkRouteFailed(T, t)
<1>1. Good(U) /\ SameCompletions(U, T) /\ IsTerminal(U[t])
  BY <1>0, SettleChildKeepsGood DEF SameCompletions
<1> HIDE DEF U, F
<1>2. CASE S \in {MarkRouted(U, t), MarkRouteFailed(U, t)}
  BY <1>0, <1>1, <1>2, MarkKeepsGood DEF SameCompletions, SameTree, SameRecord, Unrouted, IsTerminal
<1>3. CASE S = TransitEnded(F, t)
  <2>1. /\ Good(F) /\ \A x \in Tasks \ {t} : F[x] = T[x]
        /\ SameRecord(F[t], T[t]) /\ F[t].status = T[t].status
    BY MarkKeepsGood DEF F
  <2>2. Good(S) /\ SameCompletions(S, F)
    BY <1>3, <2>1, TransitEndedKeepsGood
  <2> QED
    BY <1>0, <2>1, <2>2 DEF SameCompletions, SameTree, SameRecord, Unrouted, IsTerminal
<1> QED
  BY <1>2, <1>3 DEF RouteEnd, U, F

-----------------------------------------------------------------------------
(* A task born below t, and t once it has given birth to the tasks K. *)
BornBelow(S, T, t, x) ==
    /\ S[x].status \in {"pending", "failed", "cancelled"}
    /\ S[x].caller = t /\ S[x].key = T[t].round /\ S[x].waitsFor = {}
    /\ S[x].stopping = "no" /\ S[x].action # "dispatch"
    /\ S[x].status = "pending" => S[x].round = 0 /\ CallerWaits(S, x)

GaveBirth(S, T, t, K) ==
    /\ S[t].status \in {"suspended", "failed"}
    /\ S[t].caller = T[t].caller /\ S[t].batch = T[t].batch /\ S[t].round = T[t].round
    /\ S[t].stopping = T[t].stopping /\ S[t].key = T[t].key
    /\ \/ S[t].waitsFor = {}
       \/ S[t].waitsFor = K /\ (\A x \in K : ~S[x].batch => K = {x})
    /\ S[t].action # "dispatch" \/ S[t].route = "routed"
    /\ S[t].status = "suspended" => /\ ~S[t].cancelReq /\ S[t].route = "routed"
                                    /\ T[t].caller = NoTask \/ CallerWaits(T, t)

(* The tasks K are born below t, which is suspended for them or has failed. *)
LEMMA BirthKeepsGood ==
    ASSUME NEW T, NEW S, NEW t \in Tasks, NEW K \in SUBSET (Tasks \ Born(T)),
           Good(T), Fresh(T), Typed(S), T[t].status = "completed",
           \A x \in Tasks \ (K \union {t}) : S[x] = T[x],
           \A x \in K : BornBelow(S, T, t, x),
           GaveBirth(S, T, t, K)
    PROVE  Good(S) /\ Fresh(S)
<1> USE DEF BornBelow, GaveBirth
<1>0. /\ \A c \in Tasks : T[c].caller # NoTask => T[c].caller \in Tasks
      /\ \A x \in Tasks : T[x] \in TaskRecord /\ S[x] \in TaskRecord
      /\ \A x \in K : T[x].status = "unborn" /\ x # t /\ T[x].round = 0
  BY DEF Good, Typed, TaskRecord, Born, UnbornIsNew
<1>1. /\ S[t].caller = T[t].caller /\ S[t].batch = T[t].batch /\ S[t].round = T[t].round
      /\ S[t].stopping = T[t].stopping /\ S[t].key = T[t].key
  OBVIOUS
<1>2. Calm(S)
  BY DEF Good, Calm
<1>3. UnbornIsNew(S) /\ RoutedWhileLive(S)
  BY <1>1 DEF Good, UnbornIsNew, RoutedWhileLive, IsLive, Live
<1>4. StopsWhenOver(S)
  <2>1. \A x \in Tasks \ {t} : S[x].stopping # "no" => S[x].status = "failed" /\ S[x].round > 0
    BY DEF Good, StopsWhenOver
  <2>2. S[t].stopping = "no"
    BY <1>1 DEF Good, StopsWhenOver
  <2> QED
    BY <2>1, <2>2 DEF StopsWhenOver
<1>5. WaitsForChildren(S)
  <2> SUFFICES ASSUME NEW p \in Tasks, NEW c \in S[p].waitsFor
               PROVE  /\ S[c].status # "unborn" /\ S[c].caller = p
                      /\ ~S[c].batch => S[p].waitsFor = {c}
    BY DEF WaitsForChildren
  <2>1. CASE p = t
    BY <2>1
  <2>2. CASE p # t
    <3>1. p \notin K /\ S[p] = T[p] /\ c \in Tasks
      BY <1>0, <2>2 DEF TaskRecord
    <3>2. T[c].status # "unborn" /\ T[c].caller = p /\ (~T[c].batch => T[p].waitsFor = {c})
      BY <3>1 DEF Good, WaitsForChildren
    <3>3. c \notin K
      BY <1>0, <3>2
    <3> QED
      BY <1>1, <3>1, <3>2, <3>3
  <2> QED
    BY <2>1, <2>2
<1>6. NoOrphans(S)
  <2> SUFFICES ASSUME NEW c \in Tasks, IsLive(S[c]), S[c].caller # NoTask, ~S[c].cancelReq
               PROVE  CallerWaits(S, c)
    BY DEF NoOrphans
  <2>1. CASE c \in K
    BY <2>1 DEF IsLive, Live
  <2>2. CASE c \notin K
    <3>1. CallerWaits(T, c) /\ S[c].caller = T[c].caller
      <4>1. CASE c = t
        BY <1>1, <4>1 DEF IsLive, Live
      <4>2. CASE c # t
        BY <2>2, <4>2 DEF Good, NoOrphans
      <4> QED
        BY <4>1, <4>2
    <3>2. T[c].caller \in Tasks \ (K \union {t})
      BY <1>0, <3>1 DEF CallerWaits, CanResume
    <3> QED
      BY <3>1, <3>2 DEF CallerWaits
  <2> QED
    BY <2>1, <2>2
<1>7. Fresh(S)
  <2>1. \A x \in Tasks : Unrouted(S[x]) => S[x].status = "completed"
    BY DEF Fresh, Unrouted
  <2>2. ASSUME NEW c \in Tasks, NEW q \in Tasks, S[c].status # "unborn", S[c].caller = q
        PROVE  /\ S[c].key <= S[q].round
               /\ S[c].key = S[q].round => S[q].action # "dispatch" \/ S[q].route = "routed"
    <3>1. CASE c \in K
      BY <1>0, <1>1, <2>2, <3>1 DEF TaskRecord
    <3>2. CASE c \notin K
      <4>1. T[c].status # "unborn" /\ T[c].caller = q /\ S[c].key = T[c].key
        BY <1>1, <2>2, <3>2
      <4>2. /\ T[c].key <= T[q].round
            /\ T[c].key = T[q].round => T[q].action # "dispatch" \/ T[q].route = "routed"
        BY <4>1 DEF Fresh
      <4>3. S[q].round \in Nat /\ T[q].round \in Nat /\ T[c].key \in Nat
        BY <1>0 DEF TaskRecord
      <4>4. CASE q \in K
        BY <1>0, <4>1, <4>2, <4>3, <4>4
      <4>5. CASE q = t
        BY <1>1, <4>1, <4>2, <4>5
      <4>6. CASE q \notin K \union {t}
        BY <4>1, <4>2, <4>6
      <4> QED
        BY <4>4, <4>5, <4>6
    <3> QED
      BY <3>1, <3>2
  <2> QED
    BY <2>1, <2>2 DEF Fresh
<1> QED
  BY <1>2, <1>3, <1>4, <1>5, <1>6, <1>7 DEF Good

-----------------------------------------------------------------------------
(* Records that end. *)
LEMMA FailedRecord ==
    ASSUME NEW r \in TaskRecord
    PROVE  /\ ApplyFailure(r) \in TaskRecord
           /\ ApplyFailure(r).status = "failed" /\ ApplyFailure(r).action = "fail"
           /\ ApplyFailure(r).cancelReq /\ ApplyFailure(r).waitsFor = {}
           /\ ApplyFailure(r).caller = r.caller /\ ApplyFailure(r).batch = r.batch
           /\ ApplyFailure(r).key = r.key /\ ApplyFailure(r).round = r.round
           /\ ApplyFailure(r).route = r.route /\ ApplyFailure(r).stopping = r.stopping
  BY DEF TaskRecord, ApplyFailure, Terminal

LEMMA TerminatedRecord ==
    ASSUME NEW r \in TaskRecord
    PROVE  /\ Terminated(r) \in TaskRecord
           /\ Terminated(r).status = "cancelled" /\ Terminated(r).action = "cancelled"
           /\ Terminated(r).cancelReq /\ Terminated(r).waitsFor = {}
           /\ Terminated(r).caller = r.caller /\ Terminated(r).batch = r.batch
           /\ Terminated(r).key = r.key /\ Terminated(r).round = r.round
           /\ Terminated(r).route = r.route /\ Terminated(r).stopping = r.stopping
  BY DEF TaskRecord, Terminated, Terminal

LEMMA RouteResetRecord ==
    ASSUME NEW r \in TaskRecord
    PROVE  /\ RouteReset(r) \in TaskRecord
           /\ RouteReset(r).status = r.status /\ RouteReset(r).action = r.action
           /\ RouteReset(r).cancelReq = r.cancelReq /\ RouteReset(r).waitsFor = r.waitsFor
           /\ RouteReset(r).caller = r.caller /\ RouteReset(r).batch = r.batch
           /\ RouteReset(r).key = r.key /\ RouteReset(r).round = r.round + 1
           /\ RouteReset(r).route = "pending" /\ RouteReset(r).stopping = r.stopping
<1>1. r.round \in Nat /\ r.round + 1 \in Nat
  BY DEF TaskRecord
<1>2. RouteReset(r) = [r EXCEPT !.round = r.round + 1, !.route = "pending", !.graceOver = FALSE]
  BY DEF RouteReset
<1> QED
  BY <1>1, <1>2 DEF TaskRecord

LEMMA SuspendedRecord ==
    ASSUME NEW r \in TaskRecord, NEW K \in SUBSET Tasks
    PROVE  /\ Suspended(r, K) \in TaskRecord /\ SameRecord(Suspended(r, K), r)
           /\ Suspended(r, K).status = "suspended" /\ Suspended(r, K).waitsFor = K
           /\ Suspended(r, K).route = r.route
  BY DEF TaskRecord, Suspended, SameRecord, Live

LEMMA NewChildRecord ==
    ASSUME NEW T, Typed(T), NEW t \in Tasks, NEW b \in BOOLEAN
    PROVE  /\ NewChild(T, t, b) \in TaskRecord
           /\ NewChild(T, t, b).status = "pending" /\ NewChild(T, t, b).action = "none"
           /\ ~NewChild(T, t, b).cancelReq /\ NewChild(T, t, b).caller = t
           /\ NewChild(T, t, b).batch = b /\ NewChild(T, t, b).key = T[t].round
           /\ NewChild(T, t, b).waitsFor = {} /\ NewChild(T, t, b).round = 0
           /\ NewChild(T, t, b).stopping = "no"
<1>1. T[t].round \in Nat
  BY DEF Typed, TaskRecord
<1> QED
  BY <1>1 DEF TaskRecord, NewChild, Live

LEMMA RefusedChildRecord ==
    ASSUME NEW T, Typed(T), NEW t \in Tasks
    PROVE  /\ RefusedChild(T, t) \in TaskRecord
           /\ RefusedChild(T, t).status = "failed" /\ RefusedChild(T, t).action = "fail"
           /\ RefusedChild(T, t).caller = t /\ RefusedChild(T, t).batch = TRUE
           /\ RefusedChild(T, t).key = T[t].round
           /\ RefusedChild(T, t).waitsFor = {} /\ RefusedChild(T, t).stopping = "no"
<1> DEFINE new == NewChild(T, t, TRUE)
           old == ApplyFailure(new)
           r == RouteReset(old)
<1>3. /\ new \in TaskRecord /\ new.caller = t /\ new.batch = TRUE
      /\ new.key = T[t].round /\ new.stopping = "no"
  <2>1. T[t].round \in Nat
    BY DEF Typed, TaskRecord
  <2> QED
    BY <2>1 DEF NewChild, TaskRecord, Live
<1>4. /\ old \in TaskRecord /\ old.status = "failed" /\ old.action = "fail"
      /\ old.caller = t /\ old.batch = TRUE
      /\ old.key = T[t].round /\ old.waitsFor = {} /\ old.stopping = "no"
  BY <1>3, FailedRecord
<1>1. /\ r \in TaskRecord /\ r.status = "failed" /\ r.action = "fail" /\ r.caller = t
      /\ r.batch = TRUE
      /\ r.key = T[t].round /\ r.waitsFor = {} /\ r.stopping = "no"
  BY <1>4, RouteResetRecord
<1>2. RefusedChild(T, t) = [r EXCEPT !.route = "routed"]
  BY DEF RefusedChild
<1> HIDE DEF r, old, new
<1> QED
  BY <1>1, <1>2 DEF TaskRecord

(* The children one dispatch creates. *)
LEMMA CreationIsNew ==
    ASSUME NEW T, NEW t \in Tasks, NEW n \in Creations(T, t)
    PROVE  /\ n.kids \in SUBSET (Tasks \ Born(T)) /\ n.refused \in SUBSET n.kids
           /\ n.batch \in BOOLEAN
           /\ ~n.batch => n.refused = {} /\ \A x \in n.kids : n.kids = {x}
<1> DEFINE unborn == Tasks \ Born(T)
<1>1. CASE \E x \in unborn \ Tools : n = [kids |-> {x}, refused |-> {}, batch |-> FALSE]
  BY <1>1
<1>2. CASE \E K \in SUBSET unborn : \E R \in SUBSET K :
               n = [kids |-> K, refused |-> R, batch |-> TRUE]
  BY <1>2
<1> QED
  BY <1>1, <1>2 DEF Creations

(* C holds the records T and those of the tasks K, new below t. *)
CreatedBelow(C, T, t, K, batch) ==
    /\ C = [x \in Tasks |-> C[x]] /\ t \notin K
    /\ \A x \in Tasks : C[x] \in TaskRecord
    /\ \A x \in Tasks \ K : C[x] = T[x]
    /\ \A x \in K :
          /\ C[x].status \in {"pending", "failed"} /\ C[x].caller = t
          /\ C[x].key = T[t].round /\ C[x].waitsFor = {} /\ C[x].stopping = "no"
          /\ C[x].action # "dispatch" /\ C[x].batch = batch
          /\ C[x].status = "pending" => C[x].round = 0 /\ ~C[x].cancelReq

LEMMA CreateRecords ==
    ASSUME NEW T, Typed(T), NEW t \in Tasks, T[t].status # "unborn", NEW n \in Creations(T, t)
    PROVE  CreatedBelow(Create(T, t, n.kids, n.refused, n.batch), T, t, n.kids, n.batch)
<1> DEFINE C == Create(T, t, n.kids, n.refused, n.batch)
<1>1. /\ n.kids \in SUBSET (Tasks \ Born(T)) /\ n.refused \in SUBSET n.kids
      /\ n.batch \in BOOLEAN /\ (~n.batch => n.refused = {})
  BY CreationIsNew
<1>2. /\ C = [x \in Tasks |-> C[x]]
      /\ \A x \in Tasks : C[x] = IF x \in n.refused THEN RefusedChild(T, t)
                                ELSE IF x \in n.kids THEN NewChild(T, t, n.batch) ELSE T[x]
  BY DEF Create
<1>3. t \notin n.kids
  BY <1>1 DEF Born
<1>4. \A x \in Tasks : T[x] \in TaskRecord
  BY DEF Typed
<1> HIDE DEF C
<1>5. \A x \in n.refused : x \in n.kids /\ x \in Tasks /\ n.batch = TRUE
  BY <1>1
<1>6. \A x \in n.kids : x \in Tasks
  BY <1>1
<1>7. \A x \in n.refused :
        /\ C[x] \in TaskRecord /\ C[x].status = "failed" /\ C[x].caller = t
        /\ C[x].key = T[t].round /\ C[x].waitsFor = {} /\ C[x].stopping = "no"
        /\ C[x].action = "fail" /\ C[x].batch = n.batch
  <2>1. \A x \in n.refused : C[x] = RefusedChild(T, t) /\ n.batch = TRUE
    BY <1>2, <1>5
  <2>2. /\ RefusedChild(T, t) \in TaskRecord
        /\ RefusedChild(T, t).status = "failed" /\ RefusedChild(T, t).action = "fail"
        /\ RefusedChild(T, t).caller = t /\ RefusedChild(T, t).batch = TRUE
        /\ RefusedChild(T, t).key = T[t].round
        /\ RefusedChild(T, t).waitsFor = {} /\ RefusedChild(T, t).stopping = "no"
    BY RefusedChildRecord
  <2> QED
    BY <2>1, <2>2
<1>8. \A x \in n.kids \ n.refused :
        /\ C[x] \in TaskRecord /\ C[x].status = "pending" /\ C[x].caller = t
        /\ C[x].key = T[t].round /\ C[x].waitsFor = {} /\ C[x].stopping = "no"
        /\ C[x].action = "none" /\ C[x].batch = n.batch
        /\ C[x].round = 0 /\ ~C[x].cancelReq
  BY <1>1, <1>2, <1>6, NewChildRecord
<1>9. \A x \in Tasks \ n.kids : C[x] = T[x]
  BY <1>1, <1>2
<1>10. \A x \in Tasks : C[x] \in TaskRecord
  BY <1>4, <1>7, <1>8, <1>9
<1> QED
  BY <1>2, <1>3, <1>7, <1>8, <1>9, <1>10 DEF C, CreatedBelow

-----------------------------------------------------------------------------
(* A route, whole. *)

RoundsKept(S, T) == \A x \in Tasks : S[x].round = 0 => T[x].round = 0

LEMMA SameTreeKeepsRounds ==
    ASSUME NEW T, NEW S, Typed(T), SameTree(S, T)
    PROVE  RoundsKept(S, T)
<1>1. \A x \in Tasks : T[x].round \in Nat /\ S[x].round \in Nat /\ S[x].round >= T[x].round
  BY DEF Typed, TaskRecord, SameTree
<1> QED
  BY <1>1 DEF RoundsKept

(* The records with t suspended for the children it gives birth to. *)
SuspendedForNew(T, t, n) == Suspend(Create(T, t, n.kids, n.refused, n.batch), t, n.kids)

LEMMA SuspendKeepsGood ==
    ASSUME NEW T, NEW t \in Tasks, Good(T), Fresh(T), T[t].status = "completed",
           T[t].route = "routed", ~T[t].cancelReq,
           T[t].caller = NoTask \/ CallerWaits(T, t), NEW n \in Creations(T, t)
    PROVE  LET U == SuspendedForNew(T, t, n) IN
           /\ Good(U) /\ Fresh(U) /\ RoundsKept(U, T)
           /\ U[t].status = "suspended" /\ U[t].waitsFor = n.kids
           /\ \A x \in n.kids :
                 /\ U[x] = Create(T, t, n.kids, n.refused, n.batch)[x]
                 /\ U[x].status \in {"pending", "failed"} /\ U[x].waitsFor = {}
                 /\ U[x].batch = n.batch
           /\ \A x \in Tasks \ (n.kids \union {t}) : U[x] = T[x]
           /\ U[t] = Suspended(T[t], n.kids)
<1> DEFINE K == n.kids
           C == Create(T, t, n.kids, n.refused, n.batch)
<1>0. T[t].status # "unborn" /\ Typed(T)
  BY DEF Good
<1>2. /\ C = [x \in Tasks |-> C[x]] /\ t \notin K
      /\ \A x \in Tasks : C[x] \in TaskRecord
      /\ \A x \in Tasks \ K : C[x] = T[x]
      /\ \A x \in K :
            /\ C[x].status \in {"pending", "failed"} /\ C[x].caller = t
            /\ C[x].key = T[t].round /\ C[x].waitsFor = {} /\ C[x].stopping = "no"
            /\ C[x].action # "dispatch" /\ C[x].batch = n.batch
            /\ C[x].status = "pending" => C[x].round = 0 /\ ~C[x].cancelReq
  <2>1. CreatedBelow(C, T, t, K, n.batch)
    BY <1>0, CreateRecords
  <2> HIDE DEF C, K
  <2> QED
    BY <2>1 DEF CreatedBelow
<1>3. /\ K \in SUBSET (Tasks \ Born(T)) /\ (~n.batch => \A x \in K : K = {x})
  BY CreationIsNew
<1> DEFINE U == Suspend(C, t, n.kids)
<1> HIDE DEF C, K
<1>4. /\ \A x \in Tasks \ {t} : U[x] = C[x]
      /\ U[t] = Suspended(T[t], K)
      /\ U = [x \in Tasks |-> U[x]]
  BY <1>2 DEF Suspend, K
<1> HIDE DEF U
<1>5. /\ U[t] \in TaskRecord /\ SameRecord(U[t], T[t])
      /\ U[t].status = "suspended" /\ U[t].waitsFor = K /\ U[t].route = "routed"
  BY <1>3, <1>4, SuspendedRecord DEF Good, Typed
<1>6. Typed(U)
  BY <1>2, <1>4, <1>5, TypedPointwise
<1>7. \A x \in K : U[x] = C[x] /\ x \in Tasks
  BY <1>2, <1>3, <1>4
<1>8. CanResume(U[t])
  BY <1>5 DEF CanResume, SameRecord
<1>9. \A x \in K : CallerWaits(U, x)
  BY <1>2, <1>5, <1>7, <1>8, RootAssumption DEF CallerWaits
<1>11. \A x \in K : ~U[x].batch => K = {x}
  BY <1>2, <1>3, <1>7
<1>12. Good(U) /\ Fresh(U)
  <2>1. \A x \in Tasks \ (K \union {t}) : U[x] = T[x]
    BY <1>2, <1>4
  <2>2. \A x \in K : BornBelow(U, T, t, x)
    BY <1>2, <1>7, <1>9 DEF BornBelow
  <2>3. GaveBirth(U, T, t, K)
    BY <1>5, <1>11 DEF GaveBirth, SameRecord
  <2> QED
    BY <1>3, <1>6, <2>1, <2>2, <2>3, BirthKeepsGood
<1>13. RoundsKept(U, T)
  <2>1. \A x \in K : T[x].round = 0
    BY <1>3 DEF Good, UnbornIsNew, Born
  <2> QED
    BY <1>2, <1>4, <1>5, <2>1 DEF RoundsKept, SameRecord
<1> QED
  <2>1. U = SuspendedForNew(T, t, n) /\ C = Create(T, t, n.kids, n.refused, n.batch)
    BY DEF U, C, K, SuspendedForNew
  <2>2. U[t].status = "suspended" /\ U[t].waitsFor = n.kids /\ U[t] = Suspended(T[t], n.kids)
    BY <1>4, <1>5 DEF K
  <2>3. \A x \in n.kids :
           /\ U[x] = C[x] /\ U[x].status \in {"pending", "failed"}
           /\ U[x].waitsFor = {} /\ U[x].batch = n.batch
    BY <1>2, <1>7 DEF K
  <2>4. \A x \in Tasks \ (n.kids \union {t}) : U[x] = T[x]
    BY <1>2, <1>4 DEF K
  <2> QED
    BY <1>12, <1>13, <2>1, <2>2, <2>3, <2>4

LEMMA SentOutKeepsGood ==
    ASSUME NEW T, NEW t \in Tasks, Good(T), Fresh(T), T[t].status = "completed",
           T[t].route = "routed", ~T[t].cancelReq,
           T[t].caller = NoTask \/ CallerWaits(T, t),
           ExistingChildren(T, t) = {}, NEW S \in SentOut(T, t)
    PROVE  Good(S) /\ Fresh(S) /\ RoundsKept(S, T)
<1>1. PICK n \in Creations(T, t) :
        S = IF n.batch THEN ResumeBatchIfSettled(SuspendedForNew(T, t, n), t, {})
            ELSE SuspendedForNew(T, t, n)
  BY DEF SentOut, SuspendedForNew
<1> DEFINE U == SuspendedForNew(T, t, n)
<1>2. Good(U) /\ Fresh(U) /\ RoundsKept(U, T) /\ U[t].status = "suspended"
  BY SuspendKeepsGood
<1>3. S = IF n.batch THEN ResumeBatchIfSettled(U, t, {}) ELSE U
  BY <1>1
<1> HIDE DEF U
<1>4. CASE ~n.batch
  BY <1>2, <1>3, <1>4
<1>5. CASE n.batch
  <2>1. S = ResumeBatchIfSettled(U, t, {})
    BY <1>3, <1>5
  <2>2. Good(S) /\ SameCompletions(S, U)
    BY <1>2, <2>1, ResumeBatchKeepsGood
  <2>3. SameTree(S, U) /\ Fresh(S)
    BY <1>2, <2>2, SameCompletionsIsSameTree, SameTreeKeepsFresh DEF Good
  <2>4. RoundsKept(S, T)
    BY <1>2, <2>2 DEF SameCompletions, RoundsKept
  <2> QED
    BY <2>2, <2>3, <2>4
<1> QED
  BY <1>4, <1>5

(* t has failed, and the children it had got have ended with it. *)
IsWithdrawn(S, T, t, n) ==
    /\ S[t] = ApplyFailure(T[t])
    /\ \A x \in n.kids :
          /\ S[x] = CancelOne(Create(T, t, n.kids, n.refused, n.batch)[x], FALSE)
          /\ S[x].status \in {"failed", "cancelled"} /\ S[x].waitsFor = {}
    /\ \A x \in Tasks \ (n.kids \union {t}) : S[x] = T[x]

LEMMA WithdrawnIsGood ==
    ASSUME NEW T, NEW t \in Tasks, Good(T), Fresh(T), T[t].status = "completed",
           NEW n \in Creations(T, t)
    PROVE  LET S == Withdrawn(T, t, n) IN
           /\ Good(S) /\ Fresh(S) /\ RoundsKept(S, T)
           /\ IsTerminal(S[t]) /\ S[t].route = T[t].route
           /\ IsWithdrawn(S, T, t, n)
<1> DEFINE C == Create(T, t, n.kids, n.refused, n.batch)
           F == [C EXCEPT ![t] = ApplyFailure(@)]
           S == CancelAll(F, n.kids, {})
           K == n.kids
<1>1. /\ C = [x \in Tasks |-> C[x]] /\ t \notin K
      /\ \A x \in Tasks : C[x] \in TaskRecord
      /\ \A x \in Tasks \ K : C[x] = T[x]
      /\ \A x \in K :
            /\ C[x].status \in {"pending", "failed"} /\ C[x].caller = t
            /\ C[x].key = T[t].round /\ C[x].waitsFor = {} /\ C[x].stopping = "no"
            /\ C[x].action # "dispatch" /\ C[x].batch = n.batch
            /\ C[x].status = "pending" => C[x].round = 0 /\ ~C[x].cancelReq
  <2>1. CreatedBelow(C, T, t, K, n.batch)
    BY CreateRecords DEF Good
  <2> HIDE DEF C, K
  <2> QED
    BY <2>1 DEF CreatedBelow
<1>2. K \in SUBSET (Tasks \ Born(T))
  BY CreationIsNew
<1> HIDE DEF C, K
<1>3. /\ \A x \in Tasks \ {t} : F[x] = C[x]
      /\ F[t] = ApplyFailure(T[t])
  BY <1>1 DEF K
<1> HIDE DEF F
<1>4. /\ S = [x \in Tasks |-> S[x]]
      /\ \A x \in K : S[x] = CancelOne(C[x], FALSE)
      /\ \A x \in Tasks \ (K \union {t}) : S[x] = T[x]
      /\ S[t] = ApplyFailure(T[t])
  <2>1. /\ S = [x \in Tasks |-> S[x]]
        /\ \A x \in Tasks : S[x] = IF x \in K THEN CancelOne(F[x], FALSE) ELSE F[x]
    <3>1. S = [x \in Tasks |-> IF x \in K THEN CancelOne(F[x], x \in {}) ELSE F[x]]
      BY DEF CancelAll, K
    <3>2. \A x \in Tasks : (x \in {}) = FALSE
      OBVIOUS
    <3> HIDE DEF S
    <3> QED
      BY <3>1, <3>2
  <2> HIDE DEF S
  <2> QED
    BY <1>1, <1>2, <1>3, <2>1
<1>5. S = Withdrawn(T, t, n)
  BY DEF Withdrawn, F, C
<1> HIDE DEF S
<1>6. \A x \in K :
         /\ S[x] \in TaskRecord
         /\ S[x].status \in {"failed", "cancelled"}
         /\ S[x].caller = t /\ S[x].key = T[t].round /\ S[x].waitsFor = {}
         /\ S[x].stopping = "no" /\ S[x].action # "dispatch"
  <2> SUFFICES ASSUME NEW x \in K
               PROVE  /\ S[x] \in TaskRecord
                      /\ S[x].status \in {"failed", "cancelled"}
                      /\ S[x].caller = t /\ S[x].key = T[t].round /\ S[x].waitsFor = {}
                      /\ S[x].stopping = "no" /\ S[x].action # "dispatch"
    OBVIOUS
  <2>1. C[x] \in TaskRecord
    BY <1>1, <1>2
  <2>2. CASE C[x].status = "pending"
    <3>1. S[x] = Terminated(C[x])
      BY <1>4, <2>2 DEF CancelOne, IsTerminal, Terminal
    <3>2. /\ S[x] \in TaskRecord /\ S[x].status = "cancelled" /\ S[x].action = "cancelled"
          /\ S[x].caller = C[x].caller /\ S[x].key = C[x].key /\ S[x].waitsFor = {}
          /\ S[x].stopping = C[x].stopping
      BY <2>1, <3>1, TerminatedRecord
    <3> QED
      BY <1>1, <3>2
  <2>3. CASE C[x].status = "failed"
    <3>1. S[x] = C[x]
      BY <1>4, <2>3 DEF CancelOne, IsTerminal, Terminal, Continues, Live, Dispatching,
                        DispatchFailed, Unsent
    <3> QED
      BY <1>1, <2>1, <2>3, <3>1
  <2> QED
    BY <1>1, <2>2, <2>3
<1>7. /\ S[t] \in TaskRecord /\ S[t].status = "failed" /\ S[t].action = "fail"
      /\ S[t].waitsFor = {} /\ S[t].route = T[t].route
      /\ S[t].caller = T[t].caller /\ S[t].batch = T[t].batch
      /\ S[t].key = T[t].key /\ S[t].round = T[t].round /\ S[t].stopping = T[t].stopping
  BY <1>4, FailedRecord DEF Good, Typed
<1>8. Typed(S)
  <2>1. \A x \in Tasks : T[x] \in TaskRecord
    BY DEF Good, Typed
  <2> QED
    BY <1>4, <1>6, <1>7, <2>1, TypedPointwise
<1>10. Good(S) /\ Fresh(S)
  <2>1. \A x \in K : BornBelow(S, T, t, x)
    BY <1>6 DEF BornBelow
  <2>2. GaveBirth(S, T, t, K)
    BY <1>7 DEF GaveBirth
  <2> QED
    BY <1>2, <1>4, <1>8, <2>1, <2>2, BirthKeepsGood
<1>11. RoundsKept(S, T)
  <2>1. \A x \in K : T[x].round = 0
    BY <1>2 DEF Good, UnbornIsNew, Born
  <2> QED
    BY <1>4, <1>7, <2>1 DEF RoundsKept
<1>12. IsWithdrawn(S, T, t, n)
  BY <1>4, <1>6 DEF IsWithdrawn, C, K
<1> QED
  BY <1>5, <1>7, <1>10, <1>11, <1>12 DEF IsTerminal, Terminal

(* A completed task fails or is cancelled as it is routed. *)
EndedAs(q, r) ==
    /\ q \in TaskRecord /\ q.status \in {"failed", "cancelled"} /\ q.action # "dispatch"
    /\ q.waitsFor = {} /\ q.caller = r.caller /\ q.batch = r.batch
    /\ q.key = r.key /\ q.round = r.round /\ q.stopping = r.stopping

LEMMA EndedAloneKeepsGood ==
    ASSUME NEW T, NEW t \in Tasks, Good(T), T[t].status = "completed",
           NEW q, EndedAs(q, T[t])
    PROVE  Good([T EXCEPT ![t] = q]) /\ SameTree([T EXCEPT ![t] = q], T)
<1> DEFINE S == [T EXCEPT ![t] = q]
<1>1. T \in [Tasks -> TaskRecord] /\ \A x \in Tasks : T[x].round \in Nat
  BY DEF Good, Typed, TaskRecord
<1>2. /\ \A x \in Tasks \ {t} : S[x] = T[x]
      /\ S[t] = q /\ S \in [Tasks -> TaskRecord]
  BY <1>1 DEF EndedAs
<1> HIDE DEF S
<1>3. T[t].stopping = "no"
  BY DEF Good, StopsWhenOver
<1>4. StopsWaiting(S, T, t)
  BY <1>2, <1>3 DEF StopsWaiting, EndedAs, IsLive, Live
<1>5. ClosedBelow(T, {t})
  BY DEF ClosedBelow
<1>6. Good(S)
  BY <1>2, <1>4, <1>5, StepsDown DEF Typed
<1>7. SameTree(S, T)
  BY <1>1, <1>2 DEF SameTree, EndedAs, Unrouted
<1> QED
  BY <1>6, <1>7 DEF S

LEMMA FailedIsEnded ==
    ASSUME NEW r \in TaskRecord
    PROVE  EndedAs(ApplyFailure(r), r) /\ EndedAs(Routed(Terminated(r)), r)
<1>1. EndedAs(ApplyFailure(r), r)
  BY FailedRecord DEF EndedAs
<1>2. Terminated(r) \in TaskRecord
  BY TerminatedRecord
<1> DEFINE q == Terminated(r)
<1>3. EndedAs(q, r)
  BY TerminatedRecord DEF EndedAs
<1> HIDE DEF q
<1>4. EndedAs(Routed(q), r)
  BY <1>3, RoutedRecord DEF EndedAs, SameRecord
<1> QED
  BY <1>1, <1>4 DEF q

LEMMA RoutedOnKeepsGood ==
    ASSUME NEW T, NEW t \in Tasks, Good(T), Fresh(T), IsTerminal(T[t]), T[t].route # "routed",
           NEW U, Good(U), Fresh(U), RoundsKept(U, T), IsTerminal(U[t]), U[t].route # "routed",
           NEW S \in RouteEnd(U, t)
    PROVE  Good(S) /\ Fresh(S) /\ RoundsKept(S, T)
<1>1. Good(S) /\ SameTree(S, U)
  BY RouteEndKeepsGood
<1>2. Fresh(S) /\ RoundsKept(S, U)
  BY <1>1, SameTreeKeepsFresh, SameTreeKeepsRounds DEF Good
<1> QED
  BY <1>1, <1>2 DEF RoundsKept

LEMMA FailedRouteKeepsGood ==
    ASSUME NEW T, NEW t \in Tasks, Good(T), Fresh(T), T[t].status = "completed",
           T[t].route # "routed", NEW S \in RouteEnd([T EXCEPT ![t] = ApplyFailure(@)], t)
    PROVE  Good(S) /\ Fresh(S) /\ RoundsKept(S, T)
<1> DEFINE F == [T EXCEPT ![t] = ApplyFailure(@)]
<1>1. T[t] \in TaskRecord /\ T \in [Tasks -> TaskRecord]
  BY DEF Good, Typed
<1>2. F = [T EXCEPT ![t] = ApplyFailure(T[t])]
  OBVIOUS
<1>3. F[t] = ApplyFailure(T[t])
  BY <1>1
<1> HIDE DEF F
<1>4. F[t].status = "failed" /\ F[t].route = T[t].route
  BY <1>1, <1>3, FailedRecord
<1>5. Good(F) /\ SameTree(F, T)
  BY <1>1, <1>2, FailedIsEnded, EndedAloneKeepsGood
<1>6. Fresh(F) /\ RoundsKept(F, T)
  BY <1>5, SameTreeKeepsFresh, SameTreeKeepsRounds DEF Good
<1>7. IsTerminal(F[t]) /\ IsTerminal(T[t])
  BY <1>4 DEF IsTerminal, Terminal
<1> QED
  BY <1>4, <1>5, <1>6, <1>7, RoutedOnKeepsGood DEF F

LEMMA RouteDispatchKeepsGood ==
    ASSUME ~DiskFails, NEW T, NEW t \in Tasks, Good(T), Fresh(T), T[t].status = "completed",
           T[t].action = "dispatch", T[t].route # "routed", ~CalledOff(T, t),
           NEW S \in RouteDispatch(T, t)
    PROVE  Good(S) /\ Fresh(S) /\ RoundsKept(S, T)
<1>0. IsTerminal(T[t]) /\ Typed(T)
  BY DEF IsTerminal, Terminal, Good
<1>1. CASE S \in SentOut(MarkRouted(T, t), t)
  <2> DEFINE U == MarkRouted(T, t)
  <2>1. /\ Good(U) /\ \A x \in Tasks \ {t} : U[x] = T[x]
        /\ SameRecord(U[t], T[t]) /\ U[t].status = T[t].status /\ U[t].route = "routed"
    BY MarkKeepsGood
  <2> HIDE DEF U
  <2>2. SameTree(U, T)
    BY <1>0, <2>1 DEF SameTree, SameRecord, Typed, TaskRecord, Unrouted
  <2>3. Fresh(U) /\ RoundsKept(U, T)
    BY <1>0, <2>2, SameTreeKeepsFresh, SameTreeKeepsRounds
  <2>4. ~U[t].cancelReq /\ (U[t].caller = NoTask \/ CallerWaits(U, t))
    <3>1. ~T[t].cancelReq /\ (T[t].caller = NoTask \/ CallerWaits(T, t))
      BY DEF CalledOff
    <3>2. CASE CallerWaits(T, t)
      <4>1. T[t].caller \in Tasks \ {t}
        BY <1>0, <3>2 DEF CallerWaits, CanResume, Typed, TaskRecord
      <4> QED
        BY <2>1, <3>1, <3>2, <4>1 DEF CallerWaits, SameRecord
    <3> QED
      BY <2>1, <3>1, <3>2 DEF SameRecord
  <2>5. ExistingChildren(U, t) = {}
    <3> SUFFICES ASSUME NEW x \in Tasks, T[x].status # "unborn",
                        T[x].caller = t, T[x].key = T[t].round
                 PROVE  FALSE
      BY <2>1, <2>2 DEF ExistingChildren, Born, SameTree, SameRecord
    <3> QED
      BY DEF Fresh
  <2>6. Good(S) /\ Fresh(S) /\ RoundsKept(S, U)
    BY <1>1, <2>1, <2>3, <2>4, <2>5, SentOutKeepsGood DEF U
  <2> QED
    BY <2>3, <2>6 DEF RoundsKept
<1>2. CASE S \in RouteEnd([T EXCEPT ![t] = ApplyFailure(@)], t)
  BY <1>2, FailedRouteKeepsGood
<1>3. CASE \E n \in Creations(T, t) : S \in RouteEnd(Withdrawn(T, t, n), t)
  <2>1. PICK n \in Creations(T, t) : S \in RouteEnd(Withdrawn(T, t, n), t)
    BY <1>3
  <2> DEFINE U == Withdrawn(T, t, n)
  <2>2. /\ Good(U) /\ Fresh(U) /\ RoundsKept(U, T)
        /\ IsTerminal(U[t]) /\ U[t].route = T[t].route
    BY WithdrawnIsGood
  <2> HIDE DEF U
  <2>3. S \in RouteEnd(U, t)
    BY <2>1 DEF U
  <2> QED
    BY <1>0, <2>2, <2>3, RoutedOnKeepsGood
<1>4. CASE S = TransitEnded(MarkRouteFailed(T, t), t)
  <2>1. S \in RouteEnd(T, t)
    BY <1>4 DEF RouteEnd
  <2>2. RoundsKept(T, T)
    BY DEF RoundsKept
  <2> QED
    BY <1>0, <2>1, <2>2, RoutedOnKeepsGood
<1> QED
  BY <1>1, <1>2, <1>3, <1>4 DEF RouteDispatch, DiskFailures

LEMMA RouteCompletionKeepsGood ==
    ASSUME ~DiskFails, NEW T, NEW t \in Tasks, Good(T), Fresh(T),
           T[t].route = "routed" \/ IsTerminal(T[t]), NEW S \in RouteCompletion(T, t)
    PROVE  Good(S) /\ Fresh(S) /\ RoundsKept(S, T)
<1>0. T[t] \in TaskRecord /\ T \in [Tasks -> TaskRecord] /\ RoundsKept(T, T)
  BY DEF Good, Typed, RoundsKept
<1>1. CASE T[t].route = "routed"
  BY <1>0, <1>1 DEF RouteCompletion
<1>2. CASE T[t].route # "routed" /\ T[t].status = "completed" /\ IsDispatch(T[t]) /\ CalledOff(T, t)
  <2> DEFINE U == [T EXCEPT ![t] = Routed(Terminated(@))]
  <2>1. Good(U) /\ SameTree(U, T)
    BY <1>0, <1>2, FailedIsEnded, EndedAloneKeepsGood
  <2>2. ~IsLive(U[t])
    BY <1>0, FailedIsEnded DEF EndedAs, IsLive, Live
  <2>3. S = SettleChild(U, t)
    BY <1>2 DEF RouteCompletion
  <2> HIDE DEF U
  <2>4. Good(S) /\ SameCompletions(S, U)
    BY <2>1, <2>2, <2>3, SettleChildKeepsGood
  <2>5. Fresh(U) /\ RoundsKept(U, T) /\ Typed(U)
    BY <2>1, SameTreeKeepsFresh, SameTreeKeepsRounds DEF Good
  <2>6. Fresh(S)
    BY <2>4, <2>5, SameCompletionsIsSameTree, SameTreeKeepsFresh
  <2> QED
    BY <2>4, <2>5, <2>6 DEF SameCompletions, RoundsKept
<1>3. CASE /\ T[t].route # "routed" /\ T[t].status = "completed"
           /\ S \in RouteEnd([T EXCEPT ![t] = ApplyFailure(@)], t)
  BY <1>3, FailedRouteKeepsGood
<1>4. CASE T[t].route # "routed" /\ IsDispatch(T[t]) /\ ~CalledOff(T, t) /\ S \in RouteDispatch(T, t)
  <2>1. T[t].status = "completed" /\ T[t].action = "dispatch"
    BY <1>4 DEF Fresh, Unrouted, IsDispatch
  <2> QED
    BY <1>4, <2>1, RouteDispatchKeepsGood
<1>5. CASE T[t].route # "routed" /\ S \in RouteEnd(T, t)
  BY <1>0, <1>5, RoutedOnKeepsGood
<1>6. IsDispatch(T[t]) /\ T[t].route # "routed" => T[t].status = "completed"
  BY DEF IsDispatch, Fresh, Unrouted
<1> QED
  BY <1>1, <1>2, <1>3, <1>4, <1>5, <1>6 DEF RouteCompletion

-----------------------------------------------------------------------------
(* Cascades: tasks that end, or are told to end, wherever they stand. *)

StopsAs(q, r) ==
    /\ q \in TaskRecord /\ q.status \notin {"suspended", "unborn"} /\ r.status # "unborn"
    /\ q.caller = r.caller /\ q.batch = r.batch /\ q.key = r.key
    /\ q.waitsFor = {} \/ q.waitsFor = r.waitsFor
    /\ q.stopping = r.stopping /\ q.round >= r.round
    /\ r.status = "failed" => q.status = "failed"
    /\ IsLive(q) => q.cancelReq /\ IsLive(r) /\ q.route = r.route /\ q.round = r.round
    /\ q.action = "dispatch" /\ q.route # "routed"
          => \/ q.round # r.round /\ q.status = "completed"
             \/ q.status = r.status /\ r.action = "dispatch" /\ q.route = r.route

LEMMA CascadeKeepsGood ==
    ASSUME NEW T, NEW S, NEW D \in SUBSET Tasks, Good(T), Fresh(T),
           S = [x \in Tasks |-> S[x]],
           \A x \in Tasks \ D : S[x] = T[x],
           \A x \in D : StopsAs(S[x], T[x]),
           ClosedBelow(T, D)
    PROVE  Good(S) /\ Fresh(S) /\ RoundsKept(S, T)
<1>0. /\ Typed(T)
      /\ \A x \in Tasks : T[x] \in TaskRecord /\ T[x].round \in Nat
      /\ \A x \in Tasks : S[x] \in TaskRecord
  <2>1. Typed(T) /\ \A x \in Tasks : T[x] \in TaskRecord
    BY DEF Good, Typed
  <2>2. \A x \in Tasks : T[x].round \in Nat
    BY <2>1 DEF TaskRecord
  <2>3. \A x \in D : S[x] \in TaskRecord
    BY DEF StopsAs
  <2> QED
    BY <2>1, <2>2, <2>3
<1>1. Typed(S) /\ \A x \in Tasks : S[x].round \in Nat
  BY <1>0 DEF Typed, TaskRecord
<1>2. ASSUME NEW x \in D PROVE StopsWaiting(S, T, x)
  <2>1. StopsAs(S[x], T[x]) /\ x \in Tasks
    BY <1>2
  <2>2. S[x].stopping # "no" => S[x].status = "failed" /\ S[x].round > 0
    BY <1>0, <1>1, <2>1 DEF StopsAs, Good, StopsWhenOver
  <2>3. IsLive(S[x]) /\ S[x].route # "routed" => S[x].round = 0
    BY <2>1 DEF StopsAs, Good, RoutedWhileLive
  <2> QED
    BY <2>1, <2>2, <2>3 DEF StopsWaiting, StopsAs
<1>3. Good(S)
  BY <1>1, <1>2, StepsDown
<1>4. SameTree(S, T)
  <2> SUFFICES ASSUME NEW x \in Tasks
               PROVE  /\ S[x].status = "unborn" <=> T[x].status = "unborn"
                      /\ S[x].caller = T[x].caller /\ S[x].key = T[x].key
                      /\ S[x].round \in Nat /\ S[x].round >= T[x].round
                      /\ S[x].round = T[x].round /\ S[x].action = "dispatch"
                             /\ S[x].route # "routed"
                            => T[x].action = "dispatch" /\ T[x].route # "routed"
                      /\ Unrouted(S[x]) /\ S[x].status # "completed"
                            => Unrouted(T[x]) /\ T[x].status # "completed"
    BY DEF SameTree
  <2>1. CASE x \notin D
    BY <1>0, <2>1
  <2>2. CASE x \in D
    BY <1>1, <2>2 DEF StopsAs, Unrouted, IsTerminal
  <2> QED
    BY <2>1, <2>2
<1> QED
  BY <1>0, <1>3, <1>4, SameTreeKeepsFresh, SameTreeKeepsRounds

LEMMA CancelOneStops ==
    ASSUME NEW r \in TaskRecord, r.status # "unborn", NEW x, NEW leased
    PROVE  StopsAs(CancelOne(r, x \in leased), r)
<1> DEFINE q == CancelOne(r, x \in leased)
<1>0. r.round \in Nat /\ r.round >= r.round
  BY DEF TaskRecord
<1>1. CASE q = [r EXCEPT !.cancelReq = TRUE] /\ r.status # "suspended"
  <2>1. /\ q \in TaskRecord /\ q.status = r.status /\ q.cancelReq
        /\ q.caller = r.caller /\ q.batch = r.batch /\ q.key = r.key
        /\ q.waitsFor = r.waitsFor /\ q.stopping = r.stopping /\ q.round = r.round
        /\ q.action = r.action /\ q.route = r.route
    BY <1>1 DEF TaskRecord
  <2> QED
    BY <1>0, <1>1, <2>1 DEF StopsAs, IsLive
<1>2. CASE q = r /\ IsTerminal(r)
  BY <1>0, <1>2 DEF StopsAs, IsLive, IsTerminal, Live, Terminal
<1>3. CASE q = Terminated(r) /\ ~IsTerminal(r)
  <2> HIDE DEF q
  <2>1. /\ q \in TaskRecord /\ q.status = "cancelled" /\ q.action = "cancelled"
        /\ q.waitsFor = {} /\ q.caller = r.caller /\ q.batch = r.batch
        /\ q.key = r.key /\ q.round = r.round /\ q.stopping = r.stopping
    BY <1>3, TerminatedRecord
  <2> QED
    BY <1>0, <1>3, <2>1 DEF StopsAs, IsLive, IsTerminal, Live, Terminal, q
<1>4. r.status = "suspended" => ~IsTerminal(r)
  BY DEF IsTerminal, Terminal
<1> QED
  BY <1>1, <1>2, <1>3, <1>4 DEF CancelOne

(* The descendants a cascade reaches are closed below it. *)
LEMMA BelowIsClosed ==
    ASSUME NEW T, NEW t, NEW S, NEW c \in S, T[c].caller \in Below(T, t, S) \union {t}
    PROVE  c \in Below(T, t, S)
<1> SUFFICES ASSUME NEW X \in SUBSET S, \A x \in S : T[x].caller \in X \union {t} => x \in X
             PROVE  c \in X
  BY DEF Below
<1>1. Below(T, t, S) \subseteq X
  BY DEF Below
<1> QED
  BY <1>1

LEMMA CancelKeepsGood ==
    ASSUME NEW T, NEW t \in Tasks, Good(T), Fresh(T), Continues(T[t]), NEW leased
    PROVE  LET S == CancelAll(T, {t} \union DispatchedDescendants(T, t), leased)
           IN  Good(S) /\ Fresh(S) /\ RoundsKept(S, T)
<1> DEFINE D == {t} \union DispatchedDescendants(T, t)
           S == CancelAll(T, D, leased)
<1>1. D \in SUBSET Tasks /\ \A x \in D : T[x].status # "unborn"
  BY DEF DispatchedDescendants, Below, Born, Continues, Live, Dispatching, DispatchFailed, Unsent
<1>2. ClosedBelow(T, D)
  <2> SUFFICES ASSUME NEW c \in Tasks, IsLive(T[c]), T[c].caller \in D
               PROVE  c \in D
    BY DEF ClosedBelow
  <2>1. c \in Born(T) /\ Continues(T[c])
    BY DEF Born, IsLive, Live, Continues
  <2>2. T[c].caller \in Below(T, t, Born(T)) \union {t}
    BY DEF DispatchedDescendants
  <2> QED
    BY <2>1, <2>2, BelowIsClosed DEF DispatchedDescendants
<1>3. /\ S = [x \in Tasks |-> S[x]]
      /\ \A x \in Tasks \ D : S[x] = T[x]
      /\ \A x \in D : S[x] = CancelOne(T[x], x \in leased)
  BY <1>1 DEF CancelAll
<1> HIDE DEF S, D
<1>4. \A x \in D : StopsAs(S[x], T[x])
  BY <1>1, <1>3, CancelOneStops DEF Good, Typed
<1> QED
  BY <1>1, <1>2, <1>3, <1>4, CascadeKeepsGood DEF S, D

LEMMA FailKeepsGood ==
    ASSUME NEW T, NEW t \in Tasks, Good(T), Fresh(T), IsLive(T[t]), NEW leased
    PROVE  LET F == [T EXCEPT ![t] = RouteReset(ApplyFailure(T[t]))]
               S == CancelAll(F, LiveDescendants(F, t), leased)
           IN  /\ Good(S) /\ Fresh(S) /\ RoundsKept(S, T)
               /\ S[t].status = "failed" /\ S[t].round > 0
<1> DEFINE q == RouteReset(ApplyFailure(T[t]))
           F == [T EXCEPT ![t] = q]
           below == LiveDescendants(F, t)
           D == {t} \union below
           S == CancelAll(F, below, leased)
<1>0. T \in [Tasks -> TaskRecord] /\ T[t].round \in Nat /\ T[t].status \in Live
  BY DEF Good, Typed, TaskRecord, IsLive
<1>1. /\ q \in TaskRecord /\ q.status = "failed" /\ q.action = "fail"
      /\ q.waitsFor = {} /\ q.caller = T[t].caller /\ q.batch = T[t].batch
      /\ q.key = T[t].key /\ q.round = T[t].round + 1 /\ q.stopping = T[t].stopping
  <2> DEFINE f == ApplyFailure(T[t])
  <2>1. /\ f \in TaskRecord /\ f.status = "failed" /\ f.action = "fail"
        /\ f.waitsFor = {} /\ f.caller = T[t].caller /\ f.batch = T[t].batch
        /\ f.key = T[t].key /\ f.round = T[t].round /\ f.stopping = T[t].stopping
    BY <1>0, FailedRecord
  <2> HIDE DEF f
  <2>2. /\ RouteReset(f) \in TaskRecord /\ RouteReset(f).status = "failed"
        /\ RouteReset(f).action = "fail" /\ RouteReset(f).waitsFor = {}
        /\ RouteReset(f).caller = T[t].caller /\ RouteReset(f).batch = T[t].batch
        /\ RouteReset(f).key = T[t].key /\ RouteReset(f).round = T[t].round + 1
        /\ RouteReset(f).stopping = T[t].stopping
    BY <2>1, RouteResetRecord
  <2> QED
    BY <2>2 DEF f
<1>2. F[t] = q /\ \A x \in Tasks \ {t} : F[x] = T[x]
  BY <1>0
<1>3. /\ D \in SUBSET Tasks
      /\ \A x \in D : T[x].status # "unborn"
      /\ t \notin below
  BY <1>0, <1>2 DEF LiveDescendants, Below, Continues, Live, Dispatching, DispatchFailed, Unsent
<1>4. ClosedBelow(T, D)
  <2> SUFFICES ASSUME NEW c \in Tasks \ {t}, IsLive(T[c]), T[c].caller \in D
               PROVE  c \in below
    BY DEF ClosedBelow
  <2>1. F[c] = T[c] /\ c \in {x \in Tasks : Continues(F[x])}
    BY <1>2 DEF Continues, IsLive
  <2>2. F[c].caller \in Below(F, t, {x \in Tasks : Continues(F[x])}) \union {t}
    BY <2>1 DEF LiveDescendants
  <2> HIDE DEF F
  <2>3. c \in Below(F, t, {x \in Tasks : Continues(F[x])})
    BY <2>1, <2>2, BelowIsClosed
  <2> QED
    BY <2>3 DEF LiveDescendants
<1> HIDE DEF F, q
<1>5. /\ S = [x \in Tasks |-> S[x]]
      /\ \A x \in Tasks \ D : S[x] = T[x]
      /\ \A x \in below : S[x] = CancelOne(T[x], x \in leased)
      /\ S[t] = q
  BY <1>2, <1>3 DEF CancelAll
<1> HIDE DEF S, below
<1>6. \A x \in below : StopsAs(S[x], T[x])
  BY <1>0, <1>3, <1>5, CancelOneStops
<1>7. StopsAs(S[t], T[t])
  BY <1>0, <1>1, <1>5 DEF StopsAs, IsLive, Live
<1>8. Good(S) /\ Fresh(S) /\ RoundsKept(S, T)
  BY <1>3, <1>4, <1>5, <1>6, <1>7, CascadeKeepsGood
<1> QED
  BY <1>0, <1>1, <1>5, <1>8 DEF S, below, F, q

-----------------------------------------------------------------------------
(* Steps that leave a note on one record. *)

NotedAs(q, r) ==
    /\ q \in TaskRecord /\ q.status = r.status /\ q.waitsFor = r.waitsFor /\ q.route = r.route
    /\ q.cancelReq = r.cancelReq /\ q.caller = r.caller /\ q.batch = r.batch
    /\ q.round = r.round /\ q.key = r.key /\ q.action = r.action
    /\ q.stopping # "no" => r.stopping # "no"

LEMMA NotedAsKeepsGood ==
    ASSUME NEW T, NEW t \in Tasks, Good(T), Fresh(T), NEW q, NotedAs(q, T[t])
    PROVE  LET S == [T EXCEPT ![t] = q] IN Good(S) /\ Fresh(S) /\ RoundsKept(S, T)
<1> DEFINE S == [T EXCEPT ![t] = q]
<1>0. T \in [Tasks -> TaskRecord] /\ \A x \in Tasks : T[x].round \in Nat
  BY DEF Good, Typed, TaskRecord
<1>1. /\ \A x \in Tasks \ {t} : S[x] = T[x]
      /\ S[t] = q /\ S \in [Tasks -> TaskRecord]
  BY <1>0 DEF NotedAs
<1>2. /\ q.cancelReq = T[t].cancelReq /\ q.caller = T[t].caller /\ q.batch = T[t].batch
      /\ q.round = T[t].round /\ q.key = T[t].key /\ q.action = T[t].action
      /\ q.status = T[t].status /\ q.waitsFor = T[t].waitsFor /\ q.route = T[t].route
  BY DEF NotedAs
<1>3. q.stopping \in {T[t].stopping, "no"} \/ (T[t].status = "failed" /\ T[t].round > 0)
  BY DEF NotedAs, Good, StopsWhenOver
<1> HIDE DEF S
<1>4. Good(S)
  BY <1>1, <1>2, <1>3, AlikeKeepsGood DEF Alike, Typed
<1>5. SameTree(S, T)
  BY <1>0, <1>1, <1>2 DEF SameTree, Unrouted, IsTerminal
<1> QED
  BY <1>0, <1>4, <1>5, SameTreeKeepsFresh, SameTreeKeepsRounds DEF S, Typed

(* A route that is done, or left to a thread. *)
LEMMA RouteNowKeepsConsistent ==
    ASSUME ~DiskFails, NEW T, NEW t \in Tasks, Consistent(task, threads),
           Good(T), Fresh(T), RoundsKept(T, task), IsTerminal(T[t]), T[t].round > 0,
           RouteNow(T, t)
    PROVE  Consistent(task', threads')
<1>1. CASE task' \in RouteCompletion(T, t) /\ UNCHANGED threads
  <2>1. Good(task') /\ Fresh(task') /\ RoundsKept(task', T)
    BY <1>1, RouteCompletionKeepsGood
  <2> QED
    BY <1>1, <2>1 DEF Consistent, RoundsKept
<1>2. CASE /\ threads[t] < MaxThreads
           /\ task' = T /\ threads' = [threads EXCEPT ![t] = @ + 1]
  <2>1. threads' \in [Tasks -> 0..MaxThreads]
    BY <1>2, BoundsAssumption DEF Consistent
  <2>2. \A x \in Tasks : task'[x].round = 0 => threads'[x] = 0
    BY <1>2 DEF Consistent, RoundsKept
  <2> QED
    BY <1>2, <2>1, <2>2 DEF Consistent
<1> QED
  BY <1>1, <1>2 DEF RouteNow

LEMMA SameThreadsConsistent ==
    ASSUME NEW T, NEW H, Consistent(T, H), NEW S, Good(S), Fresh(S), RoundsKept(S, T)
    PROVE  Consistent(S, H)
  BY DEF Consistent, RoundsKept

(* One thread more for a completion that has been reported. *)
LEMMA OneMoreThreadConsistent ==
    ASSUME NEW T, NEW H, Consistent(T, H), NEW S, Good(S), Fresh(S), RoundsKept(S, T),
           NEW t \in Tasks, H[t] < MaxThreads, S[t].round # 0
    PROVE  Consistent(S, [H EXCEPT ![t] = @ + 1])
<1>1. [H EXCEPT ![t] = @ + 1] \in [Tasks -> 0..MaxThreads]
  BY BoundsAssumption DEF Consistent
<1> QED
  BY <1>1 DEF Consistent, RoundsKept

LEMMA ReportKeepsInv ==
    ASSUME Inv, NEW t \in Tasks,
           NEW result \in {"finish", "dispatch", "fail", "cancelled"}, Report(t, result)
    PROVE  Inv'
<1> DEFINE ended == CASE result = "fail" -> "failed"
                      [] result = "cancelled" -> "cancelled"
                      [] OTHER -> "completed"
           r == [task[t] EXCEPT !.action = result]
<1>0. /\ task \in [Tasks -> TaskRecord] /\ task[t] \in TaskRecord /\ task[t].round \in Nat
      /\ Good(task) /\ Fresh(task) /\ task[t].status = "running"
  BY DEF Inv, Consistent, Good, Typed, Report, TaskRecord
<1>1. ended \in Terminal /\ (result = "dispatch" => ended = "completed")
  BY DEF Terminal
<1> HIDE DEF ended
<1>2. ClosedBelow(task, {t})
  BY <1>0 DEF ClosedBelow
<1>3. CASE task[t].cancelReq
  <2> DEFINE q == [r EXCEPT !.status = "cancelled", !.route = "routed", !.graceOver = FALSE]
             U == [task EXCEPT ![t] = q]
  <2>1. task' = SettleChild(U, t) /\ UNCHANGED threads
    BY <1>3 DEF Report
  <2>2. StopsAs(q, task[t]) /\ ~IsLive(q)
    <3>1. /\ q \in TaskRecord /\ q.status = "cancelled" /\ q.route = "routed"
          /\ q.caller = task[t].caller /\ q.batch = task[t].batch /\ q.key = task[t].key
          /\ q.waitsFor = task[t].waitsFor /\ q.stopping = task[t].stopping
          /\ q.round = task[t].round
      BY <1>0 DEF TaskRecord, Terminal
    <3> QED
      BY <1>0, <3>1 DEF StopsAs, IsLive, Live
  <2>3. U[t] = q /\ U = [x \in Tasks |-> U[x]] /\ \A x \in Tasks \ {t} : U[x] = task[x]
    BY <1>0
  <2> HIDE DEF U, q
  <2>4. Good(U) /\ Fresh(U) /\ RoundsKept(U, task)
    BY <1>0, <1>2, <2>2, <2>3, CascadeKeepsGood
  <2>5. Good(task') /\ SameCompletions(task', U)
    BY <2>1, <2>2, <2>3, <2>4, SettleChildKeepsGood
  <2>6. Fresh(task') /\ RoundsKept(task', task)
    BY <2>4, <2>5, SameCompletionsIsSameTree, SameTreeKeepsFresh
       DEF Good, SameCompletions, RoundsKept
  <2> QED
    BY <2>1, <2>5, <2>6, SameThreadsConsistent DEF Inv
<1>4. CASE ~task[t].cancelReq
  <2> DEFINE e == [r EXCEPT !.status = ended]
             q == RouteReset(e)
             U == [task EXCEPT ![t] = q]
  <2>1. /\ task' = U /\ threads' = [threads EXCEPT ![t] = @ + 1]
        /\ threads[t] < MaxThreads
    BY <1>4 DEF Report, ended
  <2>2. /\ e \in TaskRecord /\ e.status = ended /\ e.action = result
        /\ e.caller = task[t].caller /\ e.batch = task[t].batch /\ e.key = task[t].key
        /\ e.waitsFor = task[t].waitsFor /\ e.stopping = task[t].stopping
        /\ e.round = task[t].round
    BY <1>0, <1>1 DEF TaskRecord
  <2> HIDE DEF e
  <2>3. /\ q \in TaskRecord /\ q.status = ended /\ q.action = result
        /\ q.caller = task[t].caller /\ q.batch = task[t].batch /\ q.key = task[t].key
        /\ q.waitsFor = task[t].waitsFor /\ q.stopping = task[t].stopping
        /\ q.round = task[t].round + 1
    BY <2>2, RouteResetRecord
  <2>4. U[t] = q /\ U = [x \in Tasks |-> U[x]] /\ \A x \in Tasks \ {t} : U[x] = task[x]
    BY <1>0
  <2> HIDE DEF U, q
  <2>5. StopsAs(q, task[t])
    BY <1>0, <1>1, <2>3 DEF StopsAs, IsLive, Live, Terminal
  <2>6. Good(U) /\ Fresh(U) /\ RoundsKept(U, task)
    BY <1>0, <1>2, <2>4, <2>5, CascadeKeepsGood
  <2>7. U[t].round # 0
    BY <1>0, <2>3, <2>4
  <2> QED
    BY <2>1, <2>6, <2>7, OneMoreThreadConsistent DEF Inv
<1> QED
  BY <1>3, <1>4

LEMMA FailTaskKeepsInv ==
    ASSUME ~DiskFails, Inv, NEW t \in Tasks, FailTask(t)
    PROVE  Inv'
<1> DEFINE F == [task EXCEPT ![t] = RouteReset(ApplyFailure(task[t]))]
<1>1. PICK leased \in SUBSET {x \in Tasks : task[x].status = "running"} :
         LET T == CancelAll(F, LiveDescendants(F, t), leased)
         IN IF t \in leased
            THEN /\ task' = [T EXCEPT ![t].stopping = "yes", ![t].watched = TRUE]
                 /\ UNCHANGED threads
            ELSE RouteNow(T, t)
  BY DEF FailTask
<1> DEFINE T == CancelAll(F, LiveDescendants(F, t), leased)
<1>2. /\ Good(T) /\ Fresh(T) /\ RoundsKept(T, task)
      /\ T[t].status = "failed" /\ T[t].round > 0
  BY FailKeepsGood DEF FailTask, Inv, Consistent, IsLive
<1>3. /\ t \in leased => /\ task' = [T EXCEPT ![t].stopping = "yes", ![t].watched = TRUE]
                         /\ UNCHANGED threads
      /\ t \notin leased => RouteNow(T, t)
  BY <1>1
<1> HIDE DEF T
<1>4. CASE t \in leased
  <2>1. Typed(T) /\ T \in [Tasks -> TaskRecord] /\ T[t] \in TaskRecord
    BY <1>2 DEF Good, Typed
  <2> DEFINE q == [T[t] EXCEPT !.stopping = "yes", !.watched = TRUE]
  <2>2. task' = [T EXCEPT ![t] = q] /\ UNCHANGED threads
    BY <1>3, <1>4, <2>1
  <2>3. /\ q \in TaskRecord /\ q.status = T[t].status
        /\ q.waitsFor = T[t].waitsFor /\ q.route = T[t].route
    BY <2>1 DEF TaskRecord
  <2>4. Good(task') /\ SameTree(task', T)
    <3>1. /\ q.cancelReq = T[t].cancelReq /\ q.caller = T[t].caller /\ q.batch = T[t].batch
          /\ q.round = T[t].round /\ q.key = T[t].key /\ q.action = T[t].action
      BY <2>1 DEF TaskRecord
    <3> HIDE DEF q
    <3>2. task'[t] = q /\ task' \in [Tasks -> TaskRecord] /\ \A x \in Tasks \ {t} : task'[x] = T[x]
      BY <2>1, <2>2, <2>3
    <3>3. Good(task')
      BY <1>2, <2>3, <3>1, <3>2, AlikeKeepsGood DEF Alike, Typed
    <3>4. \A x \in Tasks : T[x].round \in Nat
      BY <2>1 DEF TaskRecord
    <3> QED
      BY <2>3, <3>1, <3>2, <3>3, <3>4 DEF SameTree, Unrouted, IsTerminal
  <2>5. Fresh(task') /\ RoundsKept(task', T)
    BY <1>2, <2>1, <2>4, SameTreeKeepsFresh, SameTreeKeepsRounds
  <2> QED
    BY <1>2, <2>2, <2>4, <2>5, SameThreadsConsistent DEF Inv, RoundsKept
<1>5. CASE t \notin leased
  <2>1. IsTerminal(T[t])
    BY <1>2 DEF IsTerminal, Terminal
  <2> QED
    BY <1>2, <1>3, <1>5, <2>1, RouteNowKeepsConsistent DEF Inv
<1> QED
  BY <1>4, <1>5

LEMMA StartKeepsInv ==
    ASSUME Inv, NEW t \in Tasks, Start(t)
    PROVE  Inv'
<1> DEFINE q == [task[t] EXCEPT !.status = "running"]
<1>0. /\ task \in [Tasks -> TaskRecord] /\ task[t] \in TaskRecord /\ Typed(task)
      /\ Good(task) /\ Fresh(task) /\ task[t].status = "pending" /\ ~task[t].cancelReq
      /\ \A x \in Tasks : task[x].round \in Nat
  BY DEF Inv, Consistent, Good, Typed, Start, TaskRecord
<1>1. /\ q \in TaskRecord /\ SameRecord(q, task[t]) /\ q.status = "running"
      /\ q.waitsFor = task[t].waitsFor /\ q.route = task[t].route
  BY <1>0 DEF TaskRecord, SameRecord, Live
<1>2. /\ task' = [task EXCEPT ![t] = q] /\ threads' = threads
  BY <1>0 DEF Start
<1> HIDE DEF q
<1>3. /\ task'[t] = q /\ task' \in [Tasks -> TaskRecord]
      /\ \A x \in Tasks \ {t} : task'[x] = task[x]
  BY <1>0, <1>1, <1>2
<1>4. IsLive(task[t])
  BY <1>0 DEF IsLive, Live
<1>5. task'[t].cancelReq \/ task'[t].caller = NoTask \/ CallerWaits(task', t)
  <2>1. task[t].caller = NoTask \/ CallerWaits(task, t)
    BY <1>0, <1>4 DEF Good, NoOrphans
  <2>2. CASE CallerWaits(task, t)
    <3>1. task[t].caller \in Tasks \ {t}
      BY <1>0, <2>2 DEF CallerWaits, CanResume, TaskRecord
    <3> QED
      BY <1>1, <1>3, <2>2, <3>1 DEF CallerWaits, SameRecord
  <2> QED
    BY <1>1, <1>3, <2>1, <2>2 DEF SameRecord
<1>6. StopsWaiting(task', task, t)
  <2>1. task'[t].stopping # "no" => FALSE
    BY <1>0, <1>1, <1>3 DEF Good, StopsWhenOver, SameRecord
  <2>2. task'[t].route # "routed" => task'[t].round = 0
    BY <1>0, <1>1, <1>3, <1>4 DEF Good, RoutedWhileLive, SameRecord
  <2> QED
    BY <1>0, <1>1, <1>3, <1>5, <2>1, <2>2 DEF StopsWaiting, SameRecord
<1>7. ClosedBelow(task, {t})
  BY <1>0 DEF ClosedBelow
<1>8. Good(task')
  BY <1>0, <1>3, <1>6, <1>7, StepsDown DEF Typed
<1>9. SameTree(task', task)
  BY <1>0, <1>1, <1>3 DEF SameTree, SameRecord, Unrouted, IsTerminal, Terminal
<1> QED
  BY <1>0, <1>2, <1>8, <1>9, SameTreeKeepsFresh, SameTreeKeepsRounds, SameThreadsConsistent
     DEF Inv

LEMMA CancelKeepsInv ==
    ASSUME Inv, NEW t \in Tasks, Cancel(t)
    PROVE  Inv'
<1>1. PICK leased \in SUBSET {x \in Tasks : task[x].status = "running"} :
         LET T == CancelAll(task, {t} \union DispatchedDescendants(task, t), leased)
         IN task' = IF T[t].status = "cancelled" THEN SettleChild(T, t) ELSE T
  BY DEF Cancel
<1> DEFINE T == CancelAll(task, {t} \union DispatchedDescendants(task, t), leased)
<1>2. Good(T) /\ Fresh(T) /\ RoundsKept(T, task)
  BY CancelKeepsGood DEF Cancel, Inv, Consistent
<1>3. task' = IF T[t].status = "cancelled" THEN SettleChild(T, t) ELSE T
  BY <1>1
<1> HIDE DEF T
<1>4. Good(task') /\ Fresh(task') /\ RoundsKept(task', T)
  <2>1. CASE T[t].status = "cancelled"
    <3>1. ~IsLive(T[t])
      BY <2>1 DEF IsLive, Live
    <3>2. Good(task') /\ SameCompletions(task', T)
      BY <1>2, <1>3, <2>1, <3>1, SettleChildKeepsGood
    <3> QED
      BY <1>2, <3>2, SameCompletionsIsSameTree, SameTreeKeepsFresh
         DEF Good, SameCompletions, RoundsKept
  <2>2. CASE T[t].status # "cancelled"
    BY <1>2, <1>3, <2>2 DEF RoundsKept
  <2> QED
    BY <2>1, <2>2
<1>5. threads' = threads
  BY DEF Cancel
<1> QED
  BY <1>2, <1>4, <1>5, SameThreadsConsistent DEF Inv, RoundsKept

LEMMA RouteCompletedKeepsInv ==
    ASSUME ~DiskFails, Inv, NEW t \in Tasks, RouteCompleted(t)
    PROVE  Inv'
<1>0. /\ task \in [Tasks -> TaskRecord] /\ task[t] \in TaskRecord
      /\ threads \in [Tasks -> 0..MaxThreads] /\ threads[t] > 0
      /\ Good(task) /\ Fresh(task) /\ task[t].round # 0
  BY DEF Inv, Consistent, Good, Typed, RouteCompleted
<1>1. CASE /\ task' \in RouteCompletion(task, t)
           /\ threads' = [threads EXCEPT ![t] = @ - 1]
  <2>1. task[t].route = "routed" \/ IsTerminal(task[t])
    BY <1>0 DEF Good, RoutedWhileLive, UnbornIsNew, IsLive, IsTerminal, TaskRecord
  <2>2. Good(task') /\ Fresh(task') /\ RoundsKept(task', task)
    BY <1>0, <1>1, <2>1, RouteCompletionKeepsGood
  <2>3. threads' \in [Tasks -> 0..MaxThreads]
    BY <1>0, <1>1, BoundsAssumption
  <2>4. \A x \in Tasks : threads[x] = 0 => threads'[x] = 0
    BY <1>0, <1>1
  <2> QED
    BY <2>2, <2>3, <2>4 DEF Inv, Consistent, RoundsKept
<1>2. CASE /\ task[t].status = "completed"
           /\ task' = [task EXCEPT ![t] = ApplyFailure(@)] /\ UNCHANGED threads
  <2>1. task' = [task EXCEPT ![t] = ApplyFailure(task[t])] /\ threads' = threads
    BY <1>2
  <2>2. Good(task') /\ SameTree(task', task)
    <3> DEFINE q == ApplyFailure(task[t])
    <3>1. EndedAs(q, task[t])
      BY <1>0, FailedIsEnded
    <3>2. task' = [task EXCEPT ![t] = q]
      BY <2>1
    <3> HIDE DEF q
    <3>3. Good([task EXCEPT ![t] = q]) /\ SameTree([task EXCEPT ![t] = q], task)
      BY <1>0, <1>2, <3>1, EndedAloneKeepsGood
    <3> QED
      BY <3>2, <3>3
  <2> QED
    BY <1>0, <2>1, <2>2, SameTreeKeepsFresh, SameTreeKeepsRounds, SameThreadsConsistent
       DEF Inv, Good
<1> QED
  BY <1>1, <1>2 DEF RouteCompleted

(* StopReported, ItemTimesOut and the two timers note one thing each. *)
LEMMA NotesKeepGood ==
    ASSUME Inv, NEW t \in Tasks,
           NEW q \in {[task[t] EXCEPT !.stopping = "no"],
                      [task[t] EXCEPT !.watched = FALSE, !.stopping = "no"],
                      [task[t] EXCEPT !.timedOut = TRUE], [task[t] EXCEPT !.graceOver = TRUE]}
                \union (IF task[t].stopping = "yes"
                        THEN {[task[t] EXCEPT !.stopping = "over"]} ELSE {})
    PROVE  LET S == [task EXCEPT ![t] = q] IN
           /\ Good(S) /\ Fresh(S) /\ RoundsKept(S, task)
           /\ S[t].status = task[t].status /\ S[t].round = task[t].round
<1>0. task[t] \in TaskRecord /\ Good(task) /\ Fresh(task) /\ task \in [Tasks -> TaskRecord]
  BY DEF Inv, Consistent, Good, Typed
<1>1. NotedAs(q, task[t])
  <2>1. CASE q = [task[t] EXCEPT !.stopping = "no"]
    BY <1>0, <2>1 DEF NotedAs, TaskRecord
  <2>2. CASE q = [task[t] EXCEPT !.watched = FALSE, !.stopping = "no"]
    <3>1. /\ q \in TaskRecord /\ q.stopping = "no"
          /\ q.status = task[t].status /\ q.waitsFor = task[t].waitsFor
          /\ q.route = task[t].route /\ q.cancelReq = task[t].cancelReq
          /\ q.caller = task[t].caller /\ q.batch = task[t].batch
          /\ q.round = task[t].round /\ q.key = task[t].key /\ q.action = task[t].action
      BY <1>0, <2>2 DEF TaskRecord
    <3> QED
      BY <3>1 DEF NotedAs
  <2>3. CASE q = [task[t] EXCEPT !.timedOut = TRUE]
    BY <1>0, <2>3 DEF NotedAs, TaskRecord
  <2>4. CASE q = [task[t] EXCEPT !.graceOver = TRUE]
    BY <1>0, <2>4 DEF NotedAs, TaskRecord
  <2>5. CASE task[t].stopping = "yes" /\ q = [task[t] EXCEPT !.stopping = "over"]
    BY <1>0, <2>5 DEF NotedAs, TaskRecord
  <2> QED
    BY <2>1, <2>2, <2>3, <2>4, <2>5
<1>2. q.status = task[t].status /\ q.round = task[t].round
  BY <1>1 DEF NotedAs
<1> QED
  BY <1>0, <1>1, <1>2, NotedAsKeepsGood

LEMMA TimersKeepInv ==
    ASSUME Inv, NEW t \in Tasks,
           ItemTimesOut(t) \/ StopGracePasses(t) \/ TransitGracePasses(t)
    PROVE  Inv'
<1>0. task \in [Tasks -> TaskRecord]
  BY DEF Inv, Consistent, Good, Typed
<1>1. CASE ItemTimesOut(t)
  <2>1. task' = [task EXCEPT ![t] = [task[t] EXCEPT !.timedOut = TRUE]] /\ threads' = threads
    BY <1>0, <1>1 DEF ItemTimesOut
  <2> QED
    BY <2>1, NotesKeepGood, SameThreadsConsistent DEF Inv
<1>2. CASE StopGracePasses(t)
  <2>1. /\ task' = [task EXCEPT ![t] = [task[t] EXCEPT !.stopping = "over"]]
        /\ threads' = threads /\ task[t].stopping = "yes"
    BY <1>0, <1>2 DEF StopGracePasses
  <2> QED
    BY <2>1, NotesKeepGood, SameThreadsConsistent DEF Inv
<1>3. CASE TransitGracePasses(t)
  <2>1. task' = [task EXCEPT ![t] = [task[t] EXCEPT !.graceOver = TRUE]] /\ threads' = threads
    BY <1>0, <1>3 DEF TransitGracePasses
  <2> QED
    BY <2>1, NotesKeepGood, SameThreadsConsistent DEF Inv
<1> QED
  BY <1>1, <1>2, <1>3

LEMMA StopReportedKeepsInv ==
    ASSUME Inv, NEW t \in Tasks, StopReported(t)
    PROVE  Inv'
<1>0. task \in [Tasks -> TaskRecord] /\ Good(task)
  BY DEF Inv, Consistent, Good, Typed
<1> DEFINE S == [task EXCEPT ![t] = [task[t] EXCEPT !.stopping = "no"]]
<1>1. task' = S
  BY <1>0 DEF StopReported
<1>2. Good(S) /\ Fresh(S) /\ RoundsKept(S, task) /\ S[t].round = task[t].round
  BY NotesKeepGood
<1> HIDE DEF S
<1>3. S[t].round # 0
  BY <1>0, <1>2 DEF StopReported, Good, StopsWhenOver
<1>4. CASE threads' = threads
  BY <1>1, <1>2, <1>4, SameThreadsConsistent DEF Inv
<1>5. CASE threads[t] < MaxThreads /\ threads' = [threads EXCEPT ![t] = @ + 1]
  BY <1>1, <1>2, <1>3, <1>5, OneMoreThreadConsistent DEF Inv
<1> QED
  BY <1>4, <1>5 DEF StopReported

LEMMA TransitCheckKeepsInv ==
    ASSUME ~DiskFails, Inv, NEW t \in Tasks, TransitCheck(t)
    PROVE  Inv'
<1>0. task \in [Tasks -> TaskRecord] /\ Good(task)
  BY DEF Inv, Consistent, Good, Typed
<1> DEFINE T == [task EXCEPT ![t].watched = FALSE, ![t].stopping = "no"]
<1>1. T = [task EXCEPT ![t] = [task[t] EXCEPT !.watched = FALSE, !.stopping = "no"]]
  BY <1>0
<1>2. /\ Good(T) /\ Fresh(T) /\ RoundsKept(T, task)
      /\ T[t].status = task[t].status /\ T[t].round = task[t].round
  BY <1>1, NotesKeepGood, ZenonT(60)
<1>3. IF task[t].stopping = "over" /\ task[t].route # "routed"
      THEN RouteNow(T, t)
      ELSE task' = TransitEnded(T, t) /\ UNCHANGED threads
  BY DEF TransitCheck
<1> HIDE DEF T
<1>4. CASE task[t].stopping = "over" /\ task[t].route # "routed"
  <2>1. task[t].status = "failed" /\ task[t].round > 0
    BY <1>0, <1>4 DEF Good, StopsWhenOver
  <2> QED
    BY <1>2, <1>3, <1>4, <2>1, RouteNowKeepsConsistent DEF Inv, IsTerminal, Terminal
<1>5. CASE task' = TransitEnded(T, t) /\ UNCHANGED threads
  <2>1. Good(task') /\ SameCompletions(task', T)
    BY <1>2, <1>5, TransitEndedKeepsGood
  <2>2. Fresh(task') /\ RoundsKept(task', task)
    BY <1>2, <2>1, SameCompletionsIsSameTree, SameTreeKeepsFresh
       DEF Good, SameCompletions, RoundsKept
  <2> QED
    BY <1>5, <2>1, <2>2, SameThreadsConsistent DEF Inv
<1> QED
  BY <1>3, <1>4, <1>5

-----------------------------------------------------------------------------
LEMMA InitGivesInv == Init => Inv
<1> SUFFICES ASSUME Init PROVE Inv
  OBVIOUS
<1>1. /\ task = [x \in Tasks |-> task[x]]
      /\ \A x \in Tasks :
            /\ task[x] \in TaskRecord /\ task[x].status \in {"pending", "unborn"}
            /\ task[x].action = "none" /\ task[x].caller = NoTask /\ task[x].waitsFor = {}
            /\ task[x].round = 0 /\ task[x].stopping = "no"
            /\ ~task[x].cancelReq
      /\ threads = [x \in Tasks |-> 0]
  BY DEF Init, TaskRecord, Live
<1>2. Typed(task)
  BY <1>1, TypedPointwise
<1>3. Good(task)
  BY <1>1, <1>2 DEF Good, Calm, WaitsForChildren, NoOrphans, RoutedWhileLive,
                    StopsWhenOver, UnbornIsNew
<1>4. Fresh(task)
  BY <1>1, RootAssumption DEF Fresh, Unrouted
<1>5. threads \in [Tasks -> 0..MaxThreads]
  BY <1>1, BoundsAssumption
<1> QED
  BY <1>1, <1>3, <1>4, <1>5 DEF Inv, Consistent

LEMMA NextKeepsInv ==
    ASSUME ~DiskFails, Inv, [Next]_vars
    PROVE  Inv'
<1>1. CASE UNCHANGED vars
  BY <1>1 DEF vars, Inv
<1>2. CASE Next
  <2>1. PICK t \in Tasks :
        \/ Start(t)
        \/ \E result \in {"finish", "dispatch", "fail", "cancelled"} : Report(t, result)
        \/ ReportAgain(t) \/ StopReported(t)
        \/ RouteCompleted(t)
        \/ Fail(t) \/ ItemTimesOut(t) \/ Cancel(t)
        \/ StopGracePasses(t) \/ TransitGracePasses(t) \/ TransitCheck(t)
    BY <1>2 DEF Next
  <2>2. CASE Start(t)
    BY <2>2, StartKeepsInv
  <2>3. CASE \E result \in {"finish", "dispatch", "fail", "cancelled"} : Report(t, result)
    BY <2>3, ReportKeepsInv
  <2>4. CASE ReportAgain(t)
    <3>1. /\ threads[t] < MaxThreads /\ threads' = [threads EXCEPT ![t] = @ + 1]
          /\ task' = task /\ task[t].round # 0
      BY <2>4 DEF ReportAgain
    <3>2. RoundsKept(task, task)
      BY DEF RoundsKept
    <3> QED
      BY <3>1, <3>2, OneMoreThreadConsistent DEF Inv, Consistent
  <2>5. CASE StopReported(t)
    BY <2>5, StopReportedKeepsInv
  <2>6. CASE RouteCompleted(t)
    BY <2>6, RouteCompletedKeepsInv
  <2>7. CASE Fail(t)
    BY <2>7, FailTaskKeepsInv DEF Fail
  <2>8. CASE Cancel(t)
    BY <2>8, CancelKeepsInv
  <2>9. CASE ItemTimesOut(t) \/ StopGracePasses(t) \/ TransitGracePasses(t)
    BY <2>9, TimersKeepInv
  <2>10. CASE TransitCheck(t)
    BY <2>10, TransitCheckKeepsInv
  <2> QED
    BY <2>1, <2>2, <2>3, <2>4, <2>5, <2>6, <2>7, <2>8, <2>9, <2>10
<1> QED
  BY <1>1, <1>2

(* The invariant holds of every state, as long as the event log can be written. *)
THEOREM InvAlways == ~DiskFails /\ Spec => []Inv
<1>1. ASSUME ~DiskFails PROVE Inv /\ [Next]_vars => Inv'
  BY <1>1, NextKeepsInv
<1>2. ~DiskFails => (Inv /\ [Next]_vars => Inv')
  BY <1>1
<1>3. CASE ~DiskFails
  BY <1>2, <1>3, InitGivesInv, PTL DEF Spec
<1>4. CASE DiskFails
  BY <1>4
<1> QED
  BY <1>3, <1>4

(* Every record keeps its type, and there are never more routing threads than *)
(* the bound.                                                               *)
THEOREM TypeCorrect == ~DiskFails /\ Spec => []TypeOK
<1>1. Inv => TypeOK
  BY DEF Inv, Consistent, Good, Typed, TypeOK
<1> QED
  BY <1>1, InvAlways, PTL

(* No task works for a caller that does not wait for it, unless it has been    *)
(* told to stop: whatever fails, is reaped, cancelled, timed out or retried,  *)
(* and however deep the tree is, as long as the event log can be written.    *)
THEOREM NoWorkForNobody == ~DiskFails /\ Spec => []NoOrphanWork
<1>1. Inv => NoOrphanWork
  BY DEF Inv, Consistent, Good, NoOrphans, NoOrphanWork, IsLive
<1> QED
  BY <1>1, InvAlways, PTL

-----------------------------------------------------------------------------
(* What a caller is told, and who is suspended. *)

(* What a step makes of the records T, the sending of a dispatch aside: nobody *)
(* comes to wait, what is over stays over with its outcome, and a result is   *)
(* handed over once, when it is final, to the caller that waits for it.      *)
Follows(S, T) ==
    \A x \in Tasks :
        /\ S[x].status = "suspended" => T[x].status = "suspended"
        /\ S[x].waitsFor = T[x].waitsFor \/ S[x].waitsFor = {}
        /\ IsTerminal(T[x]) => IsTerminal(S[x]) /\ Outcome(S[x]) = Outcome(T[x])
        /\ S[x].told # T[x].told
              => /\ \E p \in Tasks : x \in T[p].waitsFor
                 /\ IsTerminal(S[x]) /\ S[x].told = Outcome(S[x])
                 /\ \A p \in Tasks : x \notin S[p].waitsFor

(* What was told about a task is its outcome, and nobody waits for it any more. *)
ToldOnce(T) ==
    \A x \in Tasks : T[x].told # "nothing" =>
        /\ IsTerminal(T[x]) /\ T[x].told = Outcome(T[x]) /\ T[x].caller # NoTask
        /\ \A p \in Tasks : x \notin T[p].waitsFor

SameCallers(S, T) ==
    \A x \in Tasks : T[x].status # "unborn" => S[x].caller = T[x].caller

StaysTold(S, T) ==
    \A x \in Tasks : T[x].told # "nothing" =>
        /\ IsTerminal(S[x]) /\ S[x].told = T[x].told /\ Outcome(S[x]) = T[x].told

LEMMA FollowsOn ==
    ASSUME NEW T, NEW U, NEW S, Follows(U, T), Follows(S, U)
    PROVE  Follows(S, T)
<1> SUFFICES ASSUME NEW x \in Tasks
             PROVE  /\ S[x].status = "suspended" => T[x].status = "suspended"
                    /\ S[x].waitsFor = T[x].waitsFor \/ S[x].waitsFor = {}
                    /\ IsTerminal(T[x]) => IsTerminal(S[x]) /\ Outcome(S[x]) = Outcome(T[x])
                    /\ S[x].told # T[x].told
                          => /\ \E p \in Tasks : x \in T[p].waitsFor
                             /\ IsTerminal(S[x]) /\ S[x].told = Outcome(S[x])
                             /\ \A p \in Tasks : x \notin S[p].waitsFor
  BY DEF Follows
<1>1. \A p \in Tasks : /\ x \in U[p].waitsFor => x \in T[p].waitsFor
                      /\ x \in S[p].waitsFor => x \in U[p].waitsFor
  BY DEF Follows
<1>2. CASE S[x].told # U[x].told
  BY <1>1, <1>2 DEF Follows
<1>3. CASE S[x].told = U[x].told
  BY <1>1, <1>3 DEF Follows
<1> QED
  BY <1>2, <1>3

LEMMA FollowsKeepsTold ==
    ASSUME NEW T, NEW S, Good(T), ToldOnce(T), Follows(S, T), SameCallers(S, T)
    PROVE  ToldOnce(S) /\ StaysTold(S, T)
<1>1. \A x \in Tasks : T[x].told # "nothing" =>
        /\ S[x].told = T[x].told /\ IsTerminal(S[x]) /\ Outcome(S[x]) = T[x].told
        /\ \A p \in Tasks : x \notin S[p].waitsFor
  BY DEF ToldOnce, Follows
<1>2. \A x \in Tasks : T[x].told # "nothing" => S[x].caller = T[x].caller
  BY DEF ToldOnce, SameCallers, IsTerminal, Terminal
<1>3. ASSUME NEW x \in Tasks, S[x].told # "nothing", T[x].told = "nothing"
      PROVE  /\ IsTerminal(S[x]) /\ S[x].told = Outcome(S[x]) /\ S[x].caller # NoTask
             /\ \A p \in Tasks : x \notin S[p].waitsFor
  <2>1. S[x].told # T[x].told
    BY <1>3
  <2>2. PICK p \in Tasks : x \in T[p].waitsFor
    BY <2>1 DEF Follows
  <2>3. T[x].status # "unborn" /\ T[x].caller = p
    BY <2>2 DEF Good, WaitsForChildren
  <2>4. S[x].caller # NoTask
    BY <2>3, RootAssumption DEF SameCallers
  <2> QED
    BY <2>1, <2>4 DEF Follows
<1>4. ToldOnce(S)
  BY <1>1, <1>2, <1>3 DEF ToldOnce
<1> QED
  BY <1>1, <1>4 DEF StaysTold

(* A record that follows another, nothing being told about it. *)
Succeeds(q, r) ==
    /\ q.status = "suspended" => r.status = "suspended"
    /\ q.waitsFor = r.waitsFor \/ q.waitsFor = {}
    /\ IsTerminal(r) => IsTerminal(q) /\ Outcome(q) = Outcome(r)
    /\ q.told = r.told

LEMMA RecordsFollow ==
    ASSUME NEW T, NEW S, \A x \in Tasks : S[x] = T[x] \/ Succeeds(S[x], T[x])
    PROVE  Follows(S, T)
  BY DEF Follows, Succeeds

(* What the operators on one record leave alone. *)
SameNotes(q, r) == q.told = r.told /\ q.watched = r.watched

LEMMA NotesStay ==
    ASSUME NEW r \in TaskRecord, NEW K
    PROVE  /\ SameNotes(Requeued(r), r) /\ SameNotes(Routed(r), r)
           /\ SameNotes(RouteFailed(r), r) /\ SameNotes(Suspended(r, K), r)
           /\ SameNotes(ApplyFailure(r), r) /\ SameNotes(Terminated(r), r)
           /\ SameNotes(RouteReset(r), r)
<1>1. SameNotes(Requeued(r), r) /\ SameNotes(Routed(r), r) /\ SameNotes(RouteFailed(r), r)
  BY DEF TaskRecord, Requeued, Routed, RouteFailed, SameNotes
<1>2. SameNotes(Suspended(r, K), r) /\ SameNotes(ApplyFailure(r), r)
  BY DEF TaskRecord, Suspended, ApplyFailure, SameNotes
<1>3. SameNotes(Terminated(r), r) /\ SameNotes(RouteReset(r), r)
  BY DEF TaskRecord, Terminated, RouteReset, SameNotes
<1> QED
  BY <1>1, <1>2, <1>3

LEMMA HandedOverNotes ==
    ASSUME NEW r \in TaskRecord
    PROVE  /\ HandedOver(r).told = Outcome(r) /\ HandedOver(r).watched = r.watched
           /\ Outcome(HandedOver(r)) = Outcome(r)
           /\ Watched(r).told = r.told /\ Watched(r).watched = TRUE
  BY DEF TaskRecord, HandedOver, Watched, Outcome

-----------------------------------------------------------------------------
(* What wakes a batch. *)

(* H threads are on their way: x is alive, looked at, or about to be routed. *)
Waker(T, H, x) ==
    \/ IsLive(T[x]) \/ T[x].watched
    \/ H[x] > 0 /\ T[x].route # "routed"

(* If p waits for a batch, one of its items, A aside, wakes it. *)
Awake(T, H, p, A) ==
    T[p].status = "suspended" /\ (\E x \in T[p].waitsFor : T[x].batch)
        => \E x \in T[p].waitsFor \ A : Waker(T, H, x)

AllAwake(T, H) == \A p \in Tasks : Awake(T, H, p, {})

(* Every batch has a waker, but the one t is an item of may have lost it. *)
AwakeBut(T, H, t) == \A p \in Tasks : t \notin T[p].waitsFor => Awake(T, H, p, {})

(* Every batch has a waker other than t. *)
AwakeWithout(T, H, t) == \A p \in Tasks : Awake(T, H, p, {t})

(* Nobody comes to wait, and what is alive, watched or unrouted stays so, A aside. *)
KeepsWakers(S, T, A) ==
    \A x \in Tasks :
        /\ T[x].status # "unborn" => S[x].batch = T[x].batch
        /\ x \notin A =>
              /\ S[x].status = "suspended"
                    => T[x].status = "suspended" /\ S[x].waitsFor = T[x].waitsFor
              /\ IsLive(T[x]) => IsLive(S[x])
              /\ T[x].watched => S[x].watched
              /\ T[x].route # "routed" => S[x].route # "routed"

LEMMA WakersKept ==
    ASSUME NEW T, NEW S, NEW A, NEW B, NEW p \in Tasks, NEW H, NEW H2,
           Good(T), KeepsWakers(S, T, A), p \notin A,
           \A x \in Tasks \ A : H[x] > 0 => H2[x] > 0,
           T[p].waitsFor \cap A \subseteq B, Awake(T, H, p, B)
    PROVE  Awake(S, H2, p, B)
<1> SUFFICES ASSUME S[p].status = "suspended", NEW c \in S[p].waitsFor, S[c].batch
             PROVE  \E x \in S[p].waitsFor \ B : Waker(S, H2, x)
  BY DEF Awake
<1>1. T[p].status = "suspended" /\ S[p].waitsFor = T[p].waitsFor
  BY DEF KeepsWakers
<1>2. \A x \in T[p].waitsFor : x \in Tasks /\ T[x].status # "unborn"
  BY DEF Good, Typed, TaskRecord, WaitsForChildren
<1>3. T[c].batch
  BY <1>1, <1>2 DEF KeepsWakers
<1>4. PICK x \in T[p].waitsFor \ B : Waker(T, H, x)
  BY <1>1, <1>3 DEF Awake
<1>5. x \in Tasks \ A
  BY <1>2, <1>4
<1>6. Waker(S, H2, x)
  BY <1>4, <1>5 DEF Waker, KeepsWakers
<1> QED
  BY <1>1, <1>4, <1>6

LEMMA AwakeForLess ==
    ASSUME NEW T, NEW H, NEW p, NEW A, NEW B, A \subseteq B, Awake(T, H, p, B)
    PROVE  Awake(T, H, p, A)
  BY DEF Awake

LEMMA KeepsWakersOn ==
    ASSUME NEW T, NEW U, NEW S, NEW A, KeepsWakers(U, T, A), KeepsWakers(S, U, A),
           \A x \in Tasks : U[x].status = "unborn" => T[x].status = "unborn"
    PROVE  KeepsWakers(S, T, A)
  BY DEF KeepsWakers

-----------------------------------------------------------------------------
(* Settling, step by step. *)

Settles(S, T, A) == Follows(S, T) /\ SameCallers(S, T) /\ KeepsWakers(S, T, A)

LEMMA ResumeSettles ==
    ASSUME NEW T, NEW p \in Tasks, Good(T), T[p].status = "suspended",
           \A x \in T[p].waitsFor : IsTerminal(T[x])
    PROVE  LET S == Resume(T, p) IN Settles(S, T, {}) /\ S[p].status = "pending"
<1> DEFINE S == Resume(T, p)
           W == T[p].waitsFor
<1>0. /\ \A x \in Tasks : T[x] \in TaskRecord
      /\ p \notin W
  BY DEF Good, Typed, IsTerminal, Terminal
<1>1. /\ S[p] = Requeued(T[p])
      /\ \A x \in W : x \in Tasks => S[x] = HandedOver(T[x])
      /\ \A x \in Tasks \ (W \union {p}) : S[x] = T[x]
  BY <1>0 DEF Resume
<1> HIDE DEF S
<1>2. /\ S[p].status = "pending" /\ S[p].waitsFor = {} /\ S[p].batch = T[p].batch
      /\ S[p].caller = T[p].caller /\ S[p].route = T[p].route
      /\ S[p].told = T[p].told /\ S[p].watched = T[p].watched
  BY <1>0, <1>1, RequeuedRecord, NotesStay DEF SameRecord, SameNotes
<1>3. ASSUME NEW x \in W, x \in Tasks
      PROVE  /\ S[x].status = T[x].status /\ S[x].waitsFor = T[x].waitsFor
             /\ S[x].batch = T[x].batch /\ S[x].caller = T[x].caller
             /\ S[x].route = T[x].route /\ S[x].watched = T[x].watched
             /\ S[x].told = Outcome(T[x]) /\ Outcome(S[x]) = Outcome(T[x])
  <2>1. S[x] = HandedOver(T[x]) /\ T[x] \in TaskRecord
    BY <1>0, <1>1, <1>3
  <2>2. /\ S[x].status = T[x].status /\ S[x].waitsFor = T[x].waitsFor
        /\ S[x].route = T[x].route /\ SameRecord(S[x], T[x])
    BY <2>1, NotedRecord
  <2> QED
    BY <2>1, <2>2, HandedOverNotes DEF SameRecord
<1>4. Follows(S, T)
  <2>1. ASSUME NEW x \in W, x \in Tasks, NEW q \in Tasks
        PROVE  x \notin S[q].waitsFor
    <3>1. T[x].caller = p
      BY <2>1 DEF Good, WaitsForChildren
    <3>2. CASE q = p
      BY <1>2, <3>2
    <3>3. CASE q # p
      <4>1. S[q].waitsFor = T[q].waitsFor
        BY <1>1, <1>3, <3>3
      <4> QED
        BY <2>1, <3>1, <3>3, <4>1 DEF Good, WaitsForChildren
    <3> QED
      BY <3>2, <3>3
  <2> SUFFICES ASSUME NEW x \in Tasks
               PROVE  /\ S[x].status = "suspended" => T[x].status = "suspended"
                      /\ S[x].waitsFor = T[x].waitsFor \/ S[x].waitsFor = {}
                      /\ IsTerminal(T[x]) => IsTerminal(S[x]) /\ Outcome(S[x]) = Outcome(T[x])
                      /\ S[x].told # T[x].told
                            => /\ \E q \in Tasks : x \in T[q].waitsFor
                               /\ IsTerminal(S[x]) /\ S[x].told = Outcome(S[x])
                               /\ \A q \in Tasks : x \notin S[q].waitsFor
    BY DEF Follows
  <2>2. CASE x = p
    BY <1>2, <2>2 DEF IsTerminal, Terminal
  <2>3. CASE x \in W
    BY <1>3, <2>1, <2>3 DEF IsTerminal
  <2>4. CASE x \notin W \union {p}
    BY <1>1, <2>4
  <2> QED
    BY <2>2, <2>3, <2>4
<1>5. KeepsWakers(S, T, {}) /\ SameCallers(S, T)
  BY <1>1, <1>2, <1>3 DEF KeepsWakers, SameCallers, IsLive, Live
<1> QED
  BY <1>2, <1>4, <1>5 DEF Settles, S

(* A task that is open is alive, or its route or its worker is watched. *)
LEMMA OpenIsWatched ==
    ASSUME NEW r, ResultOpen(r)
    PROVE  IsLive(r) \/ InTransit(r)
  BY DEF ResultOpen, InTransit, IsLive

LEMMA ResumeBatchSettles ==
    ASSUME NEW T, NEW p \in Tasks, NEW R, NEW H, Good(T), T[p].status = "suspended",
           \A x \in R : IsTerminal(T[x])
    PROVE  LET S == ResumeBatchIfSettled(T, p, R) IN Settles(S, T, {}) /\ Awake(S, H, p, R)
<1> DEFINE open == {x \in T[p].waitsFor \ R : ResultOpen(T[x])}
           S == ResumeBatchIfSettled(T, p, R)
<1>0. \A x \in T[p].waitsFor : x \in Tasks /\ T[x].status # "unborn" /\ T[x] \in TaskRecord
  BY DEF Good, Typed, TaskRecord, WaitsForChildren
<1>1. CASE open = {}
  <2>1. \A x \in T[p].waitsFor : IsTerminal(T[x])
    BY <1>0, <1>1 DEF ResultOpen, IsTerminal, TaskRecord
  <2>2. S = Resume(T, p)
    BY <1>1 DEF ResumeBatchIfSettled
  <2>3. Settles(Resume(T, p), T, {}) /\ Resume(T, p)[p].status = "pending"
    BY <2>1, ResumeSettles
  <2> QED
    BY <2>2, <2>3 DEF Awake
<1>2. CASE open # {}
  <2>1. \A x \in Tasks : T[x] \in TaskRecord
    BY DEF Good, Typed
  <2>2. \A x \in Tasks : S[x] = IF x \in open /\ InTransit(T[x]) THEN Watched(T[x]) ELSE T[x]
    BY <1>2 DEF ResumeBatchIfSettled
  <2> HIDE DEF S
  <2>3. \A x \in Tasks :
          /\ S[x].status = T[x].status /\ S[x].waitsFor = T[x].waitsFor
          /\ S[x].batch = T[x].batch /\ S[x].caller = T[x].caller /\ S[x].route = T[x].route
          /\ S[x].told = T[x].told /\ S[x].action = T[x].action
          /\ T[x].watched => S[x].watched
          /\ x \in open /\ InTransit(T[x]) => S[x].watched
    <3> TAKE x \in Tasks
    <3>1. CASE x \in open /\ InTransit(T[x])
      <4>1. S[x] = Watched(T[x]) /\ T[x] \in TaskRecord
        BY <2>1, <2>2, <3>1
      <4>2. /\ S[x].status = T[x].status /\ S[x].waitsFor = T[x].waitsFor
            /\ S[x].route = T[x].route /\ SameRecord(S[x], T[x])
        BY <4>1, NotedRecord
      <4>3. S[x].told = T[x].told /\ S[x].watched = TRUE
        BY <4>1, HandedOverNotes
      <4> QED
        BY <4>2, <4>3 DEF SameRecord
    <3>2. CASE ~(x \in open /\ InTransit(T[x]))
      BY <2>2, <3>2
    <3> QED
      BY <3>1, <3>2
  <2>4. Follows(S, T)
    BY <2>3, RecordsFollow DEF Succeeds, IsTerminal, Outcome
  <2>5. KeepsWakers(S, T, {}) /\ SameCallers(S, T)
    BY <2>3 DEF KeepsWakers, SameCallers, IsLive
  <2>6. PICK x \in T[p].waitsFor \ R : ResultOpen(T[x])
    BY <1>2
  <2>7. Waker(S, H, x)
    BY <1>0, <2>3, <2>6, OpenIsWatched DEF Waker, IsLive
  <2>8. x \in S[p].waitsFor \ R
    BY <2>3, <2>6
  <2>9. Awake(S, H, p, R)
    BY <2>7, <2>8 DEF Awake
  <2> QED
    BY <2>4, <2>5, <2>9 DEF Settles, S
<1> QED
  BY <1>1, <1>2

LEMMA NothingSettles ==
    ASSUME NEW T, NEW A
    PROVE  Settles(T, T, A)
  BY DEF Settles, Follows, SameCallers, KeepsWakers

LEMMA SettlesOn ==
    ASSUME NEW T, NEW U, NEW S, NEW A, Settles(U, T, A), Settles(S, U, A),
           \A x \in Tasks : U[x].status = "unborn" => T[x].status = "unborn"
    PROVE  Settles(S, T, A)
<1>1. Follows(S, T)
  BY FollowsOn DEF Settles
<1>2. KeepsWakers(S, T, A)
  BY KeepsWakersOn DEF Settles
<1>3. SameCallers(S, T)
  BY DEF Settles, SameCallers
<1> QED
  BY <1>1, <1>2, <1>3 DEF Settles

(* The waiting caller of an item is resumed with it, or another item wakes it. *)
LEMMA SettleChildSettles ==
    ASSUME NEW T, NEW c \in Tasks, NEW H, Good(T), IsTerminal(T[c]), AwakeBut(T, H, c)
    PROVE  LET S == SettleChild(T, c) IN Settles(S, T, {}) /\ AwakeWithout(S, H, c)
<1> DEFINE S == SettleChild(T, c)
           q == T[c].caller
<1>1. ASSUME NEW p \in Tasks, c \in T[p].waitsFor, T[p].status = "suspended"
      PROVE  q = p /\ CallerWaits(T, c) /\ (~T[c].batch => T[p].waitsFor = {c})
  BY <1>1, RootAssumption DEF Good, WaitsForChildren, Calm, CallerWaits, CanResume
<1>2. CallerWaits(T, c) => q \in Tasks /\ T[q].status = "suspended" /\ c \in T[q].waitsFor
  BY DEF CallerWaits, CanResume, Good, Typed, TaskRecord
<1>3. Settles(S, T, {}) /\ (CallerWaits(T, c) => Awake(S, H, q, {c}))
  <2>1. CASE ~CallerWaits(T, c)
    BY <2>1, NothingSettles DEF SettleChild
  <2>2. CASE CallerWaits(T, c) /\ T[c].batch
    <3>1. S = ResumeBatchIfSettled(T, q, {c})
      BY <2>2 DEF SettleChild
    <3> HIDE DEF S, q
    <3> QED
      BY <1>2, <2>2, <3>1, ResumeBatchSettles
  <2>3. CASE CallerWaits(T, c) /\ ~T[c].batch
    <3>1. S = Resume(T, q)
      BY <2>3 DEF SettleChild
    <3>2. T[q].waitsFor = {c}
      BY <1>1, <1>2, <2>3
    <3> HIDE DEF S, q
    <3>3. Settles(S, T, {}) /\ S[q].status = "pending"
      BY <1>2, <2>3, <3>1, <3>2, ResumeSettles
    <3> QED
      BY <3>3 DEF Awake
  <2> QED
    BY <2>1, <2>2, <2>3
<1> HIDE DEF S
<1>4. ASSUME NEW p \in Tasks PROVE Awake(S, H, p, {c})
  <2>1. CASE T[p].status # "suspended"
    <3>1. S[p].status # "suspended"
      BY <1>3, <2>1 DEF Settles, Follows
    <3> QED
      BY <3>1 DEF Awake
  <2>2. CASE T[p].status = "suspended" /\ c \in T[p].waitsFor
    BY <1>1, <1>3, <2>2
  <2>3. CASE c \notin T[p].waitsFor
    <3>1. Awake(T, H, p, {c})
      BY <2>3 DEF AwakeBut, Awake
    <3> QED
      BY <1>3, <3>1, WakersKept DEF Settles
  <2> QED
    BY <2>1, <2>2, <2>3
<1> QED
  BY <1>3, <1>4 DEF AwakeWithout, S

LEMMA TransitEndedSettles ==
    ASSUME NEW T, NEW c \in Tasks, NEW H, Good(T), AwakeBut(T, H, c)
    PROVE  LET S == TransitEnded(T, c) IN Settles(S, T, {}) /\ AllAwake(S, H)
<1> DEFINE S == TransitEnded(T, c)
           q == T[c].caller
<1>1. ASSUME NEW p \in Tasks, c \in T[p].waitsFor, T[p].status = "suspended"
      PROVE  q = p /\ CallerWaits(T, c) /\ (~T[c].batch => T[p].waitsFor = {c})
  BY <1>1, RootAssumption DEF Good, WaitsForChildren, Calm, CallerWaits, CanResume
<1>2. CallerWaits(T, c) => q \in Tasks /\ T[q].status = "suspended" /\ c \in T[q].waitsFor
  BY DEF CallerWaits, CanResume, Good, Typed, TaskRecord
<1>3. Settles(S, T, {}) /\ (CallerWaits(T, c) /\ T[c].batch => Awake(S, H, q, {}))
  <2>1. CASE ~(T[c].batch /\ CallerWaits(T, c))
    BY <2>1, NothingSettles DEF TransitEnded
  <2>2. CASE CallerWaits(T, c) /\ T[c].batch
    <3>1. S = ResumeBatchIfSettled(T, q, {})
      BY <2>2 DEF TransitEnded
    <3> HIDE DEF S, q
    <3> QED
      BY <1>2, <2>2, <3>1, ResumeBatchSettles
  <2> QED
    BY <2>1, <2>2
<1> HIDE DEF S
<1>4. ASSUME NEW p \in Tasks PROVE Awake(S, H, p, {})
  <2>1. CASE T[p].status # "suspended"
    <3>1. S[p].status # "suspended"
      BY <1>3, <2>1 DEF Settles, Follows
    <3> QED
      BY <3>1 DEF Awake
  <2>2. CASE T[p].status = "suspended" /\ c \in T[p].waitsFor /\ T[c].batch
    BY <1>1, <1>3, <2>2
  <2>3. CASE T[p].status = "suspended" /\ c \in T[p].waitsFor /\ ~T[c].batch
    <3>1. \A x \in T[p].waitsFor : ~T[x].batch
      BY <1>1, <2>3
    <3>2. Awake(T, H, p, {})
      BY <3>1 DEF Awake
    <3> QED
      BY <1>3, <3>2, WakersKept DEF Settles
  <2>4. CASE c \notin T[p].waitsFor
    BY <1>3, <2>4, WakersKept DEF Settles, AwakeBut
  <2> QED
    BY <2>1, <2>2, <2>3, <2>4
<1> QED
  BY <1>3, <1>4 DEF AllAwake, S

LEMMA MarkSettles ==
    ASSUME NEW T, NEW t \in Tasks, Good(T), IsTerminal(T[t]),
           NEW S \in {MarkRouted(T, t), MarkRouteFailed(T, t)}
    PROVE  Settles(S, T, {t})
<1>1. Typed(T) /\ T[t] \in TaskRecord
  BY DEF Good, Typed
<1>2. /\ \A x \in Tasks \ {t} : S[x] = T[x]
      /\ S[t] \in {Routed(T[t]), RouteFailed(T[t])}
  BY <1>1 DEF MarkRouted, MarkRouteFailed, Typed
<1>3. /\ SameRecord(S[t], T[t]) /\ S[t].status = T[t].status
      /\ S[t].waitsFor = T[t].waitsFor /\ SameNotes(S[t], T[t])
  <2>1. CASE S[t] = Routed(T[t])
    BY <1>1, <2>1, RoutedRecord, NotesStay
  <2>2. CASE S[t] = RouteFailed(T[t])
    BY <1>1, <2>2, RouteFailedRecord, NotesStay
  <2> QED
    BY <1>2, <2>1, <2>2
<1>4. Follows(S, T)
  BY <1>2, <1>3, RecordsFollow DEF Succeeds, IsTerminal, Outcome, SameRecord, SameNotes
<1>5. KeepsWakers(S, T, {t}) /\ SameCallers(S, T)
  BY <1>2, <1>3 DEF KeepsWakers, SameCallers, SameRecord
<1> QED
  BY <1>4, <1>5 DEF Settles

(* A mark on t takes the waker t itself may be, and no other. *)
LEMMA MarkKeepsAwake ==
    ASSUME NEW T, NEW t \in Tasks, NEW H, Good(T), IsTerminal(T[t]),
           NEW S \in {MarkRouted(T, t), MarkRouteFailed(T, t)}
    PROVE  /\ AwakeWithout(T, H, t) => AllAwake(S, H)
           /\ AwakeBut(T, H, t) => AwakeBut(S, H, t)
<1>1. Settles(S, T, {t})
  BY MarkSettles
<1>2. Awake(S, H, t, {})
  <2>1. T[t].status # "suspended"
    BY DEF IsTerminal, Terminal
  <2>2. S[t].status # "suspended"
    BY <1>1, <2>1 DEF Settles, Follows
  <2> QED
    BY <2>2 DEF Awake
<1>3. ASSUME AwakeWithout(T, H, t), NEW p \in Tasks \ {t} PROVE Awake(S, H, p, {})
  <2>1. Awake(S, H, p, {t})
    BY <1>1, <1>3, WakersKept DEF Settles, AwakeWithout
  <2> QED
    BY <2>1, AwakeForLess
<1>4. ASSUME AwakeBut(T, H, t), NEW p \in Tasks \ {t}, t \notin S[p].waitsFor
      PROVE  Awake(S, H, p, {})
  <2>1. CASE T[p].status = "suspended" /\ S[p].status = "suspended"
    <3>1. S[p].waitsFor = T[p].waitsFor
      BY <1>1, <1>4, <2>1 DEF Settles, KeepsWakers
    <3> QED
      BY <1>1, <1>4, <3>1, WakersKept DEF Settles, AwakeBut
  <2>2. CASE S[p].status # "suspended"
    BY <2>2 DEF Awake
  <2>3. CASE T[p].status # "suspended"
    BY <1>1, <2>3 DEF Settles, Follows, Awake
  <2> QED
    BY <2>1, <2>2, <2>3
<1> QED
  BY <1>2, <1>3, <1>4 DEF AllAwake, AwakeBut

LEMMA RouteEndSettles ==
    ASSUME NEW T, NEW t \in Tasks, NEW H, Good(T), IsTerminal(T[t]), T[t].route # "routed",
           AwakeBut(T, H, t), NEW S \in RouteEnd(T, t)
    PROVE  Settles(S, T, {t}) /\ AllAwake(S, H)
<1> DEFINE U == SettleChild(T, t)
           F == MarkRouteFailed(T, t)
<1>0. ~IsLive(T[t])
  BY DEF IsTerminal, Terminal, IsLive, Live
<1>1. /\ Good(U) /\ SameCompletions(U, T) /\ IsTerminal(U[t])
      /\ Settles(U, T, {}) /\ AwakeWithout(U, H, t)
  BY <1>0, SettleChildKeepsGood, SettleChildSettles DEF SameCompletions
<1>2. Good(F) /\ F[t].status = T[t].status /\ \A x \in Tasks \ {t} : F[x] = T[x]
  BY MarkKeepsGood
<1>3. Settles(F, T, {t}) /\ AwakeBut(F, H, t)
  BY MarkSettles, MarkKeepsAwake
<1> HIDE DEF U, F
<1>4. CASE S \in {MarkRouted(U, t), MarkRouteFailed(U, t)}
  <2>1. Settles(S, U, {t}) /\ AllAwake(S, H)
    BY <1>1, <1>4, MarkSettles, MarkKeepsAwake
  <2>2. Settles(U, T, {t})
    BY <1>1 DEF Settles, KeepsWakers
  <2> QED
    BY <1>1, <2>1, <2>2, SettlesOn DEF SameCompletions
<1>5. CASE S = TransitEnded(F, t)
  <2>1. Settles(S, F, {}) /\ AllAwake(S, H)
    BY <1>2, <1>3, <1>5, TransitEndedSettles
  <2>2. Settles(S, F, {t})
    BY <2>1 DEF Settles, KeepsWakers
  <2>3. \A x \in Tasks : F[x].status = T[x].status
    BY <1>2
  <2> QED
    BY <1>3, <2>1, <2>2, <2>3, SettlesOn
<1> QED
  BY <1>4, <1>5 DEF RouteEnd, U, F

-----------------------------------------------------------------------------
(* A route, whole: what it tells, whom it suspends, whom it leaves awake. *)

(* Only t comes to wait, and only if it had a dispatch to send out. *)
OnlySuspends(S, T, t) ==
    \A x \in Tasks :
        S[x].status = "suspended" /\ T[x].status # "suspended"
            => x = t /\ T[x].status = "completed" /\ T[x].route # "routed"

(* With H threads on their way afterwards. *)
Tells(S, T, t, H) ==
    ToldOnce(S) /\ StaysTold(S, T) /\ OnlySuspends(S, T, t) /\ AllAwake(S, H)

LEMMA FollowsTells ==
    ASSUME NEW T, NEW S, NEW t, Good(T), ToldOnce(T), Follows(S, T), SameCallers(S, T)
    PROVE  ToldOnce(S) /\ StaysTold(S, T) /\ OnlySuspends(S, T, t)
  BY FollowsKeepsTold DEF Follows, OnlySuspends

LEMMA StaysToldOn ==
    ASSUME NEW T, NEW U, NEW S, StaysTold(U, T), StaysTold(S, U)
    PROVE  StaysTold(S, T)
<1>1. \A x \in Tasks : T[x].told # "nothing" => U[x].told = T[x].told
  BY DEF StaysTold
<1> QED
  BY <1>1 DEF StaysTold

(* Nothing has been told about a task that is created, nor as it is withdrawn. *)
LEMMA NewIsUntold ==
    ASSUME NEW T, Typed(T), NEW t \in Tasks, T[t].status # "unborn",
           NEW n \in Creations(T, t), NEW x \in n.kids
    PROVE  LET c == Create(T, t, n.kids, n.refused, n.batch)[x] IN
           c.told = "nothing" /\ CancelOne(c, FALSE).told = "nothing"
<1> DEFINE C == Create(T, t, n.kids, n.refused, n.batch)
<1>1. /\ x \in Tasks /\ n.batch \in BOOLEAN
      /\ (~n.batch => n.refused = {}) /\ n.refused \in SUBSET n.kids
  BY CreationIsNew
<1>2. C[x] = IF x \in n.refused THEN RefusedChild(T, t) ELSE NewChild(T, t, n.batch)
  BY <1>1 DEF Create
<1>3. \A b \in BOOLEAN : NewChild(T, t, b) \in TaskRecord /\ NewChild(T, t, b).told = "nothing"
  BY NewChildRecord DEF NewChild
<1>4. RefusedChild(T, t) \in TaskRecord /\ RefusedChild(T, t).told = "nothing"
  <2> DEFINE new == NewChild(T, t, TRUE)
             old == ApplyFailure(new)
             r == RouteReset(old)
  <2>1. new \in TaskRecord /\ new.told = "nothing"
    BY <1>3
  <2> HIDE DEF new
  <2>2. old \in TaskRecord /\ old.told = "nothing"
    BY <2>1, FailedRecord, NotesStay DEF SameNotes
  <2> HIDE DEF old
  <2>3. r \in TaskRecord /\ r.told = "nothing"
    BY <2>2, RouteResetRecord, NotesStay DEF SameNotes
  <2>4. RefusedChild(T, t) = [r EXCEPT !.route = "routed"]
    BY DEF RefusedChild, r, old, new
  <2> HIDE DEF r
  <2>5. [r EXCEPT !.route = "routed"].told = r.told
    BY <2>3 DEF TaskRecord
  <2> QED
    BY <2>3, <2>4, <2>5, RefusedChildRecord
<1>5. C[x] \in TaskRecord /\ C[x].told = "nothing"
  BY <1>1, <1>2, <1>3, <1>4
<1> HIDE DEF C
<1>6. [C[x] EXCEPT !.cancelReq = TRUE].told = "nothing"
  BY <1>5 DEF TaskRecord
<1>7. Terminated(C[x]).told = "nothing"
  BY <1>5, NotesStay DEF SameNotes
<1>8. CancelOne(C[x], FALSE).told = "nothing"
  BY <1>5, <1>6, <1>7 DEF CancelOne
<1> QED
  BY <1>5, <1>8 DEF C

(* A dispatch that goes out: t waits, and a batch it waits for has a waker. *)
LEMMA SuspendTells ==
    ASSUME NEW T, NEW t \in Tasks, NEW H, Good(T), Fresh(T), ToldOnce(T),
           T[t].status = "completed", T[t].route = "routed", ~T[t].cancelReq,
           T[t].caller = NoTask \/ CallerWaits(T, t), AwakeBut(T, H, t),
           NEW n \in Creations(T, t)
    PROVE  LET U == SuspendedForNew(T, t, n) IN
           /\ ToldOnce(U) /\ StaysTold(U, T)
           /\ \A x \in Tasks \ {t} : U[x].status = "suspended" => T[x].status = "suspended"
           /\ \A p \in Tasks \ {t} : Awake(U, H, p, {})
<1> DEFINE U == SuspendedForNew(T, t, n)
           K == n.kids
<1>1. /\ U[t].status = "suspended" /\ U[t].waitsFor = K
      /\ \A x \in K : U[x].status \in {"pending", "failed"} /\ U[x].waitsFor = {}
      /\ \A x \in Tasks \ (K \union {t}) : U[x] = T[x]
      /\ U[t] = Suspended(T[t], K)
  BY SuspendKeepsGood
<1>2. \A x \in K : U[x].told = "nothing"
  <2>1. \A x \in K : U[x] = Create(T, t, n.kids, n.refused, n.batch)[x]
    BY SuspendKeepsGood
  <2>2. \A x \in K : Create(T, t, n.kids, n.refused, n.batch)[x].told = "nothing"
    BY NewIsUntold DEF Good
  <2> HIDE DEF U, K
  <2> QED
    BY <2>1, <2>2
<1>3. K \subseteq Tasks /\ t \notin K /\ \A x \in K : T[x].status = "unborn"
  BY CreationIsNew DEF Born
<1>4. U[t].told = T[t].told /\ T[t].told = "nothing"
  <2>1. T[t] \in TaskRecord
    BY DEF Good, Typed
  <2>2. U[t].told = T[t].told
    BY <1>1, <2>1, NotesStay DEF SameNotes
  <2>3. ASSUME CallerWaits(T, t) PROVE \E p \in Tasks : t \in T[p].waitsFor
    BY <2>1, <2>3 DEF CallerWaits, TaskRecord
  <2>4. T[t].told = "nothing"
    BY <2>3 DEF ToldOnce
  <2> QED
    BY <2>2, <2>4
<1> HIDE DEF U, K
<1>5. ASSUME NEW x \in Tasks, U[x].told # "nothing"
      PROVE  /\ IsTerminal(U[x]) /\ U[x].told = Outcome(U[x]) /\ U[x].caller # NoTask
             /\ \A p \in Tasks : x \notin U[p].waitsFor
  <2>1. x \notin K \union {t}
    BY <1>2, <1>4, <1>5
  <2>2. U[x] = T[x]
    BY <1>1, <2>1
  <2>3. ASSUME NEW p \in Tasks PROVE x \notin U[p].waitsFor
    <3>1. CASE p \in K \union {t}
      BY <1>1, <2>1, <3>1
    <3>2. CASE p \notin K \union {t}
      BY <1>1, <1>5, <2>2, <3>2 DEF ToldOnce
    <3> QED
      BY <3>1, <3>2
  <2> QED
    BY <1>5, <2>2, <2>3 DEF ToldOnce
<1>6. StaysTold(U, T)
  <2> SUFFICES ASSUME NEW x \in Tasks, T[x].told # "nothing" PROVE U[x] = T[x]
    BY DEF StaysTold, ToldOnce
  <2>1. x # t
    BY <1>4
  <2>2. x \notin K
    BY <1>3 DEF ToldOnce, IsTerminal, Terminal
  <2> QED
    BY <1>1, <2>1, <2>2
<1>7. ASSUME NEW p \in Tasks \ {t} PROVE Awake(U, H, p, {})
  <2>1. CASE p \in K
    BY <1>1, <2>1 DEF Awake
  <2>2. CASE p \notin K /\ t \in T[p].waitsFor
    <3>1. U[p] = T[p] /\ Waker(U, H, t)
      BY <1>1, <1>7, <2>2 DEF Waker, IsLive, Live
    <3> QED
      BY <2>2, <3>1 DEF Awake
  <2>3. CASE p \notin K /\ t \notin T[p].waitsFor
    <3>1. U[p] = T[p] /\ Awake(T, H, p, {})
      BY <1>1, <1>7, <2>3 DEF AwakeBut
    <3>2. \A x \in T[p].waitsFor : x \in Tasks \ (K \union {t})
      BY <1>3, <1>7, <2>3 DEF Good, Typed, TaskRecord, WaitsForChildren
    <3>3. \A x \in T[p].waitsFor : U[x] = T[x]
      BY <1>1, <3>2
    <3> QED
      BY <3>1, <3>3 DEF Awake, Waker
  <2> QED
    BY <2>1, <2>2, <2>3
<1> QED
  BY <1>1, <1>3, <1>5, <1>6, <1>7 DEF U, ToldOnce

LEMMA SentOutTells ==
    ASSUME NEW T, NEW t \in Tasks, NEW H, Good(T), Fresh(T), ToldOnce(T),
           T[t].status = "completed", T[t].route = "routed", ~T[t].cancelReq,
           T[t].caller = NoTask \/ CallerWaits(T, t), AwakeBut(T, H, t),
           ExistingChildren(T, t) = {}, NEW S \in SentOut(T, t)
    PROVE  /\ ToldOnce(S) /\ StaysTold(S, T) /\ AllAwake(S, H)
           /\ \A x \in Tasks \ {t} : S[x].status = "suspended" => T[x].status = "suspended"
<1>1. PICK n \in Creations(T, t) :
        S = IF n.batch THEN ResumeBatchIfSettled(SuspendedForNew(T, t, n), t, {})
            ELSE SuspendedForNew(T, t, n)
  BY DEF SentOut, SuspendedForNew
<1> DEFINE U == SuspendedForNew(T, t, n)
<1>2. /\ Good(U) /\ U[t].status = "suspended" /\ U[t].waitsFor = n.kids
      /\ \A x \in n.kids : U[x].batch = n.batch
  BY SuspendKeepsGood
<1>3. /\ ToldOnce(U) /\ StaysTold(U, T)
      /\ \A x \in Tasks \ {t} : U[x].status = "suspended" => T[x].status = "suspended"
      /\ \A p \in Tasks \ {t} : Awake(U, H, p, {})
  BY SuspendTells
<1>4. S = IF n.batch THEN ResumeBatchIfSettled(U, t, {}) ELSE U
  BY <1>1
<1> HIDE DEF U
<1>5. CASE ~n.batch
  <2>1. Awake(U, H, t, {})
    BY <1>2, <1>5 DEF Awake
  <2> QED
    BY <1>3, <1>4, <1>5, <2>1 DEF AllAwake
<1>6. CASE n.batch
  <2>1. S = ResumeBatchIfSettled(U, t, {})
    BY <1>4, <1>6
  <2>2. Settles(S, U, {}) /\ Awake(S, H, t, {})
    BY <1>2, <2>1, ResumeBatchSettles
  <2>3. ToldOnce(S) /\ StaysTold(S, U)
    BY <1>2, <1>3, <2>2, FollowsKeepsTold DEF Settles
  <2>4. \A p \in Tasks \ {t} : Awake(S, H, p, {})
    BY <1>2, <1>3, <2>2, WakersKept DEF Settles
  <2>5. \A x \in Tasks \ {t} : S[x].status = "suspended" => T[x].status = "suspended"
    BY <1>3, <2>2 DEF Settles, Follows
  <2> QED
    BY <1>3, <2>2, <2>3, <2>4, <2>5, StaysToldOn DEF AllAwake
<1> QED
  BY <1>5, <1>6

(* One record moves on: the batch it is an item of may lose that waker. *)
LEMMA OneChanges ==
    ASSUME NEW T, NEW S, NEW t \in Tasks, NEW H, NEW H2, Good(T),
           \A x \in Tasks \ {t} : S[x] = T[x] /\ (H[x] > 0 => H2[x] > 0),
           S[t].caller = T[t].caller, Succeeds(S[t], T[t]),
           S[t].status = "suspended" => S[t].waitsFor = T[t].waitsFor
    PROVE  /\ Follows(S, T) /\ SameCallers(S, T)
           /\ AwakeBut(T, H, t) => AwakeBut(S, H2, t)
           /\ /\ AllAwake(T, H) /\ S[t].batch = T[t].batch
              /\ Waker(T, H, t) => Waker(S, H2, t)
              => AllAwake(S, H2)
<1>1. Follows(S, T) /\ SameCallers(S, T)
  BY RecordsFollow DEF SameCallers
<1>2. ASSUME AwakeBut(T, H, t), NEW p \in Tasks, t \notin S[p].waitsFor,
             S[p].status = "suspended"
      PROVE  Awake(S, H2, p, {})
  <2>1. T[p].status = "suspended" /\ S[p].waitsFor = T[p].waitsFor
    BY <1>2 DEF Succeeds
  <2>2. \A x \in T[p].waitsFor : x \in Tasks \ {t}
    BY <1>2, <2>1 DEF Good, Typed, TaskRecord
  <2>3. \A x \in T[p].waitsFor : S[x] = T[x] /\ (H[x] > 0 => H2[x] > 0)
    BY <2>2
  <2>4. Awake(T, H, p, {})
    BY <1>2, <2>1 DEF AwakeBut
  <2> QED
    BY <2>1, <2>3, <2>4 DEF Awake, Waker
<1>3. \A p \in Tasks : S[p].status # "suspended" => Awake(S, H2, p, {})
  BY DEF Awake
<1>4. ASSUME AllAwake(T, H), S[t].batch = T[t].batch, Waker(T, H, t) => Waker(S, H2, t),
             NEW p \in Tasks, S[p].status = "suspended"
      PROVE  Awake(S, H2, p, {})
  <2>1. T[p].status = "suspended" /\ S[p].waitsFor = T[p].waitsFor
    BY <1>4 DEF Succeeds
  <2>2. \A x \in T[p].waitsFor : x \in Tasks
    BY DEF Good, Typed, TaskRecord
  <2>3. \A x \in T[p].waitsFor : S[x].batch = T[x].batch /\ (Waker(T, H, x) => Waker(S, H2, x))
    BY <1>4, <2>2 DEF Waker
  <2>4. Awake(T, H, p, {})
    BY <1>4 DEF AllAwake
  <2> QED
    BY <2>1, <2>3, <2>4 DEF Awake
<1> QED
  BY <1>1, <1>2, <1>3, <1>4 DEF AwakeBut, AllAwake

LEMMA AwakeAgain ==
    ASSUME NEW S, NEW t \in Tasks, NEW H, AwakeBut(S, H, t), Waker(S, H, t)
    PROVE  AllAwake(S, H)
  BY DEF AwakeBut, AllAwake, Awake

LEMMA AllAwakeIsMore ==
    ASSUME NEW S, NEW t \in Tasks, NEW H
    PROVE  /\ AllAwake(S, H) => AwakeBut(S, H, t)
           /\ AwakeWithout(S, H, t) => AllAwake(S, H)
  BY AwakeForLess DEF AwakeBut, AllAwake, AwakeWithout

(* A dispatch that is not sent out ends as it would have: not done. *)
LEMMA EndedSucceeds ==
    ASSUME NEW r \in TaskRecord, r.status = "completed", r.action = "dispatch",
           NEW q \in {ApplyFailure(r), Routed(Terminated(r))}
    PROVE  /\ Succeeds(q, r) /\ q.caller = r.caller /\ q.status # "suspended"
           /\ q.status # "unborn"
<1>1. /\ q.status \in {"failed", "cancelled"} /\ q.waitsFor = {} /\ q.caller = r.caller
      /\ q.told = r.told
  <2>1. CASE q = ApplyFailure(r)
    BY <2>1, FailedRecord, NotesStay DEF SameNotes
  <2>2. CASE q = Routed(Terminated(r))
    <3> DEFINE e == Terminated(r)
    <3>1. /\ e \in TaskRecord /\ e.status = "cancelled" /\ e.waitsFor = {}
          /\ e.caller = r.caller /\ e.told = r.told
      BY TerminatedRecord, NotesStay DEF SameNotes
    <3>2. q = Routed(e)
      BY <2>2
    <3> HIDE DEF e
    <3> QED
      BY <3>1, <3>2, RoutedRecord, NotesStay DEF SameRecord, SameNotes
  <2> QED
    BY <2>1, <2>2
<1> QED
  BY <1>1 DEF Succeeds, IsTerminal, Terminal, Outcome

LEMMA RouteEndTells ==
    ASSUME NEW T, NEW t \in Tasks, NEW H, Good(T), ToldOnce(T),
           NEW U, Good(U), Follows(U, T), SameCallers(U, T), AwakeBut(U, H, t),
           \A x \in Tasks : U[x].status = "unborn" => T[x].status = "unborn",
           IsTerminal(U[t]), U[t].route # "routed", NEW S \in RouteEnd(U, t)
    PROVE  Tells(S, T, t, H)
<1>1. Settles(S, U, {t}) /\ AllAwake(S, H)
  BY RouteEndSettles
<1>2. Follows(S, T) /\ SameCallers(S, T)
  BY <1>1, FollowsOn DEF Settles, SameCallers
<1> QED
  BY <1>1, <1>2, FollowsTells DEF Tells

LEMMA FailedRouteTells ==
    ASSUME NEW T, NEW t \in Tasks, NEW H, Good(T), ToldOnce(T), AwakeBut(T, H, t),
           T[t].status = "completed", T[t].action = "dispatch", T[t].route # "routed",
           NEW S \in RouteEnd([T EXCEPT ![t] = ApplyFailure(@)], t)
    PROVE  Tells(S, T, t, H)
<1> DEFINE U == [T EXCEPT ![t] = ApplyFailure(@)]
<1>1. T \in [Tasks -> TaskRecord] /\ T[t] \in TaskRecord
  BY DEF Good, Typed
<1>2. /\ U[t] = ApplyFailure(T[t]) /\ U = [T EXCEPT ![t] = ApplyFailure(T[t])]
      /\ \A x \in Tasks \ {t} : U[x] = T[x]
  BY <1>1
<1> HIDE DEF U
<1>3. Good(U)
  BY <1>1, <1>2, FailedIsEnded, EndedAloneKeepsGood
<1>4. U[t].status = "failed" /\ U[t].route = T[t].route
  BY <1>1, <1>2, FailedRecord
<1>5. Follows(U, T) /\ SameCallers(U, T) /\ AwakeBut(U, H, t)
  BY <1>1, <1>2, EndedSucceeds, OneChanges
<1>6. \A x \in Tasks : U[x].status = "unborn" => T[x].status = "unborn"
  BY <1>2, <1>4
<1> QED
  BY <1>3, <1>4, <1>5, <1>6, RouteEndTells DEF U, IsTerminal, Terminal

LEMMA WithdrawnTells ==
    ASSUME NEW T, NEW t \in Tasks, NEW H, Good(T), Fresh(T), ToldOnce(T), AwakeBut(T, H, t),
           T[t].status = "completed", T[t].action = "dispatch", T[t].route # "routed",
           NEW n \in Creations(T, t), NEW S \in RouteEnd(Withdrawn(T, t, n), t)
    PROVE  Tells(S, T, t, H)
<1> DEFINE U == Withdrawn(T, t, n)
           K == n.kids
<1>1. Good(U) /\ IsTerminal(U[t]) /\ U[t].route = T[t].route /\ IsWithdrawn(U, T, t, n)
  BY WithdrawnIsGood
<1>2. /\ U[t] = ApplyFailure(T[t])
      /\ \A x \in K : U[x].status \in {"failed", "cancelled"} /\ U[x].waitsFor = {}
      /\ \A x \in Tasks \ (K \union {t}) : U[x] = T[x]
  BY <1>1 DEF IsWithdrawn
<1>3. \A x \in K : U[x].told = "nothing"
  <2>1. \A x \in K : U[x] = CancelOne(Create(T, t, n.kids, n.refused, n.batch)[x], FALSE)
    BY <1>1 DEF IsWithdrawn
  <2>2. \A x \in K : CancelOne(Create(T, t, n.kids, n.refused, n.batch)[x], FALSE).told = "nothing"
    BY NewIsUntold DEF Good
  <2> HIDE DEF U, K
  <2> QED
    BY <2>1, <2>2
<1>4. K \subseteq Tasks /\ t \notin K /\ \A x \in K : T[x].status = "unborn"
  BY CreationIsNew DEF Born
<1>5. T[t] \in TaskRecord
  BY DEF Good, Typed
<1>6. S \in RouteEnd(U, t)
  OBVIOUS
<1> HIDE DEF U, K
<1>7. Succeeds(U[t], T[t]) /\ U[t].caller = T[t].caller /\ U[t].status \notin {"suspended", "unborn"}
  BY <1>2, <1>5, EndedSucceeds
<1>8. \A x \in K : Succeeds(U[x], T[x])
  <2>1. \A x \in K : T[x].told = "nothing" /\ ~IsTerminal(T[x])
    BY <1>4 DEF ToldOnce, IsTerminal, Terminal
  <2> QED
    BY <1>2, <1>3, <2>1 DEF Succeeds
<1>9. Follows(U, T)
  BY <1>2, <1>7, <1>8, RecordsFollow
<1>10. SameCallers(U, T)
  BY <1>2, <1>4, <1>7 DEF SameCallers
<1>11. AwakeBut(U, H, t)
  <2> SUFFICES ASSUME NEW p \in Tasks, t \notin U[p].waitsFor, U[p].status = "suspended"
               PROVE  Awake(U, H, p, {})
    BY DEF AwakeBut, Awake
  <2>1. p \notin K \union {t}
    BY <1>2, <1>7
  <2>2. U[p] = T[p] /\ Awake(T, H, p, {})
    BY <1>2, <2>1 DEF AwakeBut
  <2>3. \A x \in T[p].waitsFor : x \in Tasks \ (K \union {t})
    BY <1>4, <2>2 DEF Good, Typed, TaskRecord, WaitsForChildren
  <2>4. \A x \in T[p].waitsFor : U[x] = T[x]
    BY <1>2, <2>3
  <2> QED
    BY <2>2, <2>4 DEF Awake, Waker
<1>12. \A x \in Tasks : U[x].status = "unborn" => T[x].status = "unborn"
  BY <1>2, <1>7
<1> QED
  BY <1>1, <1>6, <1>9, <1>10, <1>11, <1>12, RouteEndTells

LEMMA RouteDispatchTells ==
    ASSUME ~DiskFails, NEW T, NEW t \in Tasks, NEW H, Good(T), Fresh(T), ToldOnce(T),
           AwakeBut(T, H, t), T[t].status = "completed",
           T[t].action = "dispatch", T[t].route # "routed", ~CalledOff(T, t),
           NEW S \in RouteDispatch(T, t)
    PROVE  Tells(S, T, t, H)
<1>0. IsTerminal(T[t]) /\ Typed(T)
  BY DEF IsTerminal, Terminal, Good
<1>1. CASE S \in SentOut(MarkRouted(T, t), t)
  <2> DEFINE U == MarkRouted(T, t)
  <2>1. /\ Good(U) /\ \A x \in Tasks \ {t} : U[x] = T[x]
        /\ SameRecord(U[t], T[t]) /\ U[t].status = T[t].status /\ U[t].route = "routed"
    BY MarkKeepsGood
  <2>2. Settles(U, T, {t}) /\ AwakeBut(U, H, t)
    BY <1>0, MarkSettles, MarkKeepsAwake
  <2>3. S \in SentOut(U, t)
    BY <1>1
  <2> HIDE DEF U
  <2>4. SameTree(U, T)
    BY <1>0, <2>1 DEF SameTree, SameRecord, Typed, TaskRecord, Unrouted
  <2>5. Fresh(U)
    BY <1>0, <2>4, SameTreeKeepsFresh
  <2>6. ~U[t].cancelReq /\ (U[t].caller = NoTask \/ CallerWaits(U, t))
    <3>1. ~T[t].cancelReq /\ (T[t].caller = NoTask \/ CallerWaits(T, t))
      BY DEF CalledOff
    <3>2. CASE CallerWaits(T, t)
      <4>1. T[t].caller \in Tasks \ {t}
        BY <1>0, <3>2 DEF CallerWaits, CanResume, Typed, TaskRecord
      <4> QED
        BY <2>1, <3>1, <3>2, <4>1 DEF CallerWaits, SameRecord
    <3> QED
      BY <2>1, <3>1, <3>2 DEF SameRecord
  <2>7. ExistingChildren(U, t) = {}
    <3> SUFFICES ASSUME NEW x \in Tasks, T[x].status # "unborn",
                        T[x].caller = t, T[x].key = T[t].round
                 PROVE  FALSE
      BY <2>1, <2>4 DEF ExistingChildren, Born, SameTree, SameRecord
    <3> QED
      BY DEF Fresh
  <2>8. ToldOnce(U) /\ StaysTold(U, T)
    BY <2>2, FollowsKeepsTold DEF Settles
  <2>9. /\ ToldOnce(S) /\ StaysTold(S, U) /\ AllAwake(S, H)
        /\ \A x \in Tasks \ {t} : S[x].status = "suspended" => U[x].status = "suspended"
    BY <2>1, <2>2, <2>3, <2>5, <2>6, <2>7, <2>8, SentOutTells
  <2>10. OnlySuspends(S, T, t)
    BY <2>1, <2>9 DEF OnlySuspends
  <2> QED
    BY <2>8, <2>9, <2>10, StaysToldOn DEF Tells
<1>2. CASE S \in RouteEnd([T EXCEPT ![t] = ApplyFailure(@)], t)
  BY <1>2, FailedRouteTells
<1>3. CASE \E n \in Creations(T, t) : S \in RouteEnd(Withdrawn(T, t, n), t)
  BY <1>3, WithdrawnTells
<1>4. CASE S = TransitEnded(MarkRouteFailed(T, t), t)
  <2>1. S \in RouteEnd(T, t)
    BY <1>4 DEF RouteEnd
  <2>2. Settles(T, T, {})
    BY NothingSettles
  <2> QED
    BY <1>0, <2>1, <2>2, RouteEndTells DEF Settles
<1> QED
  BY <1>1, <1>2, <1>3, <1>4 DEF RouteDispatch, DiskFailures

LEMMA RouteCompletionTells ==
    ASSUME ~DiskFails, NEW T, NEW t \in Tasks, NEW H, Good(T), Fresh(T), ToldOnce(T),
           AwakeBut(T, H, t), IsTerminal(T[t]), T[t].route # "routed",
           NEW S \in RouteCompletion(T, t)
    PROVE  Tells(S, T, t, H)
<1>0. T[t] \in TaskRecord /\ T \in [Tasks -> TaskRecord]
  BY DEF Good, Typed
<1>1. CASE T[t].status = "completed" /\ IsDispatch(T[t]) /\ CalledOff(T, t)
  <2> DEFINE U == [T EXCEPT ![t] = Routed(Terminated(@))]
  <2>1. Good(U)
    BY <1>0, <1>1, FailedIsEnded, EndedAloneKeepsGood
  <2>2. U[t] = Routed(Terminated(T[t])) /\ \A x \in Tasks \ {t} : U[x] = T[x]
    BY <1>0
  <2>3. S = SettleChild(U, t)
    BY <1>1 DEF RouteCompletion
  <2> HIDE DEF U
  <2>4. Succeeds(U[t], T[t]) /\ U[t].caller = T[t].caller /\ U[t].status \notin {"suspended", "unborn"}
    BY <1>0, <1>1, <2>2, EndedSucceeds DEF IsDispatch
  <2>5. Follows(U, T) /\ SameCallers(U, T) /\ AwakeBut(U, H, t)
    BY <2>2, <2>4, OneChanges
  <2>6. IsTerminal(U[t])
    BY <2>4 DEF Succeeds
  <2>7. Settles(S, U, {}) /\ AllAwake(S, H)
    BY <2>1, <2>3, <2>5, <2>6, SettleChildSettles, AllAwakeIsMore
  <2>8. Follows(S, T) /\ SameCallers(S, T)
    BY <2>2, <2>4, <2>5, <2>7, FollowsOn DEF Settles, SameCallers
  <2> QED
    BY <2>7, <2>8, FollowsTells DEF Tells
<1>2. CASE /\ T[t].status = "completed" /\ IsDispatch(T[t])
           /\ S \in RouteEnd([T EXCEPT ![t] = ApplyFailure(@)], t)
  BY <1>2, FailedRouteTells DEF IsDispatch
<1>3. CASE IsDispatch(T[t]) /\ ~CalledOff(T, t) /\ S \in RouteDispatch(T, t)
  <2>1. T[t].status = "completed" /\ T[t].action = "dispatch"
    BY <1>3 DEF Fresh, Unrouted, IsDispatch
  <2> QED
    BY <1>3, <2>1, RouteDispatchTells
<1>4. CASE S \in RouteEnd(T, t)
  <2>1. Settles(T, T, {})
    BY NothingSettles
  <2> QED
    BY <1>4, <2>1, RouteEndTells DEF Settles
<1>5. IsDispatch(T[t]) => T[t].status = "completed"
  BY DEF IsDispatch, Fresh, Unrouted
<1> QED
  BY <1>1, <1>2, <1>3, <1>4, <1>5 DEF RouteCompletion

-----------------------------------------------------------------------------
(* Cascades and single steps. *)

LEMMA BelowHasCaller ==
    ASSUME NEW T, NEW t, NEW S, NEW c \in Below(T, t, S)
    PROVE  T[c].caller \in Below(T, t, S) \union {t}
<1> SUFFICES ASSUME T[c].caller \notin Below(T, t, S) \union {t} PROVE FALSE
  OBVIOUS
<1> DEFINE X == Below(T, t, S) \ {c}
<1>1. X \in SUBSET S
  BY DEF Below
<1>2. ASSUME NEW x \in S, T[x].caller \in X \union {t} PROVE x \in X
  <2>1. x \in Below(T, t, S)
    BY <1>2, BelowIsClosed
  <2>2. x # c
    BY <1>2
  <2> QED
    BY <2>1, <2>2
<1>3. c \in X
  <2> HIDE DEF X
  <2> QED
    BY <1>1, <1>2 DEF Below
<1> QED
  BY <1>3

(* The tasks D stop waiting; but for t, whoever waits for one of them is one. *)
LEMMA CascadeTells ==
    ASSUME NEW T, NEW S, NEW D \in SUBSET Tasks, NEW t \in Tasks, NEW H, NEW H2, Good(T),
           \A x \in Tasks \ D : S[x] = T[x],
           \A x \in Tasks \ {t} : H[x] > 0 => H2[x] > 0,
           \A x \in D : /\ S[x].caller = T[x].caller /\ S[x].status # "suspended"
                        /\ Succeeds(S[x], T[x]),
           \A x \in D \ {t} : T[x].caller \in D \/ T[T[x].caller].status # "suspended",
           AllAwake(T, H)
    PROVE  /\ Follows(S, T) /\ SameCallers(S, T) /\ AwakeBut(S, H2, t)
           /\ /\ S[t].batch = T[t].batch /\ (Waker(T, H, t) => Waker(S, H2, t))
              => AllAwake(S, H2)
<1>1. Follows(S, T)
  BY RecordsFollow
<1>2. SameCallers(S, T)
  BY DEF SameCallers
<1>3. ASSUME NEW p \in Tasks, S[p].status = "suspended"
      PROVE  /\ S[p] = T[p] /\ Awake(T, H, p, {})
             /\ \A x \in T[p].waitsFor \ {t} : S[x] = T[x] /\ (H[x] > 0 => H2[x] > 0)
  <2>1. p \notin D /\ S[p] = T[p]
    BY <1>3
  <2>2. \A x \in T[p].waitsFor : x \in Tasks /\ T[x].caller = p
    BY DEF Good, Typed, TaskRecord, WaitsForChildren
  <2>3. \A x \in T[p].waitsFor \ {t} : x \notin D
    BY <1>3, <2>1, <2>2
  <2> QED
    BY <2>1, <2>2, <2>3 DEF AllAwake
<1>4. ASSUME NEW p \in Tasks, t \notin S[p].waitsFor PROVE Awake(S, H2, p, {})
  BY <1>3, <1>4 DEF Awake, Waker
<1>5. ASSUME S[t].batch = T[t].batch, Waker(T, H, t) => Waker(S, H2, t), NEW p \in Tasks
      PROVE  Awake(S, H2, p, {})
  <2> SUFFICES ASSUME S[p].status = "suspended" PROVE Awake(S, H2, p, {})
    BY DEF Awake
  <2>1. \A x \in T[p].waitsFor : S[x].batch = T[x].batch /\ (Waker(T, H, x) => Waker(S, H2, x))
    BY <1>3, <1>5 DEF Waker
  <2> QED
    BY <1>3, <2>1 DEF Awake
<1> QED
  BY <1>1, <1>2, <1>4, <1>5 DEF AwakeBut, AllAwake

(* The record a cancel makes of a record. *)
CancelledAs(q, r) ==
    /\ Succeeds(q, r) /\ q.caller = r.caller /\ q.batch = r.batch
    /\ q.status # "suspended"
    /\ q.status = "cancelled" \/ /\ q.status = r.status /\ q.watched = r.watched
                                 /\ q.route = r.route

LEMMA CancelOneSucceeds ==
    ASSUME NEW r \in TaskRecord, r.status # "unborn", NEW x, NEW leased
    PROVE  CancelledAs(CancelOne(r, x \in leased), r)
<1> DEFINE q == CancelOne(r, x \in leased)
<1>1. CASE q = [r EXCEPT !.cancelReq = TRUE] /\ r.status # "suspended"
  <2>1. /\ q.status = r.status /\ q.caller = r.caller /\ q.batch = r.batch
        /\ q.waitsFor = r.waitsFor /\ q.action = r.action /\ q.route = r.route
        /\ q.told = r.told /\ q.watched = r.watched
    BY <1>1 DEF TaskRecord
  <2> QED
    BY <1>1, <2>1 DEF CancelledAs, Succeeds, IsTerminal, Outcome
<1>2. CASE q = r /\ IsTerminal(r)
  BY <1>2 DEF CancelledAs, Succeeds, IsTerminal, Terminal
<1>3. CASE q = Terminated(r) /\ ~IsTerminal(r)
  <2>1. /\ q.status = "cancelled" /\ q.waitsFor = {} /\ q.caller = r.caller
        /\ q.batch = r.batch /\ q.told = r.told
    BY <1>3, TerminatedRecord, NotesStay DEF SameNotes
  <2> QED
    BY <1>3, <2>1 DEF CancelledAs, Succeeds
<1>4. r.status = "suspended" => ~IsTerminal(r)
  BY DEF IsTerminal, Terminal
<1> QED
  BY <1>1, <1>2, <1>3, <1>4 DEF CancelOne

LEMMA CancelTells ==
    ASSUME NEW T, NEW t \in Tasks, NEW H, Good(T), Continues(T[t]), AllAwake(T, H), NEW leased
    PROVE  LET S == CancelAll(T, {t} \union DispatchedDescendants(T, t), leased)
           IN  /\ Follows(S, T) /\ SameCallers(S, T) /\ AwakeBut(S, H, t)
               /\ S[t].status # "cancelled" => AllAwake(S, H)
<1> DEFINE D == {t} \union DispatchedDescendants(T, t)
           S == CancelAll(T, D, leased)
<1>1. D \in SUBSET Tasks /\ \A x \in D : T[x].status # "unborn"
  BY DEF DispatchedDescendants, Below, Born, Continues, Live, Dispatching, DispatchFailed, Unsent
<1>2. ASSUME NEW x \in D \ {t}
      PROVE  T[x].caller \in D \/ T[T[x].caller].status # "suspended"
  <2>1. x \in Below(T, t, Born(T))
    BY <1>2 DEF DispatchedDescendants
  <2>2. T[x].caller \in Below(T, t, Born(T)) \union {t}
    BY <2>1, BelowHasCaller
  <2>3. ASSUME T[T[x].caller].status = "suspended" PROVE Continues(T[T[x].caller])
    BY <2>3 DEF Continues, Live
  <2> QED
    BY <2>2, <2>3 DEF DispatchedDescendants
<1>3. /\ \A x \in Tasks \ D : S[x] = T[x]
      /\ \A x \in D : S[x] = CancelOne(T[x], x \in leased)
  BY <1>1 DEF CancelAll
<1>t. t \in D
  OBVIOUS
<1> HIDE DEF S, D
<1>4. \A x \in D :
        /\ Succeeds(S[x], T[x]) /\ S[x].caller = T[x].caller /\ S[x].batch = T[x].batch
        /\ S[x].status # "suspended"
        /\ S[x].status = "cancelled" \/ /\ S[x].status = T[x].status /\ S[x].watched = T[x].watched
                                        /\ S[x].route = T[x].route
  <2> SUFFICES ASSUME NEW x \in D
               PROVE  /\ Succeeds(S[x], T[x]) /\ S[x].caller = T[x].caller /\ S[x].batch = T[x].batch
                      /\ S[x].status # "suspended"
                      /\ S[x].status = "cancelled"
                         \/ /\ S[x].status = T[x].status /\ S[x].watched = T[x].watched
                            /\ S[x].route = T[x].route
    OBVIOUS
  <2>1. T[x] \in TaskRecord /\ T[x].status # "unborn" /\ S[x] = CancelOne(T[x], x \in leased)
    BY <1>1, <1>3 DEF Good, Typed
  <2>2. CancelledAs(S[x], T[x])
    BY <2>1, CancelOneSucceeds
  <2> QED
    BY <2>2 DEF CancelledAs
<1>5. S[t].status # "cancelled" => (Waker(T, H, t) => Waker(S, H, t))
  BY <1>4, <1>t DEF Waker, IsLive
<1>6. /\ Follows(S, T) /\ SameCallers(S, T) /\ AwakeBut(S, H, t)
      /\ S[t].status # "cancelled" => AllAwake(S, H)
  <2>1. \A x \in D : /\ S[x].caller = T[x].caller /\ S[x].status # "suspended"
                    /\ Succeeds(S[x], T[x])
    BY <1>4
  <2>2. S[t].batch = T[t].batch
    BY <1>4, <1>t
  <2>3. /\ Follows(S, T) /\ SameCallers(S, T) /\ AwakeBut(S, H, t)
        /\ /\ S[t].batch = T[t].batch /\ (Waker(T, H, t) => Waker(S, H, t))
           => AllAwake(S, H)
    BY <1>1, <1>2, <1>3, <2>1, CascadeTells
  <2> QED
    BY <1>5, <2>2, <2>3
<1> QED
  BY <1>6 DEF S, D

LEMMA FailTells ==
    ASSUME NEW T, NEW t \in Tasks, NEW H, Good(T), AllAwake(T, H), IsLive(T[t]),
           NEW leased
    PROVE  LET F == [T EXCEPT ![t] = RouteReset(ApplyFailure(T[t]))]
               S == CancelAll(F, LiveDescendants(F, t), leased)
           IN  /\ Follows(S, T) /\ SameCallers(S, T) /\ AwakeBut(S, H, t)
               /\ S[t].status = "failed" /\ S[t].route = "pending"
<1> DEFINE q == RouteReset(ApplyFailure(T[t]))
           F == [T EXCEPT ![t] = q]
           below == LiveDescendants(F, t)
           D == {t} \union below
           S == CancelAll(F, below, leased)
<1>0. T \in [Tasks -> TaskRecord] /\ T[t].status \in Live
  BY DEF Good, Typed, TaskRecord, IsLive
<1>1. /\ q.status = "failed" /\ q.waitsFor = {} /\ q.caller = T[t].caller
      /\ q.told = T[t].told /\ q.route = "pending"
  <2> DEFINE f == ApplyFailure(T[t])
  <2>1. /\ f \in TaskRecord /\ f.status = "failed"
        /\ f.waitsFor = {} /\ f.caller = T[t].caller /\ f.told = T[t].told
    BY <1>0, FailedRecord, NotesStay DEF SameNotes
  <2> HIDE DEF f
  <2>2. /\ RouteReset(f).status = "failed" /\ RouteReset(f).waitsFor = {}
        /\ RouteReset(f).caller = T[t].caller /\ RouteReset(f).told = T[t].told
        /\ RouteReset(f).route = "pending"
    BY <2>1, RouteResetRecord, NotesStay DEF SameNotes
  <2> QED
    BY <2>2 DEF f
<1>2. F[t] = q /\ \A x \in Tasks \ {t} : F[x] = T[x]
  BY <1>0
<1>3. /\ D \in SUBSET Tasks
      /\ \A x \in D : T[x].status # "unborn"
      /\ t \notin below
  BY <1>0, <1>2 DEF LiveDescendants, Below, Continues, Live, Dispatching, DispatchFailed, Unsent
<1>4. ASSUME NEW x \in D \ {t} PROVE T[x].caller \in D
  <2>1. F[x].caller = T[x].caller
    BY <1>2, <1>3, <1>4
  <2> DEFINE C == {y \in Tasks : Continues(F[y])}
  <2>2. x \in Below(F, t, C)
    BY <1>4 DEF LiveDescendants
  <2>3. below = Below(F, t, C) \ {t}
    BY DEF LiveDescendants
  <2> HIDE DEF F, C, below
  <2>4. F[x].caller \in Below(F, t, C) \union {t}
    BY <2>2, BelowHasCaller
  <2> QED
    BY <2>1, <2>3, <2>4
<1>t. t \in D
  OBVIOUS
<1> HIDE DEF F, q
<1>5. /\ \A x \in Tasks \ D : S[x] = T[x]
      /\ \A x \in below : S[x] = CancelOne(T[x], x \in leased)
      /\ S[t] = q
  BY <1>2, <1>3 DEF CancelAll
<1> HIDE DEF S, below
<1>6. \A x \in below : /\ Succeeds(S[x], T[x]) /\ S[x].caller = T[x].caller
                      /\ S[x].status # "suspended"
  <2> SUFFICES ASSUME NEW x \in below
               PROVE  /\ Succeeds(S[x], T[x]) /\ S[x].caller = T[x].caller
                      /\ S[x].status # "suspended"
    OBVIOUS
  <2>1. T[x] \in TaskRecord /\ T[x].status # "unborn" /\ S[x] = CancelOne(T[x], x \in leased)
    BY <1>0, <1>3, <1>5
  <2>2. CancelledAs(S[x], T[x])
    BY <2>1, CancelOneSucceeds
  <2> QED
    BY <2>2 DEF CancelledAs
<1>7. Succeeds(S[t], T[t]) /\ S[t].caller = T[t].caller /\ S[t].status # "suspended"
  BY <1>0, <1>1, <1>5 DEF Succeeds, IsTerminal, Live, Terminal
<1>8. \A x \in D : /\ S[x].caller = T[x].caller /\ S[x].status # "suspended"
                  /\ Succeeds(S[x], T[x])
  BY <1>6, <1>7
<1> HIDE DEF D
<1>9. Follows(S, T) /\ SameCallers(S, T) /\ AwakeBut(S, H, t)
  BY <1>3, <1>4, <1>5, <1>8, CascadeTells
<1> QED
  BY <1>1, <1>5, <1>9 DEF S, below, F, q

-----------------------------------------------------------------------------
(* Every step keeps what callers were told, and what wakes them. *)

Promised(T, H) == ToldOnce(T) /\ AllAwake(T, H)

Kept(S, T) ==
    /\ StaysTold(S, T)
    /\ \A x \in Tasks : S[x].status = "suspended" /\ T[x].status # "suspended"
           => T[x].status = "completed" /\ T[x].route # "routed"

LEMMA FollowsPromises ==
    ASSUME NEW T, NEW S, NEW H, Good(T), ToldOnce(T), Follows(S, T), SameCallers(S, T),
           AllAwake(S, H)
    PROVE  Promised(S, H) /\ Kept(S, T)
  BY FollowsKeepsTold DEF Promised, Kept, Follows

LEMMA TellsPromises ==
    ASSUME NEW T, NEW U, NEW S, NEW H, NEW t \in Tasks, Good(T), ToldOnce(T),
           Follows(U, T), SameCallers(U, T), Tells(S, U, t, H),
           U = T \/ U[t].status # "completed"
    PROVE  Promised(S, H) /\ Kept(S, T)
<1>1. StaysTold(U, T) /\ ToldOnce(S) /\ StaysTold(S, U) /\ AllAwake(S, H) /\ OnlySuspends(S, U, t)
  BY FollowsKeepsTold DEF Tells
<1>2. StaysTold(S, T)
  BY <1>1, StaysToldOn
<1>3. ASSUME NEW x \in Tasks, S[x].status = "suspended", T[x].status # "suspended"
      PROVE  T[x].status = "completed" /\ T[x].route # "routed"
  BY <1>1, <1>3 DEF OnlySuspends, Follows
<1> QED
  BY <1>1, <1>2, <1>3 DEF Promised, Kept

(* A route that is done, or left to a thread: both promise as much. *)
LEMMA RouteNowPromises ==
    ASSUME ~DiskFails, Inv, ToldOnce(task), NEW t \in Tasks, NEW T, Good(T), Fresh(T),
           Follows(T, task), SameCallers(T, task), AwakeBut(T, threads, t),
           T[t].status = "failed", T[t].route # "routed", RouteNow(T, t)
    PROVE  Promised(task', threads') /\ Kept(task', task)
<1>0. /\ Good(task) /\ IsTerminal(T[t]) /\ T[t].status # "completed" /\ ToldOnce(T)
      /\ threads \in [Tasks -> 0..MaxThreads]
  BY FollowsKeepsTold DEF Inv, Consistent, IsTerminal, Terminal
<1>1. CASE task' \in RouteCompletion(T, t) /\ UNCHANGED threads
  <2>1. Tells(task', T, t, threads)
    BY <1>0, <1>1, RouteCompletionTells
  <2> QED
    BY <1>0, <1>1, <2>1, TellsPromises
<1>2. CASE task' = T /\ threads' = [threads EXCEPT ![t] = @ + 1]
  <2>1. /\ \A x \in Tasks \ {t} : threads'[x] = threads[x]
        /\ threads'[t] > 0
    BY <1>0, <1>2, BoundsAssumption
  <2>2. Waker(T, threads', t)
    BY <2>1 DEF Waker
  <2>3. Succeeds(T[t], T[t])
    BY DEF Succeeds
  <2>4. AwakeBut(T, threads', t)
    BY <2>1, <2>3, OneChanges
  <2>5. AllAwake(T, threads')
    BY <2>2, <2>4, AwakeAgain
  <2> QED
    BY <1>0, <1>2, <2>5, FollowsPromises
<1> QED
  BY <1>1, <1>2 DEF RouteNow

LEMMA StartPromises ==
    ASSUME Inv, Promised(task, threads), NEW t \in Tasks, Start(t)
    PROVE  Promised(task', threads') /\ Kept(task', task)
<1>0. /\ Good(task) /\ ToldOnce(task) /\ AllAwake(task, threads)
      /\ task \in [Tasks -> TaskRecord] /\ task[t] \in TaskRecord
  BY DEF Inv, Consistent, Good, Typed, Promised
<1> DEFINE q == [task[t] EXCEPT !.status = "running"]
<1>1. /\ q.status = "running" /\ q.caller = task[t].caller /\ q.batch = task[t].batch
      /\ q.waitsFor = task[t].waitsFor /\ q.told = task[t].told
  BY <1>0 DEF TaskRecord
<1>2. /\ task' = [task EXCEPT ![t] = q] /\ threads' = threads /\ task[t].status = "pending"
  BY <1>0 DEF Start
<1> HIDE DEF q
<1>3. task'[t] = q /\ \A x \in Tasks \ {t} : task'[x] = task[x]
  BY <1>0, <1>2
<1>4. Succeeds(task'[t], task[t]) /\ Waker(task', threads', t)
  BY <1>1, <1>2, <1>3 DEF Succeeds, IsTerminal, Terminal, Waker, IsLive, Live
<1>5. Follows(task', task) /\ SameCallers(task', task) /\ AllAwake(task', threads')
  BY <1>0, <1>1, <1>2, <1>3, <1>4, OneChanges
<1> QED
  BY <1>0, <1>5, FollowsPromises

LEMMA ReportPromises ==
    ASSUME Inv, Promised(task, threads), NEW t \in Tasks,
           NEW result \in {"finish", "dispatch", "fail", "cancelled"}, Report(t, result)
    PROVE  Promised(task', threads') /\ Kept(task', task)
<1> DEFINE ended == CASE result = "fail" -> "failed"
                      [] result = "cancelled" -> "cancelled"
                      [] OTHER -> "completed"
           r == [task[t] EXCEPT !.action = result]
<1>0. /\ Good(task) /\ Fresh(task) /\ ToldOnce(task) /\ AllAwake(task, threads)
      /\ task \in [Tasks -> TaskRecord] /\ task[t] \in TaskRecord
      /\ threads \in [Tasks -> 0..MaxThreads] /\ task[t].status = "running"
  BY DEF Inv, Consistent, Good, Typed, Promised, Report
<1>1. ended \in Terminal /\ (result = "dispatch" => ended = "completed")
  BY DEF Terminal
<1> HIDE DEF ended
<1>2. ClosedBelow(task, {t}) /\ ~IsTerminal(task[t])
  BY <1>0 DEF ClosedBelow, IsTerminal, Terminal
<1>3. CASE task[t].cancelReq
  <2> DEFINE q == [r EXCEPT !.status = "cancelled", !.route = "routed", !.graceOver = FALSE]
             U == [task EXCEPT ![t] = q]
  <2>1. task' = SettleChild(U, t) /\ threads' = threads
    BY <1>3 DEF Report
  <2>2. /\ q \in TaskRecord /\ q.status = "cancelled" /\ q.route = "routed"
        /\ q.caller = task[t].caller /\ q.batch = task[t].batch /\ q.key = task[t].key
        /\ q.waitsFor = task[t].waitsFor /\ q.stopping = task[t].stopping
        /\ q.round = task[t].round /\ q.told = task[t].told
    BY <1>0 DEF TaskRecord, Terminal
  <2>3. U[t] = q /\ U = [x \in Tasks |-> U[x]] /\ \A x \in Tasks \ {t} : U[x] = task[x]
    BY <1>0
  <2> HIDE DEF U, q
  <2>4. StopsAs(q, task[t])
    BY <1>0, <2>2 DEF StopsAs, IsLive, Live, TaskRecord
  <2>5. Good(U)
    BY <1>0, <1>2, <2>3, <2>4, CascadeKeepsGood
  <2>6. Succeeds(U[t], task[t]) /\ IsTerminal(U[t]) /\ U[t].status \notin {"suspended", "unborn"}
    BY <1>2, <2>2, <2>3 DEF Succeeds, IsTerminal, Terminal
  <2>7. Follows(U, task) /\ SameCallers(U, task) /\ AwakeBut(U, threads, t)
    <3>1. AwakeBut(task, threads, t) /\ U[t].caller = task[t].caller
      BY <1>0, <2>2, <2>3, AllAwakeIsMore
    <3> QED
      BY <1>0, <2>3, <2>6, <3>1, OneChanges
  <2>8. Settles(task', U, {}) /\ AllAwake(task', threads')
    BY <2>1, <2>5, <2>6, <2>7, SettleChildSettles, AllAwakeIsMore
  <2>9. Follows(task', task) /\ SameCallers(task', task)
    BY <2>3, <2>6, <2>7, <2>8, FollowsOn DEF Settles, SameCallers
  <2> QED
    BY <1>0, <2>8, <2>9, FollowsPromises
<1>4. CASE ~task[t].cancelReq
  <2> DEFINE e == [r EXCEPT !.status = ended]
             q == RouteReset(e)
             U == [task EXCEPT ![t] = q]
  <2>1. task' = U /\ threads' = [threads EXCEPT ![t] = @ + 1]
    BY <1>4 DEF Report, ended
  <2>2. /\ e \in TaskRecord /\ e.status = ended /\ e.caller = task[t].caller
        /\ e.waitsFor = task[t].waitsFor /\ e.told = task[t].told
    BY <1>0, <1>1 DEF TaskRecord
  <2> HIDE DEF e
  <2>3. /\ q.status = ended /\ q.caller = task[t].caller /\ q.route = "pending"
        /\ q.waitsFor = task[t].waitsFor /\ q.told = task[t].told
    BY <2>2, RouteResetRecord, NotesStay DEF SameNotes
  <2>4. U[t] = q /\ \A x \in Tasks \ {t} : U[x] = task[x]
    BY <1>0
  <2> HIDE DEF U, q
  <2>5. \A x \in Tasks \ {t} : threads'[x] = threads[x]
    BY <1>0, <2>1
  <2>6. threads'[t] > 0
    BY <1>0, <2>1, BoundsAssumption
  <2>7. Succeeds(U[t], task[t]) /\ U[t].status # "suspended" /\ Waker(U, threads', t)
    BY <1>1, <1>2, <2>3, <2>4, <2>6 DEF Succeeds, IsTerminal, Terminal, Waker
  <2>8. Follows(U, task) /\ SameCallers(U, task) /\ AwakeBut(U, threads', t)
    <3>1. /\ AwakeBut(task, threads, t) /\ U[t].caller = task[t].caller
          /\ \A x \in Tasks \ {t} : U[x] = task[x] /\ (threads[x] > 0 => threads'[x] > 0)
      BY <1>0, <2>3, <2>4, <2>5, AllAwakeIsMore
    <3> QED
      BY <1>0, <2>7, <3>1, OneChanges
  <2>9. AllAwake(U, threads')
    BY <2>7, <2>8, AwakeAgain
  <2> QED
    BY <1>0, <2>1, <2>8, <2>9, FollowsPromises
<1> QED
  BY <1>3, <1>4

LEMMA FailTaskPromises ==
    ASSUME ~DiskFails, Inv, Promised(task, threads), NEW t \in Tasks, FailTask(t)
    PROVE  Promised(task', threads') /\ Kept(task', task)
<1>0. Good(task) /\ Fresh(task) /\ ToldOnce(task) /\ AllAwake(task, threads) /\ IsLive(task[t])
  BY DEF Inv, Consistent, Promised, FailTask, IsLive
<1> DEFINE F == [task EXCEPT ![t] = RouteReset(ApplyFailure(task[t]))]
<1>1. PICK leased \in SUBSET {x \in Tasks : task[x].status = "running"} :
         LET T == CancelAll(F, LiveDescendants(F, t), leased)
         IN IF t \in leased
            THEN /\ task' = [T EXCEPT ![t].stopping = "yes", ![t].watched = TRUE]
                 /\ UNCHANGED threads
            ELSE RouteNow(T, t)
  BY DEF FailTask
<1> DEFINE T == CancelAll(F, LiveDescendants(F, t), leased)
<1>2. Good(T) /\ Fresh(T) /\ T[t].status = "failed"
  BY <1>0, FailKeepsGood
<1>3. /\ Follows(T, task) /\ SameCallers(T, task) /\ AwakeBut(T, threads, t)
      /\ T[t].route = "pending"
  BY <1>0, FailTells, ZenonT(60)
<1>4. /\ t \in leased => /\ task' = [T EXCEPT ![t].stopping = "yes", ![t].watched = TRUE]
                         /\ UNCHANGED threads
      /\ t \notin leased => RouteNow(T, t)
  BY <1>1
<1> HIDE DEF T
<1>5. CASE t \in leased
  <2>1. T \in [Tasks -> TaskRecord] /\ T[t] \in TaskRecord
    BY <1>2 DEF Good, Typed
  <2> DEFINE q == [T[t] EXCEPT !.stopping = "yes", !.watched = TRUE]
  <2>2. task' = [T EXCEPT ![t] = q] /\ threads' = threads
    BY <1>4, <1>5, <2>1
  <2>3. /\ q.status = T[t].status /\ q.waitsFor = T[t].waitsFor /\ q.caller = T[t].caller
        /\ q.action = T[t].action /\ q.told = T[t].told /\ q.watched = TRUE
    BY <2>1 DEF TaskRecord
  <2> HIDE DEF q
  <2>4. task'[t] = q /\ \A x \in Tasks \ {t} : task'[x] = T[x]
    BY <2>1, <2>2
  <2>5. Succeeds(task'[t], T[t]) /\ Waker(task', threads', t)
    BY <2>3, <2>4 DEF Succeeds, IsTerminal, Outcome, Waker
  <2>6. Follows(task', T) /\ SameCallers(task', T) /\ AwakeBut(task', threads', t)
    <3>1. /\ task'[t].caller = T[t].caller /\ task'[t].status # "suspended"
          /\ \A x \in Tasks \ {t} : task'[x] = T[x] /\ (threads[x] > 0 => threads'[x] > 0)
      BY <1>2, <2>2, <2>3, <2>4
    <3> QED
      BY <1>2, <1>3, <2>5, <3>1, OneChanges
  <2>7. Follows(task', task)
    BY <1>3, <2>6, FollowsOn
  <2>8. SameCallers(task', task)
    BY <1>3, <2>3, <2>4 DEF SameCallers
  <2> QED
    BY <1>0, <2>5, <2>6, <2>7, <2>8, AwakeAgain, FollowsPromises
<1>6. CASE t \notin leased
  BY <1>0, <1>2, <1>3, <1>4, <1>6, RouteNowPromises
<1> QED
  BY <1>5, <1>6

LEMMA CancelPromises ==
    ASSUME Inv, Promised(task, threads), NEW t \in Tasks, Cancel(t)
    PROVE  Promised(task', threads') /\ Kept(task', task)
<1>0. /\ Good(task) /\ Fresh(task) /\ ToldOnce(task) /\ AllAwake(task, threads)
      /\ Continues(task[t]) /\ threads' = threads
  BY DEF Inv, Consistent, Promised, Cancel
<1>1. PICK leased \in SUBSET {x \in Tasks : task[x].status = "running"} :
         LET T == CancelAll(task, {t} \union DispatchedDescendants(task, t), leased)
         IN task' = IF T[t].status = "cancelled" THEN SettleChild(T, t) ELSE T
  BY DEF Cancel
<1> DEFINE T == CancelAll(task, {t} \union DispatchedDescendants(task, t), leased)
<1>2. Good(T)
  BY <1>0, CancelKeepsGood
<1>3. /\ Follows(T, task) /\ SameCallers(T, task) /\ AwakeBut(T, threads, t)
      /\ T[t].status # "cancelled" => AllAwake(T, threads)
  BY <1>0, CancelTells
<1>4. task' = IF T[t].status = "cancelled" THEN SettleChild(T, t) ELSE T
  BY <1>1
<1>5. \A x \in Tasks : T[x].status = "unborn" => task[x].status = "unborn"
  <2> SUFFICES ASSUME NEW x \in Tasks, task[x].status # "unborn"
               PROVE  T[x].status # "unborn"
    OBVIOUS
  <2>1. task[x] \in TaskRecord
    BY <1>0 DEF Good, Typed
  <2>2. T[x] = task[x] \/ T[x] = CancelOne(task[x], x \in leased)
    BY DEF CancelAll
  <2> HIDE DEF T
  <2>3. StopsAs(CancelOne(task[x], x \in leased), task[x])
    BY <2>1, CancelOneStops
  <2> QED
    BY <2>2, <2>3 DEF StopsAs
<1> HIDE DEF T
<1>6. CASE T[t].status = "cancelled"
  <2>1. IsTerminal(T[t])
    BY <1>6 DEF IsTerminal, Terminal
  <2>2. Settles(task', T, {}) /\ AllAwake(task', threads')
    BY <1>0, <1>2, <1>3, <1>4, <1>6, <2>1, SettleChildSettles, AllAwakeIsMore
  <2>3. Follows(task', task) /\ SameCallers(task', task)
    BY <1>3, <1>5, <2>2, FollowsOn DEF Settles, SameCallers
  <2> QED
    BY <1>0, <2>2, <2>3, FollowsPromises
<1>7. CASE T[t].status # "cancelled"
  BY <1>0, <1>3, <1>4, <1>7, FollowsPromises
<1> QED
  BY <1>6, <1>7

LEMMA RouteCompletedPromises ==
    ASSUME ~DiskFails, Inv, Promised(task, threads), NEW t \in Tasks, RouteCompleted(t)
    PROVE  Promised(task', threads') /\ Kept(task', task)
<1>0. /\ Good(task) /\ Fresh(task) /\ ToldOnce(task) /\ AllAwake(task, threads)
      /\ task \in [Tasks -> TaskRecord] /\ task[t] \in TaskRecord
      /\ threads \in [Tasks -> 0..MaxThreads] /\ threads[t] > 0 /\ task[t].round # 0
  BY DEF Inv, Consistent, Good, Typed, Promised, RouteCompleted
<1>1. Succeeds(task[t], task[t])
  BY DEF Succeeds
<1>2. CASE task' \in RouteCompletion(task, t) /\ threads' = [threads EXCEPT ![t] = @ - 1]
  <2>1. \A x \in Tasks \ {t} : threads'[x] = threads[x]
    BY <1>0, <1>2
  <2>2. CASE task[t].route = "routed"
    <3>1. task' = task
      BY <1>2, <2>2 DEF RouteCompletion
    <3>2. Waker(task, threads, t) => Waker(task, threads', t)
      BY <2>2 DEF Waker
    <3>3. \A x \in Tasks \ {t} : task[x] = task[x] /\ (threads[x] > 0 => threads'[x] > 0)
      BY <2>1
    <3>4. /\ Follows(task, task) /\ SameCallers(task, task)
          /\ AllAwake(task, threads')
      BY <1>0, <1>1, <3>2, <3>3, OneChanges
    <3> QED
      BY <1>0, <3>1, <3>4, FollowsPromises
  <2>3. CASE task[t].route # "routed"
    <3>1. IsTerminal(task[t])
      BY <1>0, <2>3 DEF Good, RoutedWhileLive, UnbornIsNew, IsLive, IsTerminal, TaskRecord
    <3>2. \A x \in Tasks \ {t} : task[x] = task[x] /\ (threads[x] > 0 => threads'[x] > 0)
      BY <2>1
    <3>3. AwakeBut(task, threads, t)
      BY <1>0, AllAwakeIsMore
    <3>4. /\ Follows(task, task) /\ SameCallers(task, task)
          /\ AwakeBut(task, threads', t)
      BY <1>0, <1>1, <3>2, <3>3, OneChanges
    <3>5. Tells(task', task, t, threads')
      BY <1>0, <1>2, <2>3, <3>1, <3>4, RouteCompletionTells
    <3> QED
      BY <1>0, <3>4, <3>5, TellsPromises
  <2> QED
    BY <2>2, <2>3
<1>3. CASE /\ task[t].status = "completed" /\ IsDispatch(task[t])
           /\ task' = [task EXCEPT ![t] = ApplyFailure(@)] /\ UNCHANGED threads
  <2>1. /\ task'[t] = ApplyFailure(task[t]) /\ \A x \in Tasks \ {t} : task'[x] = task[x]
        /\ threads' = threads
    BY <1>0, <1>3
  <2>2. Succeeds(task'[t], task[t]) /\ task'[t].caller = task[t].caller
        /\ task'[t].status # "suspended"
    BY <1>0, <1>3, <2>1, EndedSucceeds DEF IsDispatch
  <2>3. task'[t].batch = task[t].batch /\ task'[t].route = task[t].route
    BY <1>0, <2>1, FailedRecord
  <2>4. task'[t].watched = task[t].watched
    BY <1>0, <2>1, NotesStay DEF SameNotes
  <2>5. Waker(task, threads, t) => Waker(task', threads', t)
    BY <1>3, <2>1, <2>3, <2>4 DEF Waker, IsLive, Live
  <2>6. Follows(task', task) /\ SameCallers(task', task) /\ AllAwake(task', threads')
    <3>1. \A x \in Tasks \ {t} : task'[x] = task[x] /\ (threads[x] > 0 => threads'[x] > 0)
      BY <2>1
    <3>2. task'[t].status = "suspended" => task'[t].waitsFor = task[t].waitsFor
      BY <2>2
    <3> QED
      BY <1>0, <2>2, <2>3, <2>5, <3>1, <3>2, OneChanges, ZenonT(60)
  <2> QED
    BY <1>0, <2>6, FollowsPromises
<1> QED
  BY <1>2, <1>3 DEF RouteCompleted

(* A note on one record: q differs from r in its stopping, its time-out or its grace. *)
OnlyNotes(q, r) ==
    /\ q.status = r.status /\ q.action = r.action /\ q.waitsFor = r.waitsFor
    /\ q.route = r.route /\ q.caller = r.caller /\ q.batch = r.batch /\ q.told = r.told

LEMMA NoteFollows ==
    ASSUME NEW T, NEW S, NEW t \in Tasks, NEW H, NEW H2, Good(T), AllAwake(T, H),
           NEW q, OnlyNotes(q, T[t]), S = [T EXCEPT ![t] = q],
           \A x \in Tasks : H[x] > 0 => H2[x] > 0
    PROVE  /\ Follows(S, T) /\ SameCallers(S, T) /\ AwakeBut(S, H2, t)
           /\ T[t].watched = q.watched => AllAwake(S, H2)
<1>1. T \in [Tasks -> TaskRecord]
  BY DEF Good, Typed
<1>2. S[t] = q /\ \A x \in Tasks \ {t} : S[x] = T[x]
  BY <1>1
<1>3. /\ Succeeds(S[t], T[t]) /\ S[t].caller = T[t].caller /\ S[t].batch = T[t].batch
      /\ S[t].status = T[t].status /\ S[t].route = T[t].route /\ S[t].waitsFor = T[t].waitsFor
  BY <1>2 DEF OnlyNotes, Succeeds, IsTerminal, Outcome
<1>4. AwakeBut(T, H, t)
  BY AllAwakeIsMore
<1>5. \A x \in Tasks \ {t} : S[x] = T[x] /\ (H[x] > 0 => H2[x] > 0)
  BY <1>2
<1>6. Follows(S, T) /\ SameCallers(S, T) /\ AwakeBut(S, H2, t)
  <2>1. S[t].caller = T[t].caller /\ (S[t].status = "suspended" => S[t].waitsFor = T[t].waitsFor)
    BY <1>3
  <2>2. Follows(S, T) /\ SameCallers(S, T)
    BY <1>2, <1>3, RecordsFollow DEF SameCallers
  <2>3. AwakeBut(S, H2, t)
    BY <1>3, <1>4, <1>5, <2>1, OneChanges, ZenonT(60)
  <2> QED
    BY <2>2, <2>3
<1>7. ASSUME T[t].watched = q.watched PROVE AllAwake(S, H2)
  <2>1. Waker(T, H, t) => Waker(S, H2, t)
    BY <1>2, <1>3, <1>7 DEF Waker, IsLive
  <2> QED
    BY <1>3, <1>5, <2>1, OneChanges
<1> QED
  BY <1>6, <1>7

LEMMA TimersPromise ==
    ASSUME Inv, Promised(task, threads), NEW t \in Tasks,
           ItemTimesOut(t) \/ StopGracePasses(t) \/ TransitGracePasses(t)
    PROVE  Promised(task', threads') /\ Kept(task', task)
<1>0. /\ Good(task) /\ ToldOnce(task) /\ AllAwake(task, threads)
      /\ task \in [Tasks -> TaskRecord] /\ task[t] \in TaskRecord
  BY DEF Inv, Consistent, Good, Typed, Promised
<1>1. PICK q \in {[task[t] EXCEPT !.timedOut = TRUE], [task[t] EXCEPT !.stopping = "over"],
                  [task[t] EXCEPT !.graceOver = TRUE]} : task' = [task EXCEPT ![t] = q]
  BY <1>0 DEF ItemTimesOut, StopGracePasses, TransitGracePasses
<1>2. threads' = threads
  BY DEF ItemTimesOut, StopGracePasses, TransitGracePasses
<1>3. OnlyNotes(q, task[t]) /\ q.watched = task[t].watched
  <2>1. CASE q = [task[t] EXCEPT !.timedOut = TRUE]
    BY <1>0, <2>1 DEF OnlyNotes, TaskRecord
  <2>2. CASE q = [task[t] EXCEPT !.stopping = "over"]
    BY <1>0, <2>2 DEF OnlyNotes, TaskRecord
  <2>3. CASE q = [task[t] EXCEPT !.graceOver = TRUE]
    BY <1>0, <2>3 DEF OnlyNotes, TaskRecord
  <2> QED
    BY <2>1, <2>2, <2>3
<1>t. \A x \in Tasks : threads[x] > 0 => threads[x] > 0
  OBVIOUS
<1>4. Follows(task', task) /\ SameCallers(task', task) /\ AllAwake(task', threads)
  BY <1>0, <1>1, <1>3, <1>t, NoteFollows
<1> QED
  BY <1>0, <1>2, <1>4, FollowsPromises

LEMMA StopReportedPromises ==
    ASSUME Inv, Promised(task, threads), NEW t \in Tasks, StopReported(t)
    PROVE  Promised(task', threads') /\ Kept(task', task)
<1>0. /\ Good(task) /\ ToldOnce(task) /\ AllAwake(task, threads)
      /\ task \in [Tasks -> TaskRecord] /\ task[t] \in TaskRecord
      /\ threads \in [Tasks -> 0..MaxThreads]
  BY DEF Inv, Consistent, Good, Typed, Promised
<1> DEFINE q == [task[t] EXCEPT !.stopping = "no"]
<1>1. task' = [task EXCEPT ![t] = q]
  BY <1>0 DEF StopReported
<1>2. OnlyNotes(q, task[t]) /\ q.watched = task[t].watched
  BY <1>0 DEF OnlyNotes, TaskRecord
<1> HIDE DEF q
<1>3. \A x \in Tasks : threads[x] > 0 => threads'[x] > 0
  <2>1. \A x \in Tasks : threads[x] \in Nat
    BY <1>0, BoundsAssumption
  <2>2. threads' = threads \/ threads' = [threads EXCEPT ![t] = @ + 1]
    BY DEF StopReported
  <2> QED
    BY <1>0, <2>1, <2>2
<1>4. Follows(task', task) /\ SameCallers(task', task) /\ AllAwake(task', threads')
  BY <1>0, <1>1, <1>2, <1>3, NoteFollows
<1> QED
  BY <1>0, <1>4, FollowsPromises

LEMMA TransitCheckPromises ==
    ASSUME ~DiskFails, Inv, Promised(task, threads), NEW t \in Tasks, TransitCheck(t)
    PROVE  Promised(task', threads') /\ Kept(task', task)
<1>0. /\ Good(task) /\ ToldOnce(task) /\ AllAwake(task, threads)
      /\ task \in [Tasks -> TaskRecord] /\ task[t] \in TaskRecord
  BY DEF Inv, Consistent, Good, Typed, Promised
<1> DEFINE T == [task EXCEPT ![t].watched = FALSE, ![t].stopping = "no"]
           q == [task[t] EXCEPT !.watched = FALSE, !.stopping = "no"]
<1>1. T = [task EXCEPT ![t] = q]
  BY <1>0
<1>2. Good(T) /\ Fresh(T) /\ T[t].status = task[t].status
  BY <1>1, NotesKeepGood, ZenonT(60)
<1>3. OnlyNotes(q, task[t])
  BY <1>0 DEF OnlyNotes, TaskRecord
<1>4. T[t] = q
  BY <1>0, <1>1
<1>5. IF task[t].stopping = "over" /\ task[t].route # "routed"
      THEN RouteNow(T, t)
      ELSE task' = TransitEnded(T, t) /\ UNCHANGED threads
  BY DEF TransitCheck
<1> HIDE DEF T, q
<1>6. Follows(T, task) /\ SameCallers(T, task) /\ AwakeBut(T, threads, t)
  <2>1. \A x \in Tasks : threads[x] > 0 => threads[x] > 0
    OBVIOUS
  <2> QED
    BY <1>0, <1>1, <1>3, <2>1, NoteFollows
<1>7. CASE task[t].stopping = "over" /\ task[t].route # "routed"
  <2>1. T[t].status = "failed" /\ T[t].route # "routed"
    BY <1>0, <1>2, <1>3, <1>4, <1>7 DEF Good, StopsWhenOver, OnlyNotes
  <2> QED
    BY <1>0, <1>2, <1>5, <1>6, <1>7, <2>1, RouteNowPromises
<1>8. CASE task' = TransitEnded(T, t) /\ UNCHANGED threads
  <2>1. Settles(task', T, {}) /\ AllAwake(task', threads')
    BY <1>2, <1>6, <1>8, TransitEndedSettles
  <2>2. \A x \in Tasks : T[x].status = task[x].status
    BY <1>0, <1>1, <1>2
  <2>3. Follows(task', task) /\ SameCallers(task', task)
    BY <1>6, <2>1, <2>2, FollowsOn DEF Settles, SameCallers
  <2> QED
    BY <1>0, <2>1, <2>3, FollowsPromises
<1> QED
  BY <1>5, <1>7, <1>8

LEMMA InitPromises == Init => Promised(task, threads)
<1> SUFFICES ASSUME Init PROVE Promised(task, threads)
  OBVIOUS
<1>1. \A x \in Tasks : task[x].told = "nothing" /\ task[x].waitsFor = {}
  BY DEF Init
<1> QED
  BY <1>1 DEF Promised, ToldOnce, AllAwake, Awake

LEMMA NextPromises ==
    ASSUME ~DiskFails, Inv, Promised(task, threads), Next
    PROVE  Promised(task', threads') /\ Kept(task', task)
<1>1. PICK t \in Tasks :
      \/ Start(t)
      \/ \E result \in {"finish", "dispatch", "fail", "cancelled"} : Report(t, result)
      \/ ReportAgain(t) \/ StopReported(t)
      \/ RouteCompleted(t)
      \/ Fail(t) \/ ItemTimesOut(t) \/ Cancel(t)
      \/ StopGracePasses(t) \/ TransitGracePasses(t) \/ TransitCheck(t)
  BY DEF Next
<1>2. CASE Start(t)
  BY <1>2, StartPromises
<1>3. CASE \E result \in {"finish", "dispatch", "fail", "cancelled"} : Report(t, result)
  BY <1>3, ReportPromises
<1>4. CASE ReportAgain(t)
  <2>1. /\ task' = task /\ threads' = [threads EXCEPT ![t] = @ + 1]
        /\ Good(task) /\ ToldOnce(task) /\ AllAwake(task, threads)
        /\ threads \in [Tasks -> 0..MaxThreads]
    BY <1>4 DEF ReportAgain, Inv, Consistent, Promised
  <2>2. \A x \in Tasks : threads[x] > 0 => threads'[x] > 0
    <3>1. \A x \in Tasks : threads[x] \in Nat
      BY <2>1, BoundsAssumption
    <3> QED
      BY <2>1, <3>1
  <2>3. AllAwake(task, threads') /\ Follows(task, task) /\ SameCallers(task, task)
    <3>1. OnlyNotes(task[t], task[t]) /\ task = [task EXCEPT ![t] = task[t]]
      BY <2>1 DEF OnlyNotes, Good, Typed
    <3> QED
      BY <2>1, <2>2, <3>1, NoteFollows
  <2> QED
    BY <2>1, <2>3, FollowsPromises
<1>5. CASE StopReported(t)
  BY <1>5, StopReportedPromises
<1>6. CASE RouteCompleted(t)
  BY <1>6, RouteCompletedPromises
<1>7. CASE Fail(t)
  BY <1>7, FailTaskPromises DEF Fail
<1>8. CASE Cancel(t)
  BY <1>8, CancelPromises
<1>9. CASE ItemTimesOut(t) \/ StopGracePasses(t) \/ TransitGracePasses(t)
  BY <1>9, TimersPromise
<1>10. CASE TransitCheck(t)
  BY <1>10, TransitCheckPromises
<1> QED
  BY <1>1, <1>2, <1>3, <1>4, <1>5, <1>6, <1>7, <1>8, <1>9, <1>10

Promises == Promised(task, threads)

(* What a caller was told is final and told once, and every batch that is     *)
(* waited for has a waker, as long as the event log can be written.          *)
THEOREM PromisesAlways == ~DiskFails /\ Spec => []Promises
<1>1. ASSUME ~DiskFails, Inv, Promises, [Next]_vars PROVE Promises'
  <2>1. CASE Next
    BY <1>1, <2>1, NextPromises DEF Promises
  <2>2. CASE UNCHANGED vars
    BY <1>1, <2>2 DEF Promises, vars
  <2> QED
    BY <1>1, <2>1, <2>2
<1>2. ~DiskFails => (Inv /\ Promises /\ [Next]_vars => Promises')
  BY <1>1
<1>3. Init => Promises
  BY InitPromises DEF Promises
<1>4. CASE ~DiskFails
  BY <1>2, <1>3, <1>4, InvAlways, PTL DEF Spec
<1>5. CASE DiskFails
  BY <1>5
<1> QED
  BY <1>4, <1>5

(* A batch somebody waits for always has an item that is alive, about to be   *)
(* routed or looked at by a timer: for any number of items, threads and       *)
(* failed routes, however late a stopped worker reports.                     *)
THEOREM BatchesAreAwake == ~DiskFails /\ Spec => []BatchHasAWaker
<1>1. Promises => BatchHasAWaker
  BY DEF Promises, Promised, AllAwake, Awake, Waker, IsLive, BatchHasAWaker
<1> QED
  BY <1>1, PromisesAlways, PTL

(* What every step does with what was told, and with a suspension. *)
LEMMA StepKeeps ==
    ASSUME ~DiskFails, Inv, Promises, Next
    PROVE  Kept(task', task)
  BY NextPromises DEF Promises

(* What a caller was handed about a child stays true: the child does not work *)
(* again and its outcome does not change, whatever retries, late routes,     *)
(* cancels and timers follow.                                               *)
THEOREM ToldStaysTrue == ~DiskFails /\ Spec => ToldIsFinal
<1> DEFINE A == \A c \in Tasks : task[c].told # "nothing" =>
                   /\ IsTerminal(task'[c])
                   /\ task'[c].told = task[c].told /\ Outcome(task'[c]) = task[c].told
<1>1. ASSUME ~DiskFails, Inv, Promises, Next PROVE A
  BY <1>1, StepKeeps DEF Kept, StaysTold
<1>2. ~DiskFails => (Inv /\ Promises /\ [Next]_vars => [A]_vars)
  BY <1>1
<1>3. ToldIsFinal <=> [][A]_vars
  BY DEF ToldIsFinal
<1> HIDE DEF A
<1>4. CASE ~DiskFails
  BY <1>2, <1>3, <1>4, InvAlways, PromisesAlways, PTL DEF Spec
<1>5. CASE DiskFails
  BY <1>5
<1> QED
  BY <1>4, <1>5

(* A completion goes out once: a task is suspended by a route only while its  *)
(* latest completion is a dispatch still to be routed, never after it has gone *)
(* on, however many threads and repeated reports push that route.            *)
THEOREM DispatchesGoOutOnce == ~DiskFails /\ Spec => SuspendedOncePerDispatch
<1> DEFINE A == \A t \in Tasks :
                   task'[t].status = "suspended" /\ task[t].status # "suspended"
                       => task[t].status = "completed" /\ task[t].route # "routed"
<1>1. ASSUME ~DiskFails, Inv, Promises, Next PROVE A
  BY <1>1, StepKeeps DEF Kept
<1>2. ~DiskFails => (Inv /\ Promises /\ [Next]_vars => [A]_vars)
  BY <1>1
<1>3. SuspendedOncePerDispatch <=> [][A]_vars
  BY DEF SuspendedOncePerDispatch
<1> HIDE DEF A
<1>4. CASE ~DiskFails
  BY <1>2, <1>3, <1>4, InvAlways, PromisesAlways, PTL DEF Spec
<1>5. CASE DiskFails
  BY <1>5
<1> QED
  BY <1>4, <1>5

=============================================================================
