----------------------------- MODULE MCFileEdits -----------------------------
(* FileEdits for TLC: one session, a bound on what is done to the file, and a *)
(* view that makes its state space finite.                                   *)
EXTENDS FileEdits, FiniteSets

CONSTANT dialogue

OneSession == [t \in Tasks |-> dialogue]

(* Bound: calls made and writes of other programs, together.                 *)
Moved == Cardinality({c \in Calls : call[c].phase # "idle"})
         + Cardinality(Outsiders \ outsiders)
MaxMoves == Cardinality(Calls)

(* Calls are alike before they are made and tasks before they are created:  *)
(* the lower numbers come first.                                             *)
InTurn ==
  /\ \A c, d \in Calls : c < d /\ call[c].phase = "idle" => call[d].phase = "idle"
  /\ \A t, u \in Tasks : t < u /\ status[t] = "unborn" => status[u] = "unborn"

Bounded == InTurn /\ Moved <= MaxMoves

(* The clock only orders events, and a version counts only while it is the   *)
(* file's: no old one ever comes back.  So a state is seen through the order *)
(* of the times that some step still compares, through the versions that are *)
(* current or in the hands of a call, and, once the last edit has begun,     *)
(* without the ledger, which is asked when an edit begins.                   *)
Rank(x, times) == IF x = 0 THEN 0 ELSE 1 + Cardinality({y \in times : 0 < y /\ y < x})

Asked == Moved < MaxMoves
Acting == {call[c].task : c \in {d \in Calls : Busy(d)}}

RECURSIVE Callers(_)
Callers(t) == IF caller[t] = NoTask THEN {} ELSE {caller[t]} \cup Callers(caller[t])

\* A version as it compares with the file now and later.
AsSeen(v) == IF v \in {file, Nothing} THEN v ELSE Absent
InHands == {file} \cup {call[c].base : c \in {d \in Calls : Busy(d)}}

CallsSeen ==
  [c \in Calls |-> IF Busy(c) THEN [call[c] EXCEPT !.entry = AsSeen(@)]
                   ELSE <<call[c].phase, IF c = file THEN call[c].task ELSE NoTask>>]

\* Of the layers to be merged into a session only the newest will be read.
Outdated(t) ==
  /\ stamp[t] # NoStamp /\ status[t] = "over"
  /\ \/ \E u \in Over : SessionOf[u] = SessionOf[t] /\ stamp[t].seen < stamp[u].seen
     \/ stamp[t].seen < shared[SessionOf[t]].seen
Outlived(s) ==
  \E t \in Over : SessionOf[t] = s /\ shared[s].seen <= stamp[t].seen /\ stamp[t] # NoStamp

Remembered(t) ==
  IF "unborn" \in {status[u] : u \in Tasks}
  THEN << Known(t) \cap InHands,
          IF t \in Decided THEN {} ELSE recorded[t] \cap InHands >>
  ELSE Known(t) \cap InHands

Ledger ==
  LET acting == Acting
      active == {t \in Tasks : status[t] # "over"} \cup acting
      layers == {t \in Tasks : stamp[t] # NoStamp /\ ~Outdated(t)}
      sessions == {s \in Sessions : ~Outlived(s)}
      writing == {t \in Tasks : StillWriting(t) /\ stamp[t] = NoStamp}
      holders == Holders
      claims == {since[t] : t \in holders}
      moments == {stamp[t].seen : t \in layers}
                 \cup UNION {{shared[s].seen, shared[s].merged} : s \in sessions}
                 \cup {created[t] : t \in writing}
                 \cup {ended[t] : t \in {u \in Decided : u \in layers \/ u \in acting}}
  IN << status,
        [t \in Tasks |-> IF t \in active \/ \E u \in active : t \in Callers(u)
                         THEN caller[t] ELSE NoTask],
        [t \in active |-> Remembered(t)],
        IF "unborn" \in {status[t] : t \in Tasks}
        THEN [s \in Sessions |-> InHands \cap
                UNION {recorded[u] : u \in {t \in Decided : SessionOf[t] = s}}] ELSE {},
        [t \in Tasks |-> IF t \in holders THEN Rank(since[t], claims) ELSE 0],
        [t \in Tasks |-> IF t \in layers
                         THEN <<AsSeen(stamp[t].version), Rank(stamp[t].seen, moments)>> ELSE 0],
        [s \in Sessions |-> IF s \in sessions
                            THEN <<AsSeen(shared[s].version), Rank(shared[s].seen, moments),
                                   Rank(shared[s].merged, moments)>> ELSE 0],
        [t \in Tasks |-> IF t \in writing THEN Rank(created[t], moments) ELSE 0],
        [t \in Tasks |-> IF t \in Decided /\ (t \in layers \/ t \in acting)
                         THEN Rank(ended[t], moments) ELSE 0] >>

\* What the edits that are under way still depend on.
UnderWay ==
  LET acting == Acting
      writers == acting \cup {call[c].task : c \in Calls \cap {file}}
  IN << {t \in writers : StillWriting(t)},
        [t \in acting |-> <<Callers(t) \cap writers, Known(t) \cap InHands>>] >>

Order == << lock, file, outsiders, CallsSeen, IF Asked THEN Ledger ELSE UnderWay >>
==============================================================================
