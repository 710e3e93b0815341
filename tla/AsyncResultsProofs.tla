------------------------- MODULE AsyncResultsProofs -------------------------
(* What holds of every ledger, for any number of dispatches and rounds: a     *)
(* result is handed over in full at most once, and whoever waits for one is    *)
(* the only one to get it.                                                     *)
(*                                                                             *)
(* The operators of AsyncResults map the supervisor's memory to memory, so the  *)
(* invariant is a predicate on memories, Good(S, j, x).  Within a handler it    *)
(* has two exceptions: the join of the round j may be satisfied or orphaned      *)
(* (it is about to be resumed or released), and the reservation of the child x   *)
(* may be out of date (it is being settled).  Between handlers there is neither. *)
EXTENDS AsyncResults, FiniteSetTheorems, WellFoundedInduction, TLAPS

RoundStates == {"unborn", "pending", "running", "dispatching", "awaiting",
                "waiting", "compacting", "over", "stopped", "ended", "cancelled"}
RoundRecord == [st: RoundStates, ask: Asks, claimed: BOOLEAN, cancelReq: BOOLEAN,
                carries: SUBSET Children, withdrawn: BOOLEAN]
ChildRecord == [st: {"none", "live", "over"}, by: Rounds \union {NoRound},
                kind: {"none", "message", "silent"},
                route: {"none", "pending", "failed", "routed"}]
ResultRecord == [known: BOOLEAN, delivered: {"", "inbound", "join", "dropped"},
                 heldFor: Rounds \union {NoRound}, hold: {"", "await", "round"},
                 callback: Rounds \union {NoRound}]
JoinRecord == [open: BOOLEAN, mode: {"all", "any"}, pending: SUBSET Children,
               settled: SUBSET Children, earlier: SUBSET Children]

Memories == [round: [Rounds -> RoundRecord], child: [Children -> ChildRecord],
             record: [Children -> ResultRecord],
             reserved: [Children -> Rounds \union {NoRound}],
             join: [Rounds -> JoinRecord], logged: SUBSET Children,
             handed: [Children -> Nat], pulled: SUBSET Children]

Born(S, r) == S.round[r].st # "unborn"

(* Results that a join has collected and hands over when it is resumed. *)
InFull(j) == j.settled \ j.earlier

-----------------------------------------------------------------------------
(* One result.                                                               *)

\* Of a child that is not in the ledger nothing is on record.
Unrecorded(S, c) ==
    ~S.record[c].known =>
        /\ S.record[c].delivered = "" /\ S.record[c].heldFor = NoRound
        /\ c \notin S.logged /\ \A r \in Rounds : c \notin S.join[r].settled

\* A result that is kept has a holder, a reason, and no other place.
Kept(S, c) ==
    /\ S.record[c].heldFor = NoRound <=> S.record[c].hold = ""
    /\ S.record[c].heldFor # NoRound =>
          S.record[c].delivered = "" /\ Born(S, S.record[c].heldFor)

\* What a model has seen is marked as delivered, once.
HandedMarked(S, c) ==
    S.handed[c] # 0 => S.handed[c] = 1 /\ S.record[c].delivered \in {"inbound", "join"}

InboundLogged(S, c) == S.record[c].delivered = "inbound" => c \in S.logged

\* A child in the ledger is promised to somebody alive only if it is kept for it.
ReservedKept(S, c) ==
    /\ S.reserved[c] # NoRound => Born(S, S.reserved[c])
    /\ S.record[c].known /\ Alive(S, S.reserved[c]) =>
          S.record[c].heldFor = S.reserved[c] /\ S.record[c].hold = "await"

\* A child that has a message to hand back and is not in the ledger will be routed.
MessageRouted(S, c) ==
    ~S.record[c].known /\ HasMessage(S, c) => S.child[c].route = "pending"

ResultOk(S, c) ==
    Unrecorded(S, c) /\ Kept(S, c) /\ HandedMarked(S, c) /\ InboundLogged(S, c)
    /\ MessageRouted(S, c)

-----------------------------------------------------------------------------
(* One round and its join.                                                   *)

RoundOk(S, r) ==
    /\ S.round[r].withdrawn => S.round[r].st = "cancelled" /\ S.round[r].carries # {}
    /\ ~Born(S, r) => S.round[r].carries = {} /\ ~S.round[r].withdrawn
                      /\ ~S.round[r].claimed /\ ~S.join[r].open
    /\ S.round[r].cancelReq => S.round[r].st \in {"running", "dispatching"}
    /\ S.round[r].st \in {"running", "dispatching", "awaiting", "waiting", "compacting"} =>
          S.round[r].claimed

JoinOk(S, r) ==
    /\ ~S.join[r].open => S.join[r] = NoJoin
    /\ S.join[r].earlier \subseteq S.join[r].settled
    /\ S.join[r].pending \cap S.join[r].settled = {}

Waits(S, r) == S.round[r].st = "awaiting" /\ ~Satisfied(S.join[r])

-----------------------------------------------------------------------------
(* A result and a round.                                                     *)

\* A result that a round brings is on record; nobody has seen it while the round
\* was not claimed.
CarriedOk(S, r, c) ==
    c \in S.round[r].carries =>
        /\ c \in S.logged
        /\ S.round[r].withdrawn \/ S.record[c].delivered = "inbound"
        /\ S.round[r].st = "pending" /\ ~S.round[r].claimed => S.handed[c] = 0

\* A result that a join hands over was handed to nobody.
CollectedOk(S, r, c) ==
    c \in InFull(S.join[r]) => S.record[c].delivered = "join" /\ S.handed[c] = 0

\* What a join waits for is promised to its round, until it is settled.
PendingOk(S, r, c) ==
    c \in S.join[r].pending =>
        IF S.record[c].known THEN S.reserved[c] = NoRound ELSE S.reserved[c] = r

OneCarrier(S) ==
    \A r, q \in Rounds : S.round[r].carries \cap S.round[q].carries # {} => r = q
OneCollector(S) ==
    \A r, q \in Rounds : InFull(S.join[r]) \cap InFull(S.join[q]) # {} => r = q

\* Rounds are started by a message or by results that get their event.
OfUsers(S) == {r \in Rounds : S.round[r].st # "unborn" /\ S.round[r].carries = {}
                              /\ ~S.round[r].withdrawn}
Room(S) == Cardinality(OfUsers(S)) <= MaxMessages

Good(S, j, x) ==
    /\ S \in Memories
    /\ \A c \in Children : ResultOk(S, c) /\ (c # x => ReservedKept(S, c))
    /\ \A r \in Rounds : RoundOk(S, r) /\ JoinOk(S, r)
                         /\ (S.join[r].open /\ r # j => Waits(S, r))
    /\ \A r \in Rounds, c \in Children : CarriedOk(S, r, c) /\ CollectedOk(S, r, c)
                                         /\ (c # x => PendingOk(S, r, c))
    /\ OneCarrier(S) /\ OneCollector(S) /\ Room(S)

NoChild == 0
IInv == Good(Memory, NoRound, NoChild)

-----------------------------------------------------------------------------
(* Folds.  A fold over H goes through the subsets of H, from {} to H; what each *)
(* step keeps, the fold keeps.  This is induction over the number of elements,  *)
(* put as: there is no least number for which it fails.                        *)

LEMMA LeastNat ==
    ASSUME NEW T \in SUBSET Nat, T # {}
    PROVE  \E m \in T : \A n \in T : m <= n
<1>1. IsWellFoundedOn(OpToRel(<, Nat), Nat)
  BY NatLessThanWellFounded
<1>2. PICK m \in T : \A n \in T : ~(<<n, m>> \in OpToRel(<, Nat))
  BY <1>1, WFMin
<1>3. \A n \in T : ~(n < m)
  BY <1>2 DEF OpToRel
<1> QED
  BY <1>3

LEMMA MinIsOne ==
    ASSUME NEW T \in SUBSET Nat, T # {}
    PROVE  Min(T) \in T
<1>1. \E m \in T : \A n \in T : m =< n
  BY LeastNat
<1> QED
  BY <1>1 DEF Min

\* The element that a fold takes out of s.
Taken(s) == CHOOSE x \in s : TRUE

LEMMA TakenOut ==
    ASSUME NEW H, IsFiniteSet(H), NEW s \in SUBSET H, s # {}
    PROVE  /\ Taken(s) \in H /\ Taken(s) \in s /\ s \ {Taken(s)} \in SUBSET H
           /\ Cardinality(s) \in Nat /\ Cardinality(s) # 0
           /\ Cardinality(s \ {Taken(s)}) = Cardinality(s) - 1
<1>1. Taken(s) \in s
  BY DEF Taken
<1>2. IsFiniteSet(s) /\ Cardinality(s) \in Nat
  BY FS_Subset, FS_CardinalityType
<1> QED
  BY <1>1, <1>2, FS_RemoveElement, FS_EmptySet

\* What holds of {} and of each set if it holds of the set without the element
\* taken out holds of all subsets.  G[s] is the set of what is allowed for s.
LEMMA StaysWithin ==
    ASSUME NEW H, IsFiniteSet(H), NEW G, NEW a, a[{}] \in G[{}],
           \A s \in SUBSET H :
              s # {} /\ a[s \ {Taken(s)}] \in G[s \ {Taken(s)}] => a[s] \in G[s]
    PROVE  \A s \in SUBSET H : a[s] \in G[s]
<1> DEFINE Bad == {m \in Nat : \E s \in SUBSET H : Cardinality(s) = m /\ a[s] \notin G[s]}
<1>1. \A s \in SUBSET H : Cardinality(s) \in Nat
  BY FS_Subset, FS_CardinalityType
<1>2. ASSUME Bad # {} PROVE FALSE
  <2>1. PICK m \in Bad : \A n \in Bad : m <= n
    BY <1>2, LeastNat
  <2>2. PICK s \in SUBSET H : Cardinality(s) = m /\ a[s] \notin G[s]
    OBVIOUS
  <2>3. s # {}
    BY <2>2
  <2> DEFINE u == s \ {Taken(s)}
  <2>4. u \in SUBSET H /\ Cardinality(u) = m - 1 /\ m \in Nat /\ m # 0
    BY <2>2, <2>3, TakenOut
  <2>5. a[u] \notin G[u]
    BY <2>2, <2>3
  <2>6. m - 1 \in Bad
    BY <2>4, <2>5
  <2> QED
    BY <2>1, <2>4, <2>6
<1> QED
  BY <1>1, <1>2

\* One turn of a fold with the function step, from what was reached for less.
Turn(step, base, g, s) == IF s = {} THEN base ELSE step[Taken(s)][g[s \ {Taken(s)}]]
Runs(g, step, base, D) == g = [s \in D |-> Turn(step, base, g, s)]
UpTo(H, m) == {s \in SUBSET H : Cardinality(s) <= m}

LEMMA RunExists ==
    ASSUME NEW H, IsFiniteSet(H), NEW base, NEW step
    PROVE  \E g : Runs(g, step, base, SUBSET H)
<1> DEFINE Bad == {m \in Nat : ~\E g : Runs(g, step, base, UpTo(H, m))}
<1>1. \A s \in SUBSET H : Cardinality(s) \in Nat /\ Cardinality(s) <= Cardinality(H)
  BY FS_Subset, FS_CardinalityType
<1>2. ASSUME Bad # {} PROVE FALSE
  <2>1. PICK m \in Bad : \A n \in Bad : m <= n
    BY <1>2, LeastNat
  <2>2. CASE m = 0
    <3> DEFINE g == [s \in UpTo(H, 0) |-> base]
    <3>1. ASSUME NEW s \in UpTo(H, 0), s # {} PROVE FALSE
      <4>1. s \in SUBSET H /\ Cardinality(s) <= 0
        BY <3>1 DEF UpTo
      <4>2. Cardinality(s) \in Nat /\ Cardinality(s) # 0
        BY <3>1, <4>1, TakenOut
      <4> QED
        BY <4>1, <4>2
    <3>2. Runs(g, step, base, UpTo(H, 0))
      BY <3>1 DEF Runs, Turn
    <3> HIDE DEF g
    <3> QED
      BY <2>1, <2>2, <3>2
  <2>3. CASE m # 0
    <3>1. m - 1 \in Nat /\ m - 1 \notin Bad
      BY <2>1, <2>3
    <3>2. PICK h : Runs(h, step, base, UpTo(H, m - 1))
      BY <3>1
    <3> DEFINE g == [s \in UpTo(H, m) |-> Turn(step, base, h, s)]
    <3>3. \A s \in UpTo(H, m) : s # {} => s \ {Taken(s)} \in UpTo(H, m - 1)
      BY <1>1, <3>1, TakenOut DEF UpTo
    <3>4. \A s \in UpTo(H, m - 1) : s \in UpTo(H, m) /\ h[s] = Turn(step, base, h, s)
      BY <1>1, <3>1, <3>2 DEF UpTo, Runs
    <3>5. \A s \in UpTo(H, m - 1) : g[s] = h[s]
      BY <3>4
    <3>6. \A s \in UpTo(H, m) : Turn(step, base, h, s) = Turn(step, base, g, s)
      BY <3>3, <3>5 DEF Turn
    <3>7. Runs(g, step, base, UpTo(H, m))
      BY <3>6 DEF Runs
    <3> HIDE DEF g
    <3> QED
      BY <2>1, <3>7
  <2> QED
    BY <2>2, <2>3
<1>3. Cardinality(H) \in Nat
  BY <1>1
<1>4. UpTo(H, Cardinality(H)) = SUBSET H
  <2> HIDE DEF Bad
  <2> QED
    BY <1>1 DEF UpTo
<1>5. \E g : Runs(g, step, base, UpTo(H, Cardinality(H)))
  BY <1>2, <1>3
<1> QED
  BY <1>4, <1>5

LEMMA FoldExists ==
    ASSUME NEW H, IsFiniteSet(H), NEW G, NEW base \in G[{}], NEW step,
           \A s \in SUBSET H : \A c \in s : \A T \in G[s \ {c}] : step[c][T] \in G[s]
    PROVE  \E g : /\ Runs(g, step, base, SUBSET H)
                  /\ \A s \in SUBSET H : g[s] \in G[s]
<1>1. PICK g : Runs(g, step, base, SUBSET H)
  BY RunExists
<1>2. \A s \in SUBSET H : g[s] = Turn(step, base, g, s)
  BY <1>1 DEF Runs
<1>3. g[{}] \in G[{}]
  BY <1>2 DEF Turn
<1>4. ASSUME NEW s \in SUBSET H, s # {}, g[s \ {Taken(s)}] \in G[s \ {Taken(s)}]
      PROVE  g[s] \in G[s]
  <2>1. Taken(s) \in s
    BY <1>4, TakenOut
  <2>2. g[s] = step[Taken(s)][g[s \ {Taken(s)}]]
    BY <1>2, <1>4 DEF Turn
  <2> QED
    BY <1>4, <2>1, <2>2
<1> QED
  BY <1>1, <1>3, <1>4, StaysWithin

Admitted(base, r, H) == FoldSet(LAMBDA c, T : Admit(T, r, c), base, H)

LEMMA AdmitFold ==
    ASSUME NEW H, IsFiniteSet(H), NEW G, NEW base \in G[{}], NEW r,
           \A s \in SUBSET H : \A c \in s : \A T \in G[s \ {c}] : Admit(T, r, c) \in G[s]
    PROVE  Admitted(base, r, H) \in G[H]
<1> DEFINE U == UNION {G[s] : s \in SUBSET H}
           step == [c \in H |-> [T \in U |-> Admit(T, r, c)]]
           Run(g) == g = [s \in SUBSET H |->
                            IF s = {} THEN base ELSE Admit(g[s \ {Taken(s)}], r, Taken(s))]
           a == CHOOSE g : Run(g)
<1>1. \A s \in SUBSET H : \A T \in G[s] : T \in U
  OBVIOUS
<1>2. \A s \in SUBSET H : \A c \in s : \A T \in G[s \ {c}] : step[c][T] = Admit(T, r, c)
  BY <1>1
<1> HIDE DEF step
<1>3. PICK g : Runs(g, step, base, SUBSET H) /\ \A s \in SUBSET H : g[s] \in G[s]
  <2>1. \A s \in SUBSET H : \A c \in s : \A T \in G[s \ {c}] : step[c][T] \in G[s]
    BY <1>2
  <2> QED
    BY <2>1, FoldExists
<1>4. ASSUME NEW s \in SUBSET H, s # {}
      PROVE  step[Taken(s)][g[s \ {Taken(s)}]] = Admit(g[s \ {Taken(s)}], r, Taken(s))
  <2>1. Taken(s) \in s /\ s \ {Taken(s)} \in SUBSET H
    BY <1>4, TakenOut
  <2>2. g[s \ {Taken(s)}] \in G[s \ {Taken(s)}]
    BY <1>3, <2>1
  <2> QED
    BY <1>2, <2>1, <2>2
<1>5. Run(g)
  BY <1>3, <1>4 DEF Runs, Turn
<1>6. Run(a)
  BY <1>5
<1>7. Admitted(base, r, H) = a[H]
  BY DEF Admitted, FoldSet, MapThenFoldSet, Taken
<1> HIDE DEF a
<1>8. a[{}] \in G[{}]
  BY <1>6
<1>9. ASSUME NEW s \in SUBSET H, s # {}, a[s \ {Taken(s)}] \in G[s \ {Taken(s)}]
      PROVE  a[s] \in G[s]
  <2>1. a[s] = Admit(a[s \ {Taken(s)}], r, Taken(s))
    BY <1>6, <1>9
  <2>2. Taken(s) \in s
    BY <1>9, TakenOut
  <2> QED
    BY <1>9, <2>1, <2>2
<1>10. a[H] \in G[H]
  BY <1>8, <1>9, StaysWithin
<1> QED
  BY <1>7, <1>10

-----------------------------------------------------------------------------
(* The records of results.                                                   *)

\* Everything but the records of results, and what was taken out of a round.
SameElsewhere(T, S) ==
    /\ T.round = S.round /\ T.child = S.child /\ T.reserved = S.reserved
    /\ T.join = S.join /\ T.logged = S.logged /\ T.handed = S.handed

\* No join hands c over, and no round brings it.
Unneeded(S, c) ==
    \A r \in Rounds :
        c \notin InFull(S.join[r]) /\ (c \in S.round[r].carries => S.round[r].withdrawn)

\* What was delivered stays so while it is needed; only the exception enters the ledger.
MarksStay(T, S, x, c) ==
    /\ c # x => T.record[c].known = S.record[c].known
    /\ S.record[c].delivered \in {"inbound", "join"} =>
          T.record[c].delivered = S.record[c].delivered \/ Unneeded(S, c)

LEMMA RecordsMove ==
    ASSUME NEW S, NEW T, NEW j, NEW x, Good(S, j, x), T \in Memories, SameElsewhere(T, S),
           \A c \in Children : MarksStay(T, S, x, c) /\ ResultOk(T, c)
                               /\ (c # x => ReservedKept(T, c))
    PROVE  Good(T, j, x)
<1>1. \A r \in Rounds : RoundOk(T, r) /\ JoinOk(T, r) /\ (T.join[r].open /\ r # j => Waits(T, r))
  BY DEF Good, SameElsewhere, RoundOk, JoinOk, Waits, Satisfied, Born
<1>2. \A r \in Rounds, c \in Children : CarriedOk(T, r, c) /\ CollectedOk(T, r, c)
  BY DEF Good, SameElsewhere, CarriedOk, CollectedOk, MarksStay, Unneeded, InFull
<1>3. \A r \in Rounds, c \in Children : c # x => PendingOk(T, r, c)
  BY DEF Good, SameElsewhere, PendingOk, MarksStay
<1>4. OneCarrier(T) /\ OneCollector(T) /\ Room(T)
  BY DEF Good, SameElsewhere, OneCarrier, OneCollector, Room, OfUsers
<1> QED
  BY <1>1, <1>2, <1>3, <1>4 DEF Good

LEMMA WithRecord ==
    ASSUME NEW S \in Memories, NEW R \in [Children -> ResultRecord]
    PROVE  LET T == [S EXCEPT !.record = R] IN
           T \in Memories /\ SameElsewhere(T, S) /\ T.pulled = S.pulled /\ T.record = R
BY DEF Memories, SameElsewhere

Cleared(T, S, C) ==
    /\ T \in Memories /\ SameElsewhere(T, S) /\ T.pulled = S.pulled
    /\ \A c \in Children :
         T.record[c] = IF c \in C THEN [S.record[c] EXCEPT !.heldFor = NoRound, !.hold = ""]
                       ELSE S.record[c]

LEMMA ClearIs ==
    ASSUME NEW S \in Memories, NEW C
    PROVE  Cleared(Clear(S, C), S, C)
<1> DEFINE R == [c \in Children |->
                   IF c \in C THEN [S.record[c] EXCEPT !.heldFor = NoRound, !.hold = ""]
                   ELSE S.record[c]]
<1>1. \A c \in Children : S.record[c] \in ResultRecord
  BY DEF Memories
<1>2. R \in [Children -> ResultRecord]
  BY <1>1 DEF ResultRecord
<1>3. Clear(S, C) = [S EXCEPT !.record = R]
  BY DEF Clear
<1>4. \A c \in Children :
         R[c] = IF c \in C THEN [S.record[c] EXCEPT !.heldFor = NoRound, !.hold = ""] ELSE S.record[c]
  OBVIOUS
<1> HIDE DEF R
<1>5. LET T == [S EXCEPT !.record = R] IN
      T \in Memories /\ SameElsewhere(T, S) /\ T.pulled = S.pulled /\ T.record = R
  BY <1>2, WithRecord
<1> QED
  BY <1>3, <1>4, <1>5 DEF Cleared

LEMMA ClearKeeps ==
    ASSUME NEW S, NEW j, NEW x, Good(S, j, x), NEW C \in SUBSET Children,
           \A c \in C : ~Alive(S, S.reserved[c])
    PROVE  Good(Clear(S, C), j, x)
<1> DEFINE T == Clear(S, C)
<1>1. S \in Memories
  BY DEF Good
<1>2. /\ T \in Memories /\ SameElsewhere(T, S)
      /\ \A c \in Children :
           T.record[c] = IF c \in C THEN [S.record[c] EXCEPT !.heldFor = NoRound, !.hold = ""]
                         ELSE S.record[c]
  BY <1>1, ClearIs DEF Cleared
<1> HIDE DEF T
<1>3. ASSUME NEW c \in Children
      PROVE  MarksStay(T, S, x, c) /\ ResultOk(T, c) /\ (c # x => ReservedKept(T, c))
  <2>1. ResultOk(S, c) /\ (c # x => ReservedKept(S, c)) /\ S.record[c] \in ResultRecord
    BY <1>1 DEF Good, Memories
  <2>2. /\ T.record[c].known = S.record[c].known
        /\ T.record[c].delivered = S.record[c].delivered
        /\ \/ T.record[c].heldFor = S.record[c].heldFor /\ T.record[c].hold = S.record[c].hold /\ c \notin C
           \/ T.record[c].heldFor = NoRound /\ T.record[c].hold = "" /\ c \in C
    BY <1>2, <2>1 DEF ResultRecord
  <2>3. MarksStay(T, S, x, c)
    BY <2>2 DEF MarksStay
  <2>4. ResultOk(T, c)
    BY <1>2, <2>1, <2>2 DEF ResultOk, Unrecorded, Kept, HandedMarked, InboundLogged, MessageRouted,
                            SameElsewhere, Born, HasMessage
  <2>5. c # x => ReservedKept(T, c)
    BY <1>2, <2>1, <2>2 DEF ReservedKept, SameElsewhere, Born, Alive
  <2> QED
    BY <2>3, <2>4, <2>5
<1>4. Good(T, j, x)
  BY <1>2, <1>3, RecordsMove
<1> QED
  BY <1>4 DEF T

-----------------------------------------------------------------------------
(* A new round for results: there is room for one, since every round that was *)
(* not started by a user brings a result no other round brings.               *)

LEMMA RoundsAreFinite ==
    /\ Rounds \in SUBSET Nat /\ IsFiniteSet(Rounds)
    /\ Cardinality(Rounds) = MaxMessages + MaxDispatches
    /\ Children \in SUBSET Nat /\ IsFiniteSet(Children) /\ Cardinality(Children) = MaxDispatches
    /\ NoRound \notin Rounds /\ NoChild \notin Children
BY BoundsAssumption, FS_Interval DEF Rounds, Children, NoRound, NoChild

LEMMA NextIsUnborn ==
    ASSUME NEW S, \E r \in Rounds : ~Born(S, r)
    PROVE  NextRound(S) \in Rounds /\ ~Born(S, NextRound(S))
<1> DEFINE U == {r \in Rounds : S.round[r].st = "unborn"}
<1>1. U \in SUBSET Nat /\ U # {}
  BY RoundsAreFinite DEF Born
<1>2. Min(U) \in U
  BY <1>1, MinIsOne
<1> QED
  BY <1>2 DEF NextRound, Born

LEMMA RoundLeft ==
    ASSUME NEW S, NEW j, NEW x, Good(S, j, x), NEW d \in Children, d \notin S.logged
    PROVE  NextRound(S) \in Rounds /\ ~Born(S, NextRound(S))
<1> DEFINE Bearers == {r \in Rounds : S.round[r].carries # {}}
           f == [r \in Bearers |-> CHOOSE c \in S.round[r].carries : TRUE]
<1>1. /\ S.logged \in SUBSET (Children \ {d})
      /\ \A r \in Rounds : S.round[r] \in RoundRecord
  BY DEF Good, Memories
<1>2. IsFiniteSet(S.logged) /\ Cardinality(S.logged) <= MaxDispatches - 1
      /\ Cardinality(S.logged) \in Nat
  <2>1. /\ IsFiniteSet(Children \ {d}) /\ Cardinality(Children \ {d}) = MaxDispatches - 1
    BY RoundsAreFinite, FS_RemoveElement
  <2> QED
    BY <1>1, <2>1, FS_Subset, FS_CardinalityType
<1>3. \A r \in Bearers : f[r] \in S.round[r].carries /\ f[r] \in S.logged
  <2>1. ASSUME NEW r \in Bearers PROVE f[r] \in S.round[r].carries /\ f[r] \in S.logged
    <3>1. f[r] \in S.round[r].carries
      OBVIOUS
    <3>2. f[r] \in Children
      BY <1>1, <3>1 DEF RoundRecord
    <3>3. CarriedOk(S, r, f[r])
      BY <3>2 DEF Good
    <3> QED
      BY <3>1, <3>3 DEF CarriedOk
  <2> QED
    BY <2>1
<1>4. f \in Injection(Bearers, S.logged)
  <2>1. f \in [Bearers -> S.logged]
    BY <1>3
  <2>2. ASSUME NEW r \in Bearers, NEW q \in Bearers, f[r] = f[q] PROVE r = q
    BY <1>3, <2>2 DEF Good, OneCarrier
  <2> HIDE DEF f
  <2> QED
    BY <2>1, <2>2 DEF Injection, IsInjective
<1>5. IsFiniteSet(Bearers) /\ Cardinality(Bearers) <= MaxDispatches - 1
      /\ Cardinality(Bearers) \in Nat
  <2> HIDE DEF Bearers, f
  <2> QED
    BY <1>2, <1>4, FS_Injection, FS_CardinalityType, BoundsAssumption
<1>6. ASSUME \A r \in Rounds : Born(S, r) PROVE FALSE
  <2> DEFINE Users == OfUsers(S)
  <2>1. Users \in SUBSET Rounds
    BY DEF OfUsers
  <2>2. IsFiniteSet(Users) /\ Cardinality(Users) \in Nat /\ Cardinality(Users) <= MaxMessages
    BY <2>1, RoundsAreFinite, FS_Subset, FS_CardinalityType DEF Good, Room
  <2>3. Rounds = Users \cup Bearers
    BY <1>6 DEF Good, RoundOk, OfUsers, Born
  <2> HIDE DEF Users, Bearers
  <2>4. Cardinality(Users \cup Bearers) <= Cardinality(Users) + Cardinality(Bearers)
    <3>1. Cardinality(Users \cap Bearers) \in Nat
      BY <2>2, FS_Intersection, FS_CardinalityType
    <3>2. Cardinality(Users \cup Bearers)
            = Cardinality(Users) + Cardinality(Bearers) - Cardinality(Users \cap Bearers)
      BY <1>5, <2>2, FS_Union
    <3> QED
      BY <1>5, <2>2, <3>1, <3>2
  <2> QED
    BY <1>5, <2>2, <2>3, <2>4, RoundsAreFinite, BoundsAssumption
<1> QED
  BY <1>6, NextIsUnborn

-----------------------------------------------------------------------------
(* AwaitedStaysHome across the operators.                                    *)

\* Whoever awaited c has its result, or will get it, or there is none to hand back.
Bound(S, c, w) ==
    \/ S.reserved[c] = w
    \/ c \in InFull(S.join[w])
    \/ S.handed[c] # 0
    \/ c \in S.logged
    \/ S.child[c].st = "over" /\ ~HasMessage(S, c)

\* From S to T nobody comes back to life, and no result that is bound to a round
\* that lives on is loosed or becomes a round.
Onward(S, T) ==
    /\ \A r \in Rounds : Born(S, r) => Born(T, r) /\ (Alive(T, r) => Alive(S, r))
    /\ \A c \in Children, w \in Rounds :
          Alive(S, w) /\ Alive(T, w) /\ Bound(S, c, w) =>
             /\ Bound(T, c, w)
             /\ \A r \in Rounds : c \in T.round[r].carries => c \in S.round[r].carries

LEMMA OnwardTwice ==
    ASSUME NEW S, NEW T, NEW U, Onward(S, T), Onward(T, U)
    PROVE  Onward(S, U)
<1>1. \A r \in Rounds : Alive(S, r) => Born(S, r)
  BY DEF Alive, Born
<1>2. ASSUME NEW r \in Rounds, Born(S, r) PROVE Born(U, r) /\ (Alive(U, r) => Alive(S, r))
  BY <1>2 DEF Onward
<1>3. ASSUME NEW c \in Children, NEW w \in Rounds, Alive(S, w), Alive(U, w), Bound(S, c, w)
      PROVE  /\ Bound(U, c, w)
             /\ \A r \in Rounds : c \in U.round[r].carries => c \in S.round[r].carries
  <2>1. Alive(T, w)
    BY <1>1, <1>3 DEF Onward
  <2>2. Bound(T, c, w) /\ \A r \in Rounds : c \in T.round[r].carries => c \in S.round[r].carries
    BY <1>3, <2>1 DEF Onward
  <2>3. Bound(U, c, w) /\ \A r \in Rounds : c \in U.round[r].carries => c \in T.round[r].carries
    BY <1>3, <2>1, <2>2 DEF Onward
  <2> QED
    BY <2>2, <2>3
<1> QED
  BY <1>2, <1>3 DEF Onward

LEMMA OnwardHere == \A S : Onward(S, S)
BY DEF Onward

LEMMA OnwardBesides ==
    ASSUME NEW S, NEW T, SameElsewhere(T, S)
    PROVE  Onward(S, T)
BY DEF SameElsewhere, Onward, Bound, Born, Alive, HasMessage, InFull

-----------------------------------------------------------------------------
(* Deliver, HandBack.                                                        *)

\* Of the results in C some get an event and a new round; the rest stays.
NewsOnly(S, T, C) ==
    /\ T.child = S.child /\ T.reserved = S.reserved /\ T.join = S.join
    /\ T.handed = S.handed /\ T.pulled = S.pulled
    /\ S.logged \in SUBSET T.logged /\ T.logged \ S.logged \in SUBSET C
    /\ \A c \in Children : T.record[c].known = S.record[c].known
    /\ \A c \in Children \ C : T.record[c] = S.record[c]
    /\ \A r \in Rounds : Born(S, r) => T.round[r] = S.round[r]

LEMMA NewsTwice ==
    ASSUME NEW S, NEW T, NEW U, NEW C, NewsOnly(S, T, C), NewsOnly(T, U, C)
    PROVE  NewsOnly(S, U, C)
BY DEF NewsOnly, Born

Returnable(S, c) ==
    S.record[c].known /\ S.record[c].delivered = "" /\ ~Alive(S, S.reserved[c])
Loose(S, c) == Returnable(S, c) /\ S.record[c].heldFor = NoRound

\* The results in C get their event, and those in fresh, which had none, start the round k.
Delivered(T, S, C, fresh, k) ==
    /\ T \in Memories
    /\ T.child = S.child /\ T.reserved = S.reserved /\ T.join = S.join
    /\ T.handed = S.handed /\ T.pulled = S.pulled
    /\ T.logged = S.logged \cup fresh
    /\ \A c \in Children :
         T.record[c] = IF c \in C
                       THEN [S.record[c] EXCEPT !.callback = k,
                               !.delivered = IF @ = "" THEN "inbound" ELSE @]
                       ELSE S.record[c]
    /\ \A r \in Rounds :
         T.round[r] = IF r = k THEN [S.round[r] EXCEPT !.st = "pending", !.carries = fresh]
                      ELSE S.round[r]

LEMMA DeliverIs ==
    ASSUME NEW S \in Memories, NEW C \in SUBSET Children,
           C \ S.logged # {} => NextRound(S) \in Rounds
    PROVE  LET fresh == C \ S.logged
           IN Delivered(Deliver(S, C), S, C, fresh, IF fresh = {} THEN NoRound ELSE NextRound(S))
<1> DEFINE fresh == C \ S.logged
           k == IF fresh = {} THEN NoRound ELSE NextRound(S)
           marked == [c \in Children |->
                     IF c \in C THEN [S.record[c] EXCEPT !.callback = k,
                                                         !.delivered = IF @ = "" THEN "inbound" ELSE @]
                     ELSE S.record[c]]
           T0 == [S EXCEPT !.record = marked, !.logged = @ \union fresh]
           T1 == [T0 EXCEPT !.round[k].st = "pending", !.round[k].carries = fresh]
           moved == [S.round EXCEPT ![k] = [@ EXCEPT !.st = "pending", !.carries = fresh]]
<1>1. Deliver(S, C) = IF fresh = {} THEN T0 ELSE T1
  BY DEF Deliver
<1>2. \A c \in Children : S.record[c] \in ResultRecord
  BY DEF Memories
<1>3. k \in Rounds \cup {NoRound}
  OBVIOUS
<1>4. marked \in [Children -> ResultRecord]
  <2> HIDE DEF k
  <2> QED
    BY <1>2, <1>3 DEF ResultRecord
<1>5. \A c \in Children : marked[c] = IF c \in C
         THEN [S.record[c] EXCEPT !.callback = k, !.delivered = IF @ = "" THEN "inbound" ELSE @]
         ELSE S.record[c]
  OBVIOUS
<1>6. fresh \in SUBSET Children
  OBVIOUS
<1> HIDE DEF marked
<1>7. /\ T0 \in Memories /\ T0.record = marked /\ T0.logged = S.logged \cup fresh
      /\ T0.round = S.round /\ T0.child = S.child /\ T0.reserved = S.reserved /\ T0.join = S.join
      /\ T0.handed = S.handed /\ T0.pulled = S.pulled
  BY <1>4, <1>6 DEF Memories
<1>8. CASE fresh = {}
  <2>1. \A r \in Rounds : r # NoRound
    BY RoundsAreFinite
  <2>2. k \notin Rounds /\ Deliver(S, C) = T0
    BY <1>1, <1>8, <2>1
  <2> HIDE DEF fresh, k, T0
  <2>3. Delivered(T0, S, C, fresh, k)
    BY <1>5, <1>7, <2>2 DEF Delivered
  <2> QED
    BY <2>2, <2>3 DEF fresh, k
<1>9. CASE fresh # {}
  <2>1. k \in Rounds /\ k = NextRound(S)
    BY <1>9
  <2> HIDE DEF k, T0, fresh
  <2>2. moved \in [Rounds -> RoundRecord]
    <3>1. S.round \in [Rounds -> RoundRecord] /\ S.round[k] \in RoundRecord
      BY <2>1 DEF Memories
    <3>2. [S.round[k] EXCEPT !.st = "pending", !.carries = fresh] \in RoundRecord
      BY <1>6, <3>1 DEF RoundRecord, RoundStates
    <3> QED
      BY <3>1, <3>2
  <2>3. /\ T1 \in Memories /\ T1.round = moved /\ T1.record = marked /\ T1.logged = T0.logged
        /\ T1.child = S.child /\ T1.reserved = S.reserved /\ T1.join = S.join
        /\ T1.handed = S.handed /\ T1.pulled = S.pulled
    BY <1>7, <2>1, <2>2 DEF Memories
  <2>4. \A r \in Rounds : moved[r] = IF r = k
           THEN [S.round[r] EXCEPT !.st = "pending", !.carries = fresh] ELSE S.round[r]
    BY DEF Memories
  <2>5. Deliver(S, C) = T1
    BY <1>1, <1>9
  <2> HIDE DEF T1, moved
  <2>6. Delivered(T1, S, C, fresh, k)
    BY <1>5, <1>7, <2>3, <2>4 DEF Delivered
  <2> QED
    BY <2>5, <2>6 DEF fresh, k
<1> QED
  BY <1>8, <1>9

LEMMA DeliverKeeps ==
    ASSUME NEW S, NEW j, NEW x, Good(S, j, x), NEW C \in SUBSET Children,
           \A c \in C : Loose(S, c)
    PROVE  LET T == Deliver(S, C) IN
           /\ Good(T, j, x) /\ NewsOnly(S, T, C)
           /\ (\A c \in C : HasMessage(S, c)) => Onward(S, T)
<1> DEFINE T == Deliver(S, C)
           fresh == C \ S.logged
           k == IF fresh = {} THEN NoRound ELSE NextRound(S)
<1>1. S \in Memories
  BY DEF Good
<1>2. fresh # {} => k \in Rounds /\ ~Born(S, k)
  BY RoundLeft
<1>3. /\ T \in Memories
      /\ T.child = S.child /\ T.reserved = S.reserved /\ T.join = S.join
      /\ T.handed = S.handed /\ T.pulled = S.pulled
      /\ T.logged = S.logged \cup fresh
      /\ \A c \in Children :
           T.record[c] = IF c \in C
                         THEN [S.record[c] EXCEPT !.callback = k,
                                 !.delivered = IF @ = "" THEN "inbound" ELSE @]
                         ELSE S.record[c]
      /\ \A r \in Rounds :
           T.round[r] = IF r = k THEN [S.round[r] EXCEPT !.st = "pending", !.carries = fresh]
                        ELSE S.round[r]
  <2>1. Delivered(T, S, C, fresh, k)
    BY <1>1, <1>2, DeliverIs
  <2> QED
    BY <2>1 DEF Delivered
<1>4. \A r \in Rounds : r # NoRound
  BY RoundsAreFinite
<1>5. fresh = {} => k = NoRound
  OBVIOUS
<1> HIDE DEF T, k
<1>6. ASSUME NEW c \in Children
      PROVE  /\ T.record[c].known = S.record[c].known
             /\ T.record[c].heldFor = S.record[c].heldFor /\ T.record[c].hold = S.record[c].hold
             /\ c \in C => T.record[c].delivered = "inbound" /\ S.record[c].delivered = ""
                           /\ S.record[c].known /\ S.record[c].heldFor = NoRound
                           /\ S.handed[c] = 0
             /\ c \notin C => T.record[c].delivered = S.record[c].delivered
  <2>1. S.record[c] \in ResultRecord /\ HandedMarked(S, c)
    BY <1>1 DEF Memories, Good, ResultOk
  <2>2. CASE c \in C
    <3>1. /\ S.record[c].known /\ S.record[c].delivered = "" /\ S.record[c].heldFor = NoRound
      BY <2>2 DEF Loose, Returnable
    <3>2. S.handed[c] = 0
      BY <2>1, <3>1 DEF HandedMarked
    <3>3. T.record[c] = [S.record[c] EXCEPT !.callback = k, !.delivered = "inbound"]
      BY <1>3, <2>1, <2>2, <3>1 DEF ResultRecord
    <3> QED
      BY <2>1, <2>2, <3>1, <3>2, <3>3 DEF ResultRecord
  <2>3. CASE c \notin C
    <3>1. T.record[c] = S.record[c]
      BY <1>3, <2>3
    <3> QED
      BY <2>3, <3>1
  <2> QED
    BY <2>2, <2>3
<1>7. ASSUME NEW r \in Rounds, r # k PROVE T.round[r] = S.round[r]
  BY <1>3, <1>7
<1>8. ASSUME NEW r \in Rounds, r = k
      PROVE  /\ T.round[r] = [S.round[r] EXCEPT !.st = "pending", !.carries = fresh]
             /\ T.round[r].st = "pending" /\ T.round[r].carries = fresh /\ fresh # {}
             /\ ~T.round[r].withdrawn /\ ~T.round[r].cancelReq /\ ~T.round[r].claimed
             /\ ~Born(S, r) /\ ~S.join[r].open /\ S.round[r].carries = {}
  <2>1. S.round[r] \in RoundRecord /\ RoundOk(S, r) /\ ~Born(S, r) /\ fresh # {}
    BY <1>1, <1>2, <1>4, <1>5, <1>8 DEF Memories, Good
  <2>2. T.round[r] = [S.round[r] EXCEPT !.st = "pending", !.carries = fresh]
    BY <1>3, <1>8
  <2> QED
    BY <2>1, <2>2 DEF RoundRecord, RoundOk, Born
<1>9. \A r \in Rounds : Born(S, r) => T.round[r] = S.round[r] /\ Born(T, r)
  BY <1>7, <1>8 DEF Born
<1>10. ASSUME NEW c \in Children PROVE ResultOk(T, c) /\ (c # x => ReservedKept(T, c))
  <2>1. ResultOk(S, c) /\ (c # x => ReservedKept(S, c)) /\ S.record[c].heldFor \in Rounds \cup {NoRound}
        /\ S.reserved[c] \in Rounds \cup {NoRound}
    BY <1>1 DEF Good, Memories, ResultRecord
  <2>2. Unrecorded(T, c)
    BY <1>3, <1>6, <2>1 DEF ResultOk, Unrecorded
  <2>3. Kept(T, c)
    BY <1>6, <1>9, <2>1 DEF ResultOk, Kept
  <2>4. HandedMarked(T, c) /\ InboundLogged(T, c) /\ MessageRouted(T, c)
    BY <1>3, <1>6, <2>1 DEF ResultOk, HandedMarked, InboundLogged, MessageRouted, HasMessage
  <2>5. c # x => ReservedKept(T, c)
    <3>1. CASE S.reserved[c] = NoRound
      BY <1>3, <3>1 DEF ReservedKept, Alive
    <3>2. CASE S.reserved[c] # NoRound /\ c # x
      <4>1. Born(S, S.reserved[c]) /\ S.reserved[c] \in Rounds
        BY <2>1, <3>2 DEF ReservedKept
      <4>2. T.round[S.reserved[c]] = S.round[S.reserved[c]] /\ Born(T, S.reserved[c])
        BY <1>9, <4>1
      <4>3. /\ T.reserved[c] = S.reserved[c] /\ T.record[c].known = S.record[c].known
            /\ T.record[c].heldFor = S.record[c].heldFor /\ T.record[c].hold = S.record[c].hold
        BY <1>3, <1>6
      <4>4. Alive(T, S.reserved[c]) <=> Alive(S, S.reserved[c])
        BY <4>2 DEF Alive
      <4> QED
        BY <2>1, <3>2, <4>2, <4>3, <4>4 DEF ReservedKept
    <3> QED
      BY <3>1, <3>2
  <2> QED
    BY <2>2, <2>3, <2>4, <2>5 DEF ResultOk
<1>11. ASSUME NEW r \in Rounds
       PROVE  RoundOk(T, r) /\ JoinOk(T, r) /\ (T.join[r].open /\ r # j => Waits(T, r))
  <2>1. RoundOk(S, r) /\ JoinOk(S, r) /\ (S.join[r].open /\ r # j => Waits(S, r))
    BY DEF Good
  <2>2. RoundOk(T, r)
    BY <1>3, <1>7, <1>8, <2>1 DEF RoundOk, Born
  <2> QED
    BY <1>3, <1>7, <1>8, <2>1, <2>2 DEF JoinOk, Waits
<1>12. ASSUME NEW r \in Rounds, NEW c \in Children
       PROVE  CarriedOk(T, r, c) /\ CollectedOk(T, r, c) /\ (c # x => PendingOk(T, r, c))
  <2>1. CarriedOk(S, r, c) /\ CollectedOk(S, r, c) /\ (c # x => PendingOk(S, r, c))
    BY DEF Good
  <2>2. CarriedOk(T, r, c)
    <3>1. CASE r = k
      <4>1. c \in T.round[r].carries => c \in fresh /\ c \in C
        BY <1>8, <3>1
      <4>2. c \in fresh => c \in T.logged
        BY <1>3
      <4>3. c \in C => T.record[c].delivered = "inbound" /\ T.handed[c] = 0
        BY <1>3, <1>6
      <4> QED
        BY <4>1, <4>2, <4>3 DEF CarriedOk
    <3>2. CASE r # k
      <4>1. T.round[r] = S.round[r]
        BY <1>7, <3>2
      <4>2. S.record[c].delivered = "inbound" => T.record[c].delivered = "inbound"
        BY <1>6
      <4> QED
        BY <1>3, <2>1, <4>1, <4>2 DEF CarriedOk
    <3> QED
      BY <3>1, <3>2
  <2>3. CollectedOk(T, r, c)
    BY <1>3, <1>6, <2>1 DEF CollectedOk
  <2>4. c # x => PendingOk(T, r, c)
    BY <1>3, <1>6, <2>1 DEF PendingOk
  <2> QED
    BY <2>2, <2>3, <2>4
<1>13. OneCarrier(T)
  <2>1. ASSUME NEW r \in Rounds, NEW q \in Rounds, NEW c \in Children,
               c \in T.round[r].carries, c \in T.round[q].carries
        PROVE  r = q
    <3>1. CarriedOk(S, r, c) /\ CarriedOk(S, q, c)
      BY DEF Good
    <3>2. c \in S.round[r].carries /\ c \in S.round[q].carries => r = q
      BY DEF Good, OneCarrier
    <3> QED
      BY <1>7, <1>8, <2>1, <3>1, <3>2 DEF CarriedOk
  <2>2. \A r \in Rounds : T.round[r].carries \in SUBSET Children
    BY <1>3 DEF Memories, RoundRecord
  <2> QED
    BY <2>1, <2>2 DEF OneCarrier
<1>14. OneCollector(T)
  BY <1>3 DEF Good, OneCollector
<1>15. Room(T)
  <2>1. OfUsers(T) = OfUsers(S)
    BY <1>7, <1>8 DEF OfUsers, Born
  <2> QED
    BY <2>1 DEF Good, Room
<1>16. Good(T, j, x)
  BY <1>3, <1>10, <1>11, <1>12, <1>13, <1>14, <1>15 DEF Good
<1>17. NewsOnly(S, T, C)
  BY <1>3, <1>6, <1>9 DEF NewsOnly
<1>18. ASSUME \A c \in C : HasMessage(S, c) PROVE Onward(S, T)
  <2>1. ASSUME NEW r \in Rounds, Born(S, r) PROVE Born(T, r) /\ (Alive(T, r) => Alive(S, r))
    BY <1>9, <2>1 DEF Alive
  <2>2. ASSUME NEW c \in Children, NEW w \in Rounds, Alive(S, w), Bound(S, c, w)
        PROVE  /\ Bound(T, c, w)
               /\ \A r \in Rounds : c \in T.round[r].carries => c \in S.round[r].carries
    <3>1. Bound(T, c, w)
      BY <1>3, <2>2 DEF Bound, HasMessage
    <3>2. c \in fresh => FALSE
      <4>1. CASE c \in C /\ c \notin S.logged
        <5>1. Loose(S, c) /\ HasMessage(S, c) /\ CollectedOk(S, w, c) /\ S.handed[c] = 0
          BY <1>6, <1>18, <4>1 DEF Good
        <5> QED
          BY <2>2, <4>1, <5>1 DEF Loose, Returnable, Bound, CollectedOk
      <4> QED
        BY <4>1
    <3> QED
      BY <1>7, <1>8, <3>1, <3>2
  <2> QED
    BY <2>1, <2>2 DEF Onward
<1> QED
  BY <1>16, <1>17, <1>18 DEF T

LEMMA HandBackKeeps ==
    ASSUME NEW S, NEW j, NEW x, Good(S, j, x), NEW C \in SUBSET Children, NEW drop \in BOOLEAN,
           \A c \in C : Returnable(S, c)
    PROVE  LET T == HandBack(S, C, drop) IN
           Good(T, j, x) /\ NewsOnly(S, T, C) /\ Onward(S, T)
<1> DEFINE T == Clear(S, C)
           due == {c \in C : HasMessage(S, c)}
           R == [c \in Children |->
                   IF c \in C THEN [T.record[c] EXCEPT !.delivered = "dropped"] ELSE T.record[c]]
           D == [T EXCEPT !.record = R]
<1>1. S \in Memories
  BY DEF Good
<1>2. /\ T \in Memories /\ SameElsewhere(T, S) /\ T.pulled = S.pulled
      /\ \A c \in Children :
           T.record[c] = IF c \in C THEN [S.record[c] EXCEPT !.heldFor = NoRound, !.hold = ""]
                         ELSE S.record[c]
  BY <1>1, ClearIs DEF Cleared
<1>3. Good(T, j, x)
  BY ClearKeeps DEF Returnable
<1>4. HandBack(S, C, drop) = IF drop THEN D ELSE IF due = {} THEN T ELSE Deliver(T, due)
  BY DEF HandBack
<1> HIDE DEF T
<1>5. ASSUME NEW c \in Children
      PROVE  /\ T.record[c] \in ResultRecord
             /\ T.record[c].known = S.record[c].known
             /\ T.record[c].delivered = S.record[c].delivered
             /\ c \in C => T.record[c].heldFor = NoRound /\ T.record[c].hold = ""
             /\ c \notin C => T.record[c] = S.record[c]
  <2>1. S.record[c] \in ResultRecord /\ T.record[c] \in ResultRecord
    BY <1>1, <1>2 DEF Memories
  <2> QED
    BY <1>2, <2>1 DEF ResultRecord
<1>6. NewsOnly(S, T, C)
  BY <1>2, <1>5 DEF NewsOnly, SameElsewhere
<1>7. Onward(S, T)
  BY <1>2, OnwardBesides
<1>8. CASE drop
  <2>1. R \in [Children -> ResultRecord]
    <3>1. \A c \in Children : [T.record[c] EXCEPT !.delivered = "dropped"] \in ResultRecord
      <4> TAKE c \in Children
      <4>1. T.record[c] \in ResultRecord
        BY <1>5
      <4> HIDE DEF T
      <4> QED
        BY <4>1 DEF ResultRecord
    <3> QED
      BY <1>5, <3>1
  <2>2. \A c \in Children :
           R[c] = IF c \in C THEN [T.record[c] EXCEPT !.delivered = "dropped"] ELSE T.record[c]
    OBVIOUS
  <2> HIDE DEF R
  <2>3. D \in Memories /\ SameElsewhere(D, T) /\ D.pulled = T.pulled /\ D.record = R
    <3>1. T \in Memories
      BY <1>2
    <3>2. LET E == [T EXCEPT !.record = R] IN
          E \in Memories /\ SameElsewhere(E, T) /\ E.pulled = T.pulled /\ E.record = R
      BY <2>1, <3>1, WithRecord
    <3> QED
      BY <3>2
  <2> HIDE DEF D
  <2>4. ASSUME NEW c \in Children
        PROVE  /\ D.record[c].known = T.record[c].known
               /\ D.record[c].heldFor = T.record[c].heldFor /\ D.record[c].hold = T.record[c].hold
               /\ c \notin C => D.record[c] = T.record[c]
               /\ c \in C => D.record[c].delivered = "dropped" /\ T.record[c].delivered = ""
                             /\ T.record[c].known /\ T.record[c].heldFor = NoRound
    <3>1. T.record[c] \in ResultRecord /\ D.record[c] = R[c]
      BY <1>5, <2>3
    <3>2. CASE c \in C
      <4>1. D.record[c] = [T.record[c] EXCEPT !.delivered = "dropped"]
        BY <2>2, <3>1, <3>2
      <4>2. Returnable(S, c)
        BY <3>2
      <4>3. T.record[c].known /\ T.record[c].delivered = "" /\ T.record[c].heldFor = NoRound
        BY <1>5, <3>2, <4>2 DEF Returnable
      <4>4. /\ D.record[c].delivered = "dropped" /\ D.record[c].heldFor = T.record[c].heldFor
            /\ D.record[c].hold = T.record[c].hold
            /\ D.record[c].known = T.record[c].known
        BY <3>1, <4>1 DEF ResultRecord
      <4> QED
        BY <3>2, <4>3, <4>4
    <3>3. CASE c \notin C
      BY <2>2, <3>1, <3>3
    <3> QED
      BY <3>2, <3>3
  <2>5. ASSUME NEW c \in Children
        PROVE  MarksStay(D, T, x, c) /\ ResultOk(D, c) /\ (c # x => ReservedKept(D, c))
    <3>1. ResultOk(T, c) /\ (c # x => ReservedKept(T, c))
      BY <1>3 DEF Good
    <3>2. MarksStay(D, T, x, c)
      BY <2>4 DEF MarksStay
    <3>3. Unrecorded(D, c) /\ Kept(D, c)
      BY <2>3, <2>4, <3>1 DEF ResultOk, Unrecorded, Kept, SameElsewhere, Born
    <3>4. HandedMarked(D, c) /\ InboundLogged(D, c) /\ MessageRouted(D, c)
      BY <2>3, <2>4, <3>1 DEF ResultOk, HandedMarked, InboundLogged, MessageRouted, SameElsewhere,
                              HasMessage
    <3>5. c # x => ReservedKept(D, c)
      BY <2>3, <2>4, <3>1 DEF ReservedKept, SameElsewhere, Born, Alive
    <3> QED
      BY <3>2, <3>3, <3>4, <3>5 DEF ResultOk
  <2>6. Good(D, j, x)
    BY <1>3, <2>3, <2>5, RecordsMove
  <2>7. NewsOnly(T, D, C)
    BY <2>3, <2>4 DEF NewsOnly, SameElsewhere
  <2>8. Onward(T, D)
    BY <2>3, OnwardBesides
  <2>9. NewsOnly(S, D, C) /\ Onward(S, D)
    BY <1>6, <1>7, <2>7, <2>8, NewsTwice, OnwardTwice
  <2> QED
    BY <1>4, <1>8, <2>6, <2>9
<1>9. CASE ~drop /\ due = {}
  BY <1>3, <1>4, <1>6, <1>7, <1>9
<1>10. CASE ~drop /\ due # {}
  <2> DEFINE U == Deliver(T, due)
  <2>1. \A c \in due : Loose(T, c) /\ HasMessage(T, c)
    <3>1. ASSUME NEW c \in due PROVE Loose(T, c) /\ HasMessage(T, c)
      <4>1. c \in C /\ HasMessage(S, c) /\ Returnable(S, c)
        OBVIOUS
      <4>2. T.reserved = S.reserved /\ T.round = S.round /\ T.child = S.child
        BY <1>2 DEF SameElsewhere
      <4> HIDE DEF due
      <4> QED
        BY <1>5, <4>1, <4>2 DEF Loose, Returnable, HasMessage, Alive
    <3> QED
      BY <3>1
  <2>2. Good(U, j, x) /\ NewsOnly(T, U, due) /\ Onward(T, U)
    <3>1. due \in SUBSET Children /\ (\A c \in due : Loose(T, c)) /\ (\A c \in due : HasMessage(T, c))
      BY <2>1
    <3> HIDE DEF due
    <3> QED
      BY <1>3, <3>1, DeliverKeeps
  <2> HIDE DEF U
  <2>3. NewsOnly(T, U, C)
    BY <2>2 DEF NewsOnly
  <2>4. NewsOnly(S, U, C) /\ Onward(S, U)
    BY <1>6, <1>7, <2>2, <2>3, NewsTwice, OnwardTwice
  <2> QED
    BY <1>4, <1>10, <2>2, <2>4 DEF U
<1> QED
  BY <1>8, <1>9, <1>10

-----------------------------------------------------------------------------
(* What a round leaves behind.                                               *)

LEMMA GoodWeaker ==
    ASSUME NEW S, NEW j, NEW x, Good(S, NoRound, NoChild)
    PROVE  Good(S, j, x)
<1>1. (\A c \in Children : c # NoChild) /\ (\A r \in Rounds : r # NoRound)
  BY RoundsAreFinite
<1> QED
  BY <1>1 DEF Good

\* A join that waits is no exception.
LEMMA GoodAgain ==
    ASSUME NEW S, NEW r, Good(S, r, NoChild), S.join[r].open => Waits(S, r)
    PROVE  Good(S, NoRound, NoChild)
BY DEF Good

LEMMA ReleaseRoundHoldsKeeps ==
    ASSUME NEW S, NEW j, Good(S, j, NoChild), NEW r \in Rounds
    PROVE  LET T == ReleaseRoundHolds(S, r) IN
           Good(T, j, NoChild) /\ NewsOnly(S, T, Children) /\ Onward(S, T)
<1> DEFINE kept == {c \in Children : S.record[c].heldFor = r /\ S.record[c].hold = "round"}
<1>1. ReleaseRoundHolds(S, r) = IF kept = {} THEN S ELSE HandBack(S, kept, FALSE)
  BY DEF ReleaseRoundHolds
<1>2. CASE kept = {}
  <2>1. Onward(S, S) /\ NewsOnly(S, S, Children)
    BY OnwardHere DEF NewsOnly
  <2> QED
    BY <1>1, <1>2, <2>1
<1>3. CASE kept # {}
  <2>1. ASSUME NEW c \in kept PROVE Returnable(S, c)
    <3>1. c \in Children /\ S.record[c].heldFor = r /\ S.record[c].hold = "round" /\ r # NoRound
          /\ c # NoChild
      BY RoundsAreFinite
    <3>2. Unrecorded(S, c) /\ Kept(S, c) /\ ReservedKept(S, c)
      BY <3>1 DEF Good, ResultOk
    <3> QED
      BY <3>1, <3>2 DEF Returnable, Unrecorded, Kept, ReservedKept
  <2>2. kept \in SUBSET Children /\ FALSE \in BOOLEAN
    OBVIOUS
  <2> DEFINE T == HandBack(S, kept, FALSE)
  <2> HIDE DEF kept
  <2>3. Good(T, j, NoChild) /\ NewsOnly(S, T, kept) /\ Onward(S, T)
    BY <2>1, <2>2, HandBackKeeps
  <2> HIDE DEF T
  <2>4. NewsOnly(S, T, Children)
    BY <2>2, <2>3 DEF NewsOnly
  <2> QED
    BY <1>1, <1>3, <2>3, <2>4 DEF T
<1> QED
  BY <1>2, <1>3

\* The round r waits for nothing; what its join would return is to be handed back.
Freed(S, r, back) ==
    [S EXCEPT !.join[r] = NoJoin,
              !.reserved = [c \in Children |-> IF @[c] = r THEN NoRound ELSE @[c]],
              !.record = [c \in Children |->
                            IF c \in back THEN [@[c] EXCEPT !.delivered = ""] ELSE @[c]]]

IsFreed(T, S, r, back) ==
    /\ T \in Memories
    /\ T.round = S.round /\ T.child = S.child /\ T.logged = S.logged /\ T.handed = S.handed
    /\ T.pulled = S.pulled
    /\ T.join[r] = NoJoin /\ \A q \in Rounds : q # r => T.join[q] = S.join[q]
    /\ \A c \in Children :
         /\ T.reserved[c] = IF S.reserved[c] = r THEN NoRound ELSE S.reserved[c]
         /\ T.record[c].known = S.record[c].known
         /\ T.record[c].heldFor = S.record[c].heldFor /\ T.record[c].hold = S.record[c].hold
         /\ T.record[c].delivered = IF c \in back THEN "" ELSE S.record[c].delivered

LEMMA FreedIs ==
    ASSUME NEW S \in Memories, NEW r \in Rounds, NEW back
    PROVE  IsFreed(Freed(S, r, back), S, r, back)
<1> DEFINE J == [S.join EXCEPT ![r] = NoJoin]
           V == [c \in Children |-> IF S.reserved[c] = r THEN NoRound ELSE S.reserved[c]]
           R == [c \in Children |-> IF c \in back THEN [S.record[c] EXCEPT !.delivered = ""]
                                                  ELSE S.record[c]]
           T == [S EXCEPT !.join = J, !.reserved = V, !.record = R]
<1>1. S.join \in [Rounds -> JoinRecord] /\ S.reserved \in [Children -> Rounds \cup {NoRound}]
      /\ \A c \in Children : S.record[c] \in ResultRecord
  BY DEF Memories
<1>2. NoJoin \in JoinRecord
  BY DEF NoJoin, JoinRecord
<1>3. J \in [Rounds -> JoinRecord] /\ J[r] = NoJoin /\ \A q \in Rounds : q # r => J[q] = S.join[q]
  BY <1>1, <1>2
<1>4. /\ V \in [Children -> Rounds \cup {NoRound}]
      /\ \A c \in Children : V[c] = IF S.reserved[c] = r THEN NoRound ELSE S.reserved[c]
  BY <1>1
<1>5. R \in [Children -> ResultRecord]
  BY <1>1 DEF ResultRecord
<1>6. ASSUME NEW c \in Children
      PROVE  /\ R[c].known = S.record[c].known
             /\ R[c].heldFor = S.record[c].heldFor /\ R[c].hold = S.record[c].hold
             /\ R[c].delivered = IF c \in back THEN "" ELSE S.record[c].delivered
  BY <1>1 DEF ResultRecord
<1>7. Freed(S, r, back) = T
  BY DEF Memories, Freed
<1> HIDE DEF J, V, R
<1>8. /\ T \in Memories /\ T.join = J /\ T.reserved = V /\ T.record = R
      /\ T.round = S.round /\ T.child = S.child /\ T.logged = S.logged /\ T.handed = S.handed
      /\ T.pulled = S.pulled
  BY <1>3, <1>4, <1>5 DEF Memories
<1> HIDE DEF T
<1> QED
  BY <1>3, <1>4, <1>6, <1>7, <1>8 DEF IsFreed

LEMMA ReleaseWaiterKeeps ==
    ASSUME NEW S, NEW r \in Rounds, Good(S, r, NoChild), ~Alive(S, r)
    PROVE  LET T == ReleaseWaiter(S, r) IN
           /\ Good(T, NoRound, NoChild) /\ Onward(S, T)
           /\ \A q \in Rounds : Born(S, q) => T.round[q] = S.round[q]
<1> DEFINE kept == {c \in Children : S.record[c].heldFor = r}
           back == Unreturned(S, r)
           T == Freed(S, r, back)
           C == kept \union back
           drop == S.round[r].st \in {"stopped", "cancelled"}
<1>1. S \in Memories /\ r # NoRound /\ \A c \in Children : c # NoChild
  BY RoundsAreFinite DEF Good
<1>2. ReleaseWaiter(S, r) = IF C = {} THEN T ELSE HandBack(T, C, drop)
  BY DEF ReleaseWaiter, Freed
<1>3. /\ T \in Memories
      /\ T.round = S.round /\ T.child = S.child /\ T.logged = S.logged /\ T.handed = S.handed
      /\ T.pulled = S.pulled
      /\ T.join[r] = NoJoin /\ \A q \in Rounds : q # r => T.join[q] = S.join[q]
      /\ \A c \in Children :
           /\ T.reserved[c] = IF S.reserved[c] = r THEN NoRound ELSE S.reserved[c]
           /\ T.record[c].known = S.record[c].known
           /\ T.record[c].heldFor = S.record[c].heldFor /\ T.record[c].hold = S.record[c].hold
           /\ T.record[c].delivered = IF c \in back THEN "" ELSE S.record[c].delivered
  <2>1. IsFreed(T, S, r, back)
    BY <1>1, FreedIs
  <2> QED
    BY <2>1 DEF IsFreed
<1>4. ASSUME NEW c \in back
      PROVE  /\ c \in Children /\ c \in InFull(S.join[r]) /\ S.record[c].delivered = "join"
             /\ S.handed[c] = 0 /\ S.record[c].known /\ S.record[c].heldFor = NoRound
  <2>1. c \in InFull(S.join[r]) /\ S.record[c].delivered = "join"
    BY DEF Unreturned, InFull
  <2>2. c \in Children
    BY <1>1, <2>1 DEF Memories, JoinRecord, InFull
  <2>3. CollectedOk(S, r, c) /\ Unrecorded(S, c) /\ Kept(S, c)
    BY <2>2 DEF Good, ResultOk
  <2> QED
    BY <2>1, <2>2, <2>3 DEF CollectedOk, Unrecorded, Kept
<1> HIDE DEF T, back
<1>5. NoJoin.settled = {} /\ NoJoin.earlier = {} /\ NoJoin.pending = {} /\ ~NoJoin.open
      /\ InFull(NoJoin) = {}
  BY DEF NoJoin, InFull
<1>6. ASSUME NEW c \in Children PROVE ResultOk(T, c) /\ ReservedKept(T, c)
  <2>1. ResultOk(S, c) /\ ReservedKept(S, c)
    BY <1>1 DEF Good
  <2>2. Unrecorded(T, c)
    <3>1. \A q \in Rounds : T.join[q].settled \in SUBSET S.join[q].settled
      BY <1>3, <1>5
    <3> QED
      BY <1>3, <2>1, <3>1 DEF ResultOk, Unrecorded
  <2>3. Kept(T, c)
    BY <1>3, <2>1 DEF ResultOk, Kept, Born
  <2>4. HandedMarked(T, c) /\ InboundLogged(T, c) /\ MessageRouted(T, c)
    <3>1. MessageRouted(T, c)
      BY <1>3, <2>1 DEF ResultOk, MessageRouted, HasMessage
    <3>2. CASE c \in back
      <4>1. T.record[c].delivered = "" /\ T.handed[c] = 0
        BY <1>3, <1>4, <3>2
      <4> QED
        BY <3>1, <4>1 DEF HandedMarked, InboundLogged
    <3>3. CASE c \notin back
      <4>1. T.record[c].delivered = S.record[c].delivered
        BY <1>3, <3>3
      <4> QED
        BY <1>3, <2>1, <3>1, <4>1 DEF ResultOk, HandedMarked, InboundLogged
    <3> QED
      BY <3>2, <3>3
  <2>5. ReservedKept(T, c)
    BY <1>3, <2>1 DEF ReservedKept, Born, Alive
  <2> QED
    BY <2>2, <2>3, <2>4, <2>5 DEF ResultOk
<1>7. ASSUME NEW q \in Rounds
      PROVE  RoundOk(T, q) /\ JoinOk(T, q) /\ (T.join[q].open => Waits(T, q))
  <2>1. RoundOk(S, q) /\ JoinOk(S, q) /\ (S.join[q].open /\ q # r => Waits(S, q))
    BY DEF Good
  <2>2. CASE q = r
    BY <1>3, <1>5, <2>1, <2>2 DEF RoundOk, JoinOk, Born
  <2>3. CASE q # r
    <3>1. T.join[q] = S.join[q] /\ T.round[q] = S.round[q]
      BY <1>3, <2>3
    <3> QED
      BY <2>1, <2>3, <3>1 DEF RoundOk, JoinOk, Born, Waits
  <2> QED
    BY <2>2, <2>3
<1>8. ASSUME NEW q \in Rounds, NEW c \in Children
      PROVE  CarriedOk(T, q, c) /\ CollectedOk(T, q, c) /\ PendingOk(T, q, c)
  <2>1. CarriedOk(S, q, c) /\ CollectedOk(S, q, c) /\ PendingOk(S, q, c)
    BY <1>1 DEF Good
  <2>2. CarriedOk(T, q, c)
    BY <1>3, <1>4, <2>1 DEF CarriedOk
  <2>3. CollectedOk(T, q, c) /\ PendingOk(T, q, c)
    <3>1. CASE q = r
      BY <1>3, <1>5, <3>1 DEF CollectedOk, PendingOk
    <3>2. CASE q # r
      <4>1. c \in InFull(S.join[q]) => c \notin back
        BY <1>4, <3>2 DEF Good, OneCollector
      <4>2. T.join[q] = S.join[q]
        BY <1>3, <3>2
      <4> QED
        BY <1>1, <1>3, <2>1, <3>2, <4>1, <4>2 DEF CollectedOk, PendingOk
    <3> QED
      BY <3>1, <3>2
  <2> QED
    BY <2>2, <2>3
<1>9. OneCarrier(T) /\ Room(T)
  <2>1. T.round = S.round /\ OneCarrier(S) /\ Room(S)
    BY <1>3 DEF Good
  <2> QED
    BY <2>1 DEF OneCarrier, Room, OfUsers
<1>10. OneCollector(T)
  <2>1. \A q \in Rounds : InFull(T.join[q]) = IF q = r THEN {} ELSE InFull(S.join[q])
    BY <1>3, <1>5
  <2> QED
    BY <2>1 DEF Good, OneCollector
<1>11. Good(T, NoRound, NoChild)
  BY <1>3, <1>6, <1>7, <1>8, <1>9, <1>10 DEF Good
<1>12. Onward(S, T)
  <2>1. ASSUME NEW c \in Children, NEW w \in Rounds, Alive(S, w), Bound(S, c, w)
        PROVE  Bound(T, c, w)
    <3>1. w # r /\ T.join[w] = S.join[w]
      BY <1>3, <2>1
    <3> QED
      BY <1>3, <2>1, <3>1 DEF Bound, HasMessage
  <2> QED
    BY <1>3, <2>1 DEF Onward, Born, Alive
<1>13. ASSUME NEW c \in C PROVE c \in Children /\ Returnable(T, c)
  <2>1. CASE c \in back
    <3>1. ReservedKept(S, c) /\ c \in Children /\ S.record[c].known /\ S.record[c].heldFor = NoRound
      BY <1>1, <1>4, <2>1 DEF Good
    <3> QED
      BY <1>3, <2>1, <3>1 DEF Returnable, ReservedKept, Alive
  <2>2. CASE c \in kept /\ c \notin back
    <3>1. c \in Children /\ S.record[c].heldFor = r
      BY <2>2
    <3>2. ReservedKept(S, c) /\ Unrecorded(S, c) /\ Kept(S, c)
      BY <1>1, <3>1 DEF Good, ResultOk
    <3>3. S.record[c].known /\ S.record[c].delivered = ""
      BY <1>1, <3>1, <3>2 DEF Unrecorded, Kept
    <3> QED
      BY <1>1, <1>3, <2>2, <3>1, <3>2, <3>3 DEF Returnable, ReservedKept, Alive
  <2> QED
    BY <2>1, <2>2
<1>14. CASE C = {}
  BY <1>2, <1>3, <1>11, <1>12, <1>14
<1>15. CASE C # {}
  <2> DEFINE U == HandBack(T, C, drop)
  <2>1. C \in SUBSET Children /\ drop \in BOOLEAN
    BY <1>13
  <2> HIDE DEF C, drop
  <2>2. Good(U, NoRound, NoChild) /\ NewsOnly(T, U, C) /\ Onward(T, U)
    BY <1>11, <1>13, <2>1, HandBackKeeps
  <2> HIDE DEF U
  <2>3. Onward(S, U)
    BY <1>12, <2>2, OnwardTwice
  <2>4. \A q \in Rounds : Born(S, q) => U.round[q] = S.round[q]
    BY <1>3, <2>2 DEF NewsOnly, Born
  <2> QED
    BY <1>2, <1>15, <2>2, <2>3, <2>4 DEF U
<1> QED
  BY <1>14, <1>15

-----------------------------------------------------------------------------
(* A round moves on.                                                         *)

SameButRound(T, S, k) ==
    /\ T.child = S.child /\ T.record = S.record /\ T.reserved = S.reserved
    /\ T.join = S.join /\ T.logged = S.logged /\ T.handed = S.handed
    /\ \A r \in Rounds : r # k => T.round[r] = S.round[r]

AliveStates == {"pending", "running", "dispatching", "awaiting", "waiting", "compacting"}

\* A round that was p may become q: nobody comes back to life, is sent more than it
\* was sent, or is sent it twice.
RoundMove(p, q) ==
    /\ p.st # "unborn" /\ q.st # "unborn"
    /\ q.st \in AliveStates => p.st \in AliveStates
    /\ q.carries \in SUBSET p.carries /\ (q.carries = {} => p.carries = {})
    /\ p.withdrawn => q.withdrawn
    /\ q.st = "pending" /\ ~q.claimed => p.st = "pending" /\ ~p.claimed

LEMMA RoundMoves ==
    ASSUME NEW S, NEW T, NEW j, NEW x, Good(S, j, x), T \in Memories, NEW k \in Rounds,
           SameButRound(T, S, k), RoundMove(S.round[k], T.round[k]), RoundOk(T, k),
           T.join[k].open /\ k # j => Waits(T, k)
    PROVE  Good(T, j, x) /\ Onward(S, T)
<1>1. \A r \in Rounds : Born(S, r) <=> Born(T, r)
  BY DEF SameButRound, RoundMove, Born
<1>2. \A r \in Rounds \cup {NoRound} : Alive(T, r) => Alive(S, r)
  BY DEF SameButRound, RoundMove, Alive, AliveStates
<1>3. ASSUME NEW c \in Children PROVE ResultOk(T, c) /\ (c # x => ReservedKept(T, c))
  <2>1. ResultOk(S, c) /\ (c # x => ReservedKept(S, c))
        /\ S.reserved[c] \in Rounds \cup {NoRound} /\ S.record[c] \in ResultRecord
    BY DEF Good, Memories
  <2>2. Kept(T, c)
    BY <1>1, <2>1 DEF ResultOk, Kept, SameButRound, ResultRecord
  <2>3. Unrecorded(T, c) /\ HandedMarked(T, c) /\ InboundLogged(T, c) /\ MessageRouted(T, c)
    BY <2>1 DEF ResultOk, Unrecorded, HandedMarked, InboundLogged, MessageRouted, HasMessage,
                SameButRound
  <2>4. c # x => ReservedKept(T, c)
    BY <1>1, <1>2, <2>1 DEF ReservedKept, SameButRound
  <2> QED
    BY <2>2, <2>3, <2>4 DEF ResultOk
<1>4. ASSUME NEW r \in Rounds
      PROVE  RoundOk(T, r) /\ JoinOk(T, r) /\ (T.join[r].open /\ r # j => Waits(T, r))
  <2>1. RoundOk(S, r) /\ JoinOk(S, r) /\ (S.join[r].open /\ r # j => Waits(S, r))
    BY DEF Good
  <2>2. T.join = S.join
    BY DEF SameButRound
  <2>3. CASE r = k
    BY <2>1, <2>2, <2>3 DEF JoinOk
  <2>4. CASE r # k
    <3>1. T.round[r] = S.round[r]
      BY <2>4 DEF SameButRound
    <3> QED
      BY <2>1, <2>2, <3>1 DEF RoundOk, JoinOk, Waits, Born
  <2> QED
    BY <2>3, <2>4
<1>5. ASSUME NEW r \in Rounds, NEW c \in Children
      PROVE  CarriedOk(T, r, c) /\ CollectedOk(T, r, c) /\ (c # x => PendingOk(T, r, c))
  <2>1. CarriedOk(S, r, c) /\ CollectedOk(S, r, c) /\ (c # x => PendingOk(S, r, c))
    BY DEF Good
  <2>2. CarriedOk(T, r, c)
    BY <2>1 DEF CarriedOk, SameButRound, RoundMove
  <2> QED
    BY <2>1, <2>2 DEF CollectedOk, PendingOk, SameButRound
<1>6. OneCarrier(T) /\ OneCollector(T)
  <2>1. \A r \in Rounds : T.round[r].carries \in SUBSET S.round[r].carries
    BY DEF SameButRound, RoundMove
  <2>2. OneCarrier(S) /\ OneCollector(S) /\ T.join = S.join
    BY DEF Good, SameButRound
  <2>3. OneCarrier(T)
    BY <2>1, <2>2 DEF OneCarrier
  <2> QED
    BY <2>2, <2>3 DEF OneCollector
<1>7. Room(T)
  <2>1. OfUsers(T) = OfUsers(S)
    BY <1>1, <1>4 DEF Good, OfUsers, SameButRound, RoundMove, RoundOk, Born
  <2> QED
    BY <2>1 DEF Good, Room
<1>8. Onward(S, T)
  <2>1. ASSUME NEW c \in Children, NEW w \in Rounds, Bound(S, c, w) PROVE Bound(T, c, w)
    BY <2>1 DEF Bound, SameButRound, HasMessage
  <2>2. \A c \in Children, r \in Rounds : c \in T.round[r].carries => c \in S.round[r].carries
    BY DEF SameButRound, RoundMove
  <2> QED
    BY <1>1, <1>2, <2>1, <2>2 DEF Onward
<1> QED
  BY <1>3, <1>4, <1>5, <1>6, <1>7, <1>8 DEF Good

LEMMA WithRound ==
    ASSUME NEW S \in Memories, NEW k \in Rounds, NEW q \in RoundRecord
    PROVE  LET T == [S EXCEPT !.round[k] = q] IN
           /\ T \in Memories /\ SameButRound(T, S, k) /\ T.round[k] = q /\ T.pulled = S.pulled
<1> DEFINE B == [S.round EXCEPT ![k] = q]
<1>1. S.round \in [Rounds -> RoundRecord]
  BY DEF Memories
<1>2. B \in [Rounds -> RoundRecord] /\ B[k] = q /\ \A r \in Rounds : r # k => B[r] = S.round[r]
  BY <1>1
<1> HIDE DEF B
<1> DEFINE T == [S EXCEPT !.round = B]
<1>3. T \in Memories /\ SameButRound(T, S, k) /\ T.round[k] = q /\ T.pulled = S.pulled
  BY <1>2 DEF Memories, SameButRound
<1>4. [S EXCEPT !.round[k] = q] = T
  BY DEF B
<1> QED
  BY <1>3, <1>4

Gone(T, S, r, st) ==
    /\ T \in Memories /\ SameButRound(T, S, r) /\ T.pulled = S.pulled
    /\ T.round[r] = [S.round[r] EXCEPT !.st = st, !.ask = NoAsk]

LEMMA GoesIs ==
    ASSUME NEW S \in Memories, NEW r \in Rounds, NEW st \in RoundStates
    PROVE  Gone(Goes(S, r, st), S, r, st)
<1> DEFINE q == [S.round[r] EXCEPT !.st = st, !.ask = NoAsk]
<1>1. S.round \in [Rounds -> RoundRecord]
  BY DEF Memories
<1>2. NoAsk \in Asks
  BY DEF NoAsk, Asks
<1>3. q \in RoundRecord
  BY <1>1, <1>2 DEF RoundRecord
<1>4. Goes(S, r, st) = [S EXCEPT !.round[r] = q]
  BY DEF Goes, Memories
<1> HIDE DEF q
<1>5. LET T == [S EXCEPT !.round[r] = q] IN
      T \in Memories /\ SameButRound(T, S, r) /\ T.round[r] = q /\ T.pulled = S.pulled
  BY <1>3, WithRound
<1> QED
  BY <1>4, <1>5 DEF q, Gone

Ended(T, S, r, st) ==
    /\ T \in Memories /\ SameButRound(T, S, r) /\ T.pulled = S.pulled
    /\ T.round[r] = [S.round[r] EXCEPT !.st = st, !.ask = NoAsk, !.cancelReq = FALSE,
                                       !.claimed = FALSE]

LEMMA EndsIs ==
    ASSUME NEW S \in Memories, NEW r \in Rounds, NEW st \in RoundStates
    PROVE  Ended(Ends(S, r, st), S, r, st)
<1> DEFINE G == Goes(S, r, st)
           q == [G.round[r] EXCEPT !.cancelReq = FALSE, !.claimed = FALSE]
           T == [G EXCEPT !.round[r] = q]
<1>1. /\ G \in Memories /\ SameButRound(G, S, r) /\ G.pulled = S.pulled
      /\ G.round[r] = [S.round[r] EXCEPT !.st = st, !.ask = NoAsk]
  <2>1. Gone(G, S, r, st)
    BY GoesIs
  <2> HIDE DEF G
  <2> QED
    BY <2>1 DEF Gone
<1>2. Ends(S, r, st) = [G EXCEPT !.round[r].cancelReq = FALSE, !.round[r].claimed = FALSE]
  BY DEF Ends
<1> HIDE DEF G
<1>3. S.round[r] \in RoundRecord /\ G.round[r] \in RoundRecord
  BY <1>1 DEF Memories
<1>4. q \in RoundRecord
  BY <1>3 DEF RoundRecord
<1>5. q = [S.round[r] EXCEPT !.st = st, !.ask = NoAsk, !.cancelReq = FALSE, !.claimed = FALSE]
  BY <1>1, <1>3 DEF RoundRecord
<1>6. Ends(S, r, st) = T
  BY <1>1, <1>2 DEF Memories
<1> HIDE DEF q
<1>7. T \in Memories /\ SameButRound(T, G, r) /\ T.round[r] = q /\ T.pulled = G.pulled
  BY <1>1, <1>4, WithRound
<1> HIDE DEF T
<1>8. Ended(T, S, r, st)
  BY <1>1, <1>5, <1>7 DEF Ended, SameButRound
<1> QED
  BY <1>6, <1>8

LEMMA EndsKeeps ==
    ASSUME NEW S, NEW j, NEW x, Good(S, j, x), NEW k \in Rounds,
           NEW st \in {"over", "stopped", "ended", "cancelled"},
           Born(S, k), S.round[k].st # "cancelled", k = j \/ ~S.join[k].open
    PROVE  LET T == Ends(S, k, st) IN
           /\ Good(T, j, x) /\ Onward(S, T) /\ SameButRound(T, S, k)
           /\ T.round[k].st = st /\ T.round[k].carries = S.round[k].carries
           /\ ~T.round[k].claimed /\ ~T.round[k].cancelReq
<1> DEFINE T == Ends(S, k, st)
<1>1. S \in Memories /\ st \in RoundStates
  BY DEF Good, RoundStates
<1>2. /\ T \in Memories /\ SameButRound(T, S, k)
      /\ T.round[k] = [S.round[k] EXCEPT !.st = st, !.ask = NoAsk, !.cancelReq = FALSE,
                                         !.claimed = FALSE]
  <2>1. Ended(T, S, k, st)
    BY <1>1, EndsIs
  <2> QED
    BY <2>1 DEF Ended
<1> HIDE DEF T
<1>3. S.round[k] \in RoundRecord
  BY <1>1 DEF Memories
<1>4. /\ T.round[k].st = st /\ T.round[k].carries = S.round[k].carries
      /\ T.round[k].cancelReq = FALSE /\ T.round[k].claimed = FALSE
      /\ T.round[k].withdrawn = S.round[k].withdrawn
  BY <1>2, <1>3 DEF RoundRecord
<1>5. RoundMove(S.round[k], T.round[k])
  BY <1>4 DEF RoundMove, Born, AliveStates
<1>6. RoundOk(S, k)
  BY DEF Good
<1>7. RoundOk(T, k)
  BY <1>2, <1>4, <1>6 DEF RoundOk, Born
<1>8. ~(T.join[k].open /\ k # j)
  BY <1>2 DEF SameButRound
<1>9. Good(T, j, x) /\ Onward(S, T)
  BY <1>2, <1>5, <1>7, <1>8, RoundMoves
<1> QED
  BY <1>2, <1>4, <1>9 DEF T

LEMMA SameMemory ==
    ASSUME NEW S \in Memories, NEW T \in Memories,
           S.child = T.child, S.reserved = T.reserved, S.join = T.join, S.logged = T.logged,
           S.handed = T.handed, S.pulled = T.pulled,
           \A r \in Rounds : S.round[r] = T.round[r],
           \A c \in Children : S.record[c] = T.record[c]
    PROVE  S = T
<1>1. S.round = T.round
  BY DEF Memories
<1>2. S.record = T.record
  BY DEF Memories
<1> QED
  BY <1>1, <1>2 DEF Memories

-----------------------------------------------------------------------------
(* A result is taken out of a round that was not claimed yet.                *)

\* A handler that claims a result for a join leaves alone all but the round the
\* result may be taken from, which is one that was not claimed.
Aside(S, T) ==
    /\ T.child = S.child /\ T.handed = S.handed
    /\ \A c \in Children : S.record[c].known => T.record[c].known
    /\ \A r \in Rounds : /\ Born(S, r) => Born(T, r)
                         /\ S.round[r].st \notin {"unborn", "pending"} => T.round[r] = S.round[r]

LEMMA AsideTwice ==
    ASSUME NEW S, NEW T, NEW U, Aside(S, T), Aside(T, U)
    PROVE  Aside(S, U)
BY DEF Aside

LEMMA LoosedKeeps ==
    ASSUME NEW S, NEW j, NEW x, Good(S, j, x), NEW c \in Children,
           S.record[c].delivered = "inbound", S.handed[c] = 0,
           \A r \in Rounds : c \in S.round[r].carries => S.round[r].withdrawn
    PROVE  LET T == Loosed(S, c) IN
           /\ Good(T, j, x) /\ SameElsewhere(T, S)
           /\ \A d \in Children : T.record[d].known = S.record[d].known
           /\ T.record[c].delivered = "" /\ T.record[c].heldFor = S.record[c].heldFor
<1> DEFINE R == [S.record EXCEPT ![c] = [@ EXCEPT !.delivered = "", !.callback = NoRound]]
           T == Loosed(S, c)
<1>1. S \in Memories /\ S.record \in [Children -> ResultRecord]
  BY DEF Good, Memories
<1>2. [S.record[c] EXCEPT !.delivered = "", !.callback = NoRound] \in ResultRecord
  BY <1>1 DEF ResultRecord
<1>3. /\ R \in [Children -> ResultRecord]
      /\ \A d \in Children : d # c => R[d] = S.record[d]
      /\ R[c] = [S.record[c] EXCEPT !.delivered = "", !.callback = NoRound]
  BY <1>1, <1>2
<1>4. T = [S EXCEPT !.record = R, !.pulled = @ \union {c}]
  BY <1>1 DEF Loosed, Memories
<1> HIDE DEF R
<1>5. T \in Memories /\ SameElsewhere(T, S) /\ T.record = R
  <2>1. S.pulled \cup {c} \in SUBSET Children
    BY <1>1 DEF Memories
  <2>2. T = [S EXCEPT !.record = R, !.pulled = S.pulled \cup {c}]
    BY <1>4
  <2> HIDE DEF T
  <2>3. T.record = R /\ T \in Memories
    BY <1>1, <1>3, <2>1, <2>2 DEF Memories
  <2>4. SameElsewhere(T, S)
    BY <1>1, <2>2 DEF Memories, SameElsewhere
  <2> QED
    BY <2>3, <2>4
<1> HIDE DEF T
<1>6. /\ T.record[c].known = S.record[c].known
      /\ T.record[c].heldFor = S.record[c].heldFor /\ T.record[c].hold = S.record[c].hold
      /\ T.record[c].delivered = ""
  <2>1. T.record[c] = [S.record[c] EXCEPT !.delivered = "", !.callback = NoRound]
        /\ S.record[c] \in ResultRecord
    BY <1>1, <1>3, <1>5
  <2> QED
    BY <2>1 DEF ResultRecord
<1>7. Unneeded(S, c)
  BY DEF Unneeded, Good, CollectedOk
<1>8. ASSUME NEW d \in Children
      PROVE  MarksStay(T, S, x, d) /\ ResultOk(T, d) /\ (d # x => ReservedKept(T, d))
  <2>1. ResultOk(S, d) /\ (d # x => ReservedKept(S, d))
    BY DEF Good
  <2>2. CASE d # c
    <3>1. T.record[d] = S.record[d]
      BY <1>3, <1>5, <2>2
    <3> QED
      BY <1>5, <2>1, <3>1 DEF MarksStay, ResultOk, Unrecorded, Kept, HandedMarked, InboundLogged,
           MessageRouted, ReservedKept, SameElsewhere, Born, Alive, HasMessage
  <2>3. CASE d = c
    <3>1. MarksStay(T, S, x, d)
      BY <1>6, <1>7, <2>3 DEF MarksStay
    <3>2. ResultOk(T, d)
      BY <1>5, <1>6, <2>1, <2>3 DEF ResultOk, Unrecorded, Kept, HandedMarked, InboundLogged,
           MessageRouted, SameElsewhere, Born, HasMessage
    <3>3. d # x => ReservedKept(T, d)
      BY <1>5, <1>6, <2>1, <2>3 DEF ReservedKept, SameElsewhere, Born, Alive
    <3> QED
      BY <3>1, <3>2, <3>3
  <2> QED
    BY <2>2, <2>3
<1>9. Good(T, j, x)
  BY <1>5, <1>8, RecordsMove
<1>10. \A d \in Children : T.record[d].known = S.record[d].known
  BY <1>3, <1>5, <1>6
<1> QED
  BY <1>5, <1>6, <1>9, <1>10 DEF T

LEMMA WithdrawKeeps ==
    ASSUME NEW S, NEW j, NEW x, Good(S, j, x), NEW c \in Children, x \in {c, NoChild},
           Withdrawable(S, c), S.record[c].delivered = "inbound",
           j \in Rounds => S.round[j].st # "pending"
    PROVE  LET T == Withdraw(S, c) IN
           /\ Good(T, j, x) /\ Onward(S, T) /\ Aside(S, T)
           /\ T.join = S.join /\ T.reserved = S.reserved
           /\ T.record[c].delivered = "" /\ T.record[c].heldFor = NoRound
<1> DEFINE k == S.record[c].callback
           kept == {d \in Children : S.record[d].heldFor = k}
           gone == [Ends(Clear(S, kept), k, "cancelled") EXCEPT !.round[k].withdrawn = TRUE]
           M == IF S.round[k].carries # {c}
                THEN [S EXCEPT !.round[k].carries = @ \ {c}]
                ELSE IF kept = {} THEN gone ELSE HandBack(gone, kept, FALSE)
<1>1. S \in Memories /\ S.record[c] \in ResultRecord
  BY DEF Good, Memories
<1>2. /\ k \in Rounds /\ k # NoRound /\ S.round[k].st = "pending" /\ ~S.round[k].claimed
      /\ ~S.round[k].cancelReq /\ c \in S.round[k].carries /\ k # j
  BY <1>1, RoundsAreFinite DEF Withdrawable, ResultRecord
<1>3. S.round[k] \in RoundRecord /\ RoundOk(S, k) /\ ~S.join[k].open /\ Born(S, k)
      /\ ~S.round[k].withdrawn
  BY <1>1, <1>2 DEF Good, Memories, Waits, RoundOk, Born
<1>4. /\ S.handed[c] = 0 /\ S.record[c].heldFor = NoRound /\ c \notin kept
      /\ \A r \in Rounds : c \in S.round[r].carries => r = k
  <2>1. CarriedOk(S, k, c) /\ Kept(S, c) /\ OneCarrier(S)
    BY <1>2 DEF Good, ResultOk
  <2> QED
    BY <1>2, <2>1 DEF CarriedOk, Kept, OneCarrier
<1>5. Withdraw(S, c) = Loosed(M, c)
  <2>1. CASE S.round[k].carries # {c}
    BY <2>1 DEF Withdraw
  <2>2. CASE S.round[k].carries = {c} /\ kept = {}
    BY <2>2 DEF Withdraw
  <2>3. CASE S.round[k].carries = {c} /\ kept # {}
    BY <2>3 DEF Withdraw
  <2> QED
    BY <2>1, <2>2, <2>3
<1>6. ASSUME Good(M, j, x), Onward(S, M), Aside(S, M), M.join = S.join, M.reserved = S.reserved,
             M.record[c] = S.record[c],
             \A r \in Rounds : c \in M.round[r].carries => M.round[r].withdrawn
      PROVE  LET T == Withdraw(S, c) IN
             /\ Good(T, j, x) /\ Onward(S, T) /\ Aside(S, T)
             /\ T.join = S.join /\ T.reserved = S.reserved
             /\ T.record[c].delivered = "" /\ T.record[c].heldFor = NoRound
  <2> DEFINE T == Loosed(M, c)
  <2> HIDE DEF M
  <2>1. M.handed[c] = 0 /\ M.record[c].delivered = "inbound"
    BY <1>4, <1>6 DEF Aside
  <2>2. /\ Good(T, j, x) /\ SameElsewhere(T, M)
        /\ \A d \in Children : T.record[d].known = M.record[d].known
        /\ T.record[c].delivered = "" /\ T.record[c].heldFor = M.record[c].heldFor
    BY <1>6, <2>1, LoosedKeeps
  <2> HIDE DEF T
  <2>3. Onward(S, T)
    BY <1>6, <2>2, OnwardBesides, OnwardTwice
  <2>4. Aside(S, T)
    BY <1>6, <2>2 DEF Aside, SameElsewhere, Born
  <2>5. Withdraw(S, c) = T
    BY <1>5 DEF T
  <2> QED
    BY <1>4, <1>6, <2>2, <2>3, <2>4, <2>5 DEF SameElsewhere
<1>7. CASE S.round[k].carries # {c}
  <2> DEFINE q == [S.round[k] EXCEPT !.carries = @ \ {c}]
             T == [S EXCEPT !.round[k] = q]
  <2>1. q \in RoundRecord
    BY <1>3 DEF RoundRecord
  <2>2. M = T
    BY <1>1, <1>2, <1>7 DEF Memories
  <2>3. /\ q.carries = S.round[k].carries \ {c} /\ q.carries # {} /\ q.st = "pending"
        /\ q.claimed = S.round[k].claimed /\ q.withdrawn = S.round[k].withdrawn
        /\ q.cancelReq = S.round[k].cancelReq
    BY <1>2, <1>3, <1>7 DEF RoundRecord
  <2> HIDE DEF q
  <2>4. T \in Memories /\ SameButRound(T, S, k) /\ T.round[k] = q
    BY <1>1, <1>2, <2>1, WithRound
  <2> HIDE DEF T, M
  <2>5. RoundMove(S.round[k], T.round[k]) /\ RoundOk(T, k)
    BY <1>2, <1>3, <2>3, <2>4 DEF RoundMove, RoundOk, Born, AliveStates, SameButRound
  <2>6. ~T.join[k].open
    BY <1>3, <2>4 DEF SameButRound
  <2>7. Good(T, j, x) /\ Onward(S, T)
    BY <1>2, <2>4, <2>5, <2>6, RoundMoves
  <2>8. Aside(S, T)
    BY <1>2, <2>3, <2>4 DEF Aside, SameButRound, Born
  <2>9. \A r \in Rounds : c \notin T.round[r].carries
    BY <1>4, <2>3, <2>4 DEF SameButRound
  <2>10. T.join = S.join /\ T.reserved = S.reserved /\ T.record[c] = S.record[c]
    BY <2>4 DEF SameButRound
  <2> QED
    BY <1>6, <2>2, <2>7, <2>8, <2>9, <2>10
<1>8. CASE S.round[k].carries = {c}
  <2> HIDE DEF kept
  <2> DEFINE D == Ends(S, k, "cancelled")
             F == [D EXCEPT !.round[k].withdrawn = TRUE]
             G == Clear(F, kept)
  <2>1. kept \in SUBSET Children /\ \A d \in Children : d \in kept <=> S.record[d].heldFor = k
    BY DEF kept
  <2>2. /\ Good(D, j, x) /\ Onward(S, D) /\ SameButRound(D, S, k)
        /\ D.round[k].st = "cancelled" /\ D.round[k].carries = {c}
        /\ ~D.round[k].claimed /\ ~D.round[k].cancelReq
    <3>1. /\ k \in Rounds /\ Born(S, k) /\ S.round[k].st # "cancelled"
          /\ k = j \/ ~S.join[k].open
      BY <1>2, <1>3 DEF Born
    <3>2. "cancelled" \in {"over", "stopped", "ended", "cancelled"}
      OBVIOUS
    <3> HIDE DEF k
    <3>3. /\ Good(D, j, x) /\ Onward(S, D) /\ SameButRound(D, S, k)
          /\ D.round[k].st = "cancelled" /\ D.round[k].carries = S.round[k].carries
          /\ ~D.round[k].claimed /\ ~D.round[k].cancelReq
      BY ONLY Good(S, j, x), <3>1, <3>2, EndsKeeps
    <3> QED
      BY <1>8, <3>3
  <2> HIDE DEF D, gone
  <2> DEFINE q == [D.round[k] EXCEPT !.withdrawn = TRUE]
  <2>4. D \in Memories /\ D.round[k] \in RoundRecord
    BY <1>2, <2>2 DEF Good, Memories
  <2>5. /\ q \in RoundRecord /\ q.st = "cancelled" /\ q.carries = {c} /\ q.claimed = D.round[k].claimed
        /\ q.cancelReq = D.round[k].cancelReq /\ q.withdrawn
    BY <2>2, <2>4 DEF RoundRecord
  <2>6. F = [D EXCEPT !.round[k] = q]
    BY <2>4 DEF Memories
  <2> HIDE DEF q
  <2>7. F \in Memories /\ SameButRound(F, D, k) /\ F.round[k] = q
    <3>1. LET T == [D EXCEPT !.round[k] = q] IN
          T \in Memories /\ SameButRound(T, D, k) /\ T.round[k] = q /\ T.pulled = D.pulled
      BY <1>2, <2>4, <2>5, WithRound
    <3> QED
      BY <2>6, <3>1
  <2> HIDE DEF F
  <2>8. RoundMove(D.round[k], F.round[k]) /\ RoundOk(F, k)
    BY <2>2, <2>5, <2>7 DEF RoundMove, RoundOk, Born, AliveStates
  <2>9. ~F.join[k].open
    BY <1>3, <2>2, <2>7 DEF SameButRound
  <2>10. Good(F, j, x) /\ Onward(D, F)
    BY <1>2, <2>2, <2>7, <2>8, <2>9, RoundMoves
  <2>11. SameButRound(F, S, k)
    BY <2>2, <2>7 DEF SameButRound
  <2>12. ASSUME NEW d \in kept
         PROVE  Returnable(F, d)
    <3>1. d \in Children /\ S.record[d].heldFor = k /\ d # c
      BY <1>4, <2>1
    <3>2. Unrecorded(S, d) /\ Kept(S, d) /\ ReservedKept(S, d)
      BY <3>1, RoundsAreFinite DEF Good, ResultOk
    <3>3. S.record[d].known /\ S.record[d].delivered = ""
      BY <1>2, <3>1, <3>2 DEF Unrecorded, Kept
    <3>4. ~Alive(F, S.reserved[d])
      <4>1. S.reserved[d] \in Rounds \cup {NoRound}
        BY <1>1, <3>1 DEF Memories
      <4>2. Alive(S, S.reserved[d]) => S.reserved[d] = k
        BY <3>1, <3>2, <3>3 DEF ReservedKept
      <4>3. ~Alive(F, k)
        BY <2>5, <2>7 DEF Alive
      <4> QED
        BY <2>11, <4>1, <4>2, <4>3 DEF SameButRound, Alive
    <3> QED
      BY <2>11, <3>3, <3>4 DEF Returnable, SameButRound
  <2>13. Good(G, j, x)
    BY <2>1, <2>10, <2>12, ClearKeeps DEF Returnable
  <2>14. /\ G \in Memories /\ SameElsewhere(G, F) /\ G.pulled = F.pulled
         /\ \A d \in Children :
              G.record[d] = IF d \in kept THEN [F.record[d] EXCEPT !.heldFor = NoRound, !.hold = ""]
                            ELSE F.record[d]
    <3>1. F \in Memories
      BY <2>7
    <3>2. Cleared(G, F, kept)
      BY <3>1, ClearIs
    <3> QED
      BY <3>2 DEF Cleared
  <2> HIDE DEF G
  <2>15. ASSUME NEW d \in kept PROVE Returnable(G, d)
    <3>1. d \in Children /\ Returnable(F, d) /\ F.record[d] \in ResultRecord
      BY <2>1, <2>7, <2>12 DEF Memories
    <3>2. G.record[d].known = F.record[d].known /\ G.record[d].delivered = F.record[d].delivered
      BY <2>14, <3>1 DEF ResultRecord
    <3> QED
      BY <2>14, <3>1, <3>2 DEF Returnable, SameElsewhere, Alive
  <2>16. Onward(S, G)
    BY <2>2, <2>10, <2>14, OnwardBesides, OnwardTwice
  <2>17. Aside(S, G) /\ G.join = S.join /\ G.reserved = S.reserved
    <3>1. \A d \in Children : G.record[d].known = F.record[d].known
      <4>1. \A d \in Children : F.record[d] \in ResultRecord
        BY <2>7 DEF Memories
      <4> QED
        BY <2>14, <4>1 DEF ResultRecord
    <3>2. G.round = F.round /\ G.child = F.child /\ G.handed = F.handed /\ G.join = F.join
          /\ G.reserved = F.reserved
      BY <2>14 DEF SameElsewhere
    <3>3. \A r \in Rounds : /\ Born(S, r) => Born(G, r)
                            /\ S.round[r].st \notin {"unborn", "pending"} => G.round[r] = S.round[r]
      BY <1>2, <2>5, <2>7, <2>11, <3>2 DEF SameButRound, Born
    <3> QED
      BY <2>11, <3>1, <3>2, <3>3 DEF Aside, SameButRound
  <2>18. G.record[c] = S.record[c] /\ G.round[k].withdrawn /\ G.round[k].carries = {c}
         /\ Born(G, k)
    <3>1. G.record[c] = F.record[c]
      BY <1>4, <2>14
    <3>2. F.record[c] = S.record[c]
      BY <2>11 DEF SameButRound
    <3>3. G.round[k] = q
      BY <2>7, <2>14 DEF SameElsewhere
    <3> QED
      BY <2>5, <3>1, <3>2, <3>3 DEF Born
  <2>3. gone = G
    <3> DEFINE X == Clear(S, kept)
               Y == Ends(X, k, "cancelled")
               Z == [Y EXCEPT !.round[k] = q]
    <3>1. /\ X \in Memories /\ SameElsewhere(X, S) /\ X.pulled = S.pulled
          /\ \A d \in Children :
               X.record[d] = IF d \in kept THEN [S.record[d] EXCEPT !.heldFor = NoRound, !.hold = ""]
                             ELSE S.record[d]
      <4>1. Cleared(X, S, kept)
        BY <1>1, ClearIs
      <4> HIDE DEF X
      <4> QED
        BY <4>1 DEF Cleared
    <3> HIDE DEF X
    <3>2. "cancelled" \in RoundStates
      BY DEF RoundStates
    <3>3. /\ Y \in Memories /\ SameButRound(Y, X, k) /\ Y.pulled = X.pulled
          /\ Y.round[k] = [X.round[k] EXCEPT !.st = "cancelled", !.ask = NoAsk, !.cancelReq = FALSE,
                                             !.claimed = FALSE]
      <4>1. X \in Memories
        BY <3>1
      <4>2. Ended(Y, X, k, "cancelled")
        BY <1>2, <3>2, <4>1, EndsIs
      <4> QED
        BY <4>2 DEF Ended
    <3>4. D.round[k] = [S.round[k] EXCEPT !.st = "cancelled", !.ask = NoAsk, !.cancelReq = FALSE,
                                          !.claimed = FALSE] /\ D.pulled = S.pulled
      <4>1. Ended(D, S, k, "cancelled")
        BY <1>1, <1>2, <3>2, EndsIs DEF D
      <4> QED
        BY <4>1 DEF Ended
    <3>5. gone = [Y EXCEPT !.round[k].withdrawn = TRUE]
      BY DEF gone, X
    <3> HIDE DEF Y
    <3>6. Y.round[k] = D.round[k]
      BY <3>1, <3>3, <3>4 DEF SameElsewhere
    <3>7. gone = Z
      BY <3>3, <3>5, <3>6 DEF Memories, q
    <3>8. Z \in Memories /\ SameButRound(Z, Y, k) /\ Z.round[k] = q /\ Z.pulled = Y.pulled
      <4>1. Y \in Memories
        BY <3>3
      <4>2. LET T == [Y EXCEPT !.round[k] = q] IN
            T \in Memories /\ SameButRound(T, Y, k) /\ T.round[k] = q /\ T.pulled = Y.pulled
        BY <1>2, <2>5, <4>1, WithRound
      <4> QED
        BY <4>2
    <3> HIDE DEF Z
    <3>9. F.pulled = D.pulled
      BY <2>4 DEF F, Memories
    <3>10. /\ Z.child = G.child /\ Z.reserved = G.reserved /\ Z.join = G.join
           /\ Z.logged = G.logged /\ Z.handed = G.handed /\ Z.pulled = G.pulled
      <4>1. /\ Z.child = S.child /\ Z.reserved = S.reserved /\ Z.join = S.join
            /\ Z.logged = S.logged /\ Z.handed = S.handed /\ Z.pulled = S.pulled
        BY <3>1, <3>3, <3>8 DEF SameButRound, SameElsewhere
      <4>2. /\ G.child = S.child /\ G.reserved = S.reserved /\ G.join = S.join
            /\ G.logged = S.logged /\ G.handed = S.handed /\ G.pulled = S.pulled
        BY <2>11, <2>14, <3>4, <3>9 DEF SameButRound, SameElsewhere
      <4> QED
        BY <4>1, <4>2
    <3>11. \A r \in Rounds : Z.round[r] = G.round[r]
      <4>1. G.round[k] = q /\ \A r \in Rounds : r # k => G.round[r] = S.round[r]
        BY <2>7, <2>11, <2>14 DEF SameButRound, SameElsewhere
      <4>2. Z.round[k] = q /\ \A r \in Rounds : r # k => Z.round[r] = S.round[r]
        BY <3>1, <3>3, <3>8 DEF SameButRound, SameElsewhere
      <4> QED
        BY <4>1, <4>2
    <3>12. \A d \in Children : Z.record[d] = G.record[d]
      <4>1. F.record = S.record /\ Z.record = X.record
        BY <2>11, <3>3, <3>8 DEF SameButRound
      <4>2. ASSUME NEW d \in Children PROVE X.record[d] = G.record[d]
        <5>1. CASE d \in kept
          BY <2>14, <3>1, <4>1, <5>1
        <5>2. CASE d \notin kept
          BY <2>14, <3>1, <4>1, <5>2
        <5> QED
          BY <5>1, <5>2
      <4> QED
        BY <4>1, <4>2
    <3>13. Z = G
      BY <2>14, <3>8, <3>10, <3>11, <3>12, SameMemory
    <3> QED
      BY <3>7, <3>13
  <2> DEFINE H == HandBack(G, kept, FALSE)
  <2>19. CASE kept = {}
    <3>1. M = G
      BY <1>8, <2>3, <2>19
    <3> HIDE DEF M
    <3>2. \A r \in Rounds : c \in G.round[r].carries => r = k
      BY <1>2, <2>13, <2>18 DEF Good, OneCarrier
    <3> QED
      BY <1>6, <2>13, <2>16, <2>17, <2>18, <3>1, <3>2
  <2>20. CASE kept # {}
    <3>1. M = H
      BY <1>8, <2>3, <2>20
    <3>2. Good(H, j, x) /\ NewsOnly(G, H, kept) /\ Onward(G, H)
      <4>1. FALSE \in BOOLEAN
        OBVIOUS
      <4> QED
        BY <2>1, <2>13, <2>15, <4>1, HandBackKeeps
    <3> HIDE DEF M, H
    <3>3. Onward(S, H)
      BY <2>16, <3>2, OnwardTwice
    <3>4. Aside(G, H)
      BY <3>2 DEF NewsOnly, Aside, Born
    <3>5. Aside(S, H)
      BY <2>17, <3>4, AsideTwice
    <3>6. H.record[c] = S.record[c] /\ H.round[k].withdrawn /\ H.round[k].carries = {c}
          /\ H.join = S.join /\ H.reserved = S.reserved
      BY <1>2, <1>4, <2>17, <2>18, <3>2 DEF NewsOnly
    <3>7. \A r \in Rounds : c \in H.round[r].carries => r = k
      BY <1>2, <3>2, <3>6 DEF Good, OneCarrier
    <3> QED
      BY <1>6, <3>1, <3>2, <3>3, <3>5, <3>6, <3>7
  <2> QED
    BY <2>19, <2>20
<1> QED
  BY <1>7, <1>8

-----------------------------------------------------------------------------
(* A result is put into a join.                                              *)

\* The result c is in the join of r, and in no other place.
Collected(T, S, r, c) ==
    /\ T \in Memories
    /\ T.round = S.round /\ T.child = S.child /\ T.logged = S.logged /\ T.handed = S.handed
    /\ T.pulled = S.pulled
    /\ \A q \in Rounds : q # r => T.join[q] = S.join[q]
    /\ T.join[r].open = S.join[r].open /\ T.join[r].mode = S.join[r].mode
    /\ T.join[r].pending = S.join[r].pending \ {c}
    /\ T.join[r].settled = S.join[r].settled \cup {c}
    /\ T.join[r].earlier = IF S.record[c].delivered \in {"inbound", "join"}
                           THEN S.join[r].earlier \cup {c} ELSE S.join[r].earlier
    /\ T.reserved[c] = NoRound
    /\ T.record[c].known = S.record[c].known
    /\ T.record[c].delivered = IF S.record[c].delivered \in {"inbound", "join"}
                               THEN S.record[c].delivered ELSE "join"
    /\ T.record[c].heldFor = NoRound /\ T.record[c].hold = ""
    /\ \A d \in Children : d # c => T.reserved[d] = S.reserved[d] /\ T.record[d] = S.record[d]

LEMMA CollectIs ==
    ASSUME NEW S \in Memories, NEW r \in Rounds, NEW c \in Children
    PROVE  Collected(Collect(S, r, c), S, r, c)
<1> DEFINE before == S.record[c].delivered \in {"inbound", "join"}
           jn == [S.join[r] EXCEPT !.pending = @ \ {c}, !.settled = @ \union {c},
                                   !.earlier = IF before THEN @ \union {c} ELSE @]
           rc == [S.record[c] EXCEPT !.delivered = IF before THEN @ ELSE "join",
                                     !.heldFor = NoRound, !.hold = ""]
           J == [S.join EXCEPT ![r] = jn]
           V == [S.reserved EXCEPT ![c] = NoRound]
           R == [S.record EXCEPT ![c] = rc]
           T == [S EXCEPT !.join = J, !.reserved = V, !.record = R]
<1>1. /\ S.join \in [Rounds -> JoinRecord] /\ S.reserved \in [Children -> Rounds \cup {NoRound}]
      /\ S.record \in [Children -> ResultRecord]
  BY DEF Memories
<1>2. S.join[r] \in JoinRecord /\ S.record[c] \in ResultRecord
  BY <1>1
<1>3. /\ jn \in JoinRecord
      /\ jn.open = S.join[r].open /\ jn.mode = S.join[r].mode
      /\ jn.pending = S.join[r].pending \ {c} /\ jn.settled = S.join[r].settled \cup {c}
      /\ jn.earlier = IF before THEN S.join[r].earlier \cup {c} ELSE S.join[r].earlier
  <2> HIDE DEF before
  <2> QED
    BY <1>2 DEF JoinRecord
<1>4. /\ rc \in ResultRecord
      /\ rc.known = S.record[c].known /\ rc.heldFor = NoRound /\ rc.hold = ""
      /\ rc.delivered = IF before THEN S.record[c].delivered ELSE "join"
  <2> HIDE DEF before
  <2> QED
    BY <1>2 DEF ResultRecord
<1>5. Collect(S, r, c) = T
  <2>1. Collect(S, r, c) = [S EXCEPT !.join[r] = jn, !.reserved[c] = NoRound, !.record[c] = rc]
    BY DEF Collect
  <2> HIDE DEF jn, rc
  <2>2. [S EXCEPT !.join[r] = jn, !.reserved[c] = NoRound, !.record[c] = rc] = T
    OBVIOUS
  <2> QED
    BY <2>1, <2>2
<1> HIDE DEF jn, rc
<1>6. /\ J \in [Rounds -> JoinRecord] /\ J[r] = jn /\ \A q \in Rounds : q # r => J[q] = S.join[q]
      /\ V \in [Children -> Rounds \cup {NoRound}] /\ V[c] = NoRound
      /\ R \in [Children -> ResultRecord] /\ R[c] = rc
      /\ \A d \in Children : d # c => V[d] = S.reserved[d] /\ R[d] = S.record[d]
  BY <1>1, <1>3, <1>4
<1> HIDE DEF J, V, R
<1>7. /\ T \in Memories /\ T.join = J /\ T.reserved = V /\ T.record = R
      /\ T.round = S.round /\ T.child = S.child /\ T.logged = S.logged /\ T.handed = S.handed
      /\ T.pulled = S.pulled
  BY <1>6 DEF Memories
<1> HIDE DEF T
<1> QED
  BY <1>3, <1>4, <1>5, <1>6, <1>7 DEF Collected

\* There is nothing to hand back of c, or nobody alive but r was promised it, and r
\* not if it went elsewhere.
Silent(S, c) == S.child[c].st = "over" /\ ~HasMessage(S, c)

Claimable(S, r, c) ==
    /\ S.record[c].known /\ c \notin S.join[r].settled
    /\ \/ Silent(S, c)
       \/ Alive(S, S.reserved[c]) => S.reserved[c] = r /\ S.record[c].delivered = ""

LEMMA CollectKeeps ==
    ASSUME NEW S, NEW r \in Rounds, NEW c \in Children, NEW x \in {c, NoChild}, Good(S, r, x),
           Claimable(S, r, c), S.join[r].open
    PROVE  LET T == Collect(S, r, c) IN Good(T, r, NoChild) /\ Onward(S, T) /\ Collected(T, S, r, c)
<1> DEFINE T == Collect(S, r, c)
<1>1. S \in Memories /\ r # NoRound /\ c # NoChild /\ \A d \in Children : d # NoChild
  BY RoundsAreFinite DEF Good
<1>2. Collected(T, S, r, c)
  BY <1>1, CollectIs
<1> HIDE DEF T
<1>3. /\ T \in Memories
      /\ T.round = S.round /\ T.child = S.child /\ T.logged = S.logged /\ T.handed = S.handed
      /\ \A q \in Rounds : q # r => T.join[q] = S.join[q]
      /\ T.join[r].open /\ T.join[r].pending = S.join[r].pending \ {c}
      /\ T.join[r].settled = S.join[r].settled \cup {c}
      /\ T.join[r].earlier = IF S.record[c].delivered \in {"inbound", "join"}
                             THEN S.join[r].earlier \cup {c} ELSE S.join[r].earlier
      /\ T.reserved[c] = NoRound /\ T.record[c].known
      /\ T.record[c].delivered = IF S.record[c].delivered \in {"inbound", "join"}
                                 THEN S.record[c].delivered ELSE "join"
      /\ T.record[c].heldFor = NoRound /\ T.record[c].hold = ""
      /\ \A d \in Children : d # c => T.reserved[d] = S.reserved[d] /\ T.record[d] = S.record[d]
  BY <1>2 DEF Collected, Claimable
<1>4. ASSUME NEW d \in Children PROVE ResultOk(T, d) /\ ReservedKept(T, d)
  <2>1. ResultOk(S, d) /\ (d # x => ReservedKept(S, d))
    BY DEF Good
  <2>2. CASE d = c
    <3>1. Unrecorded(T, d) /\ Kept(T, d) /\ MessageRouted(T, d)
      BY <1>3, <2>2 DEF Unrecorded, Kept, MessageRouted
    <3>2. HandedMarked(T, d) /\ InboundLogged(T, d)
      BY <1>3, <2>1, <2>2 DEF ResultOk, HandedMarked, InboundLogged
    <3>3. ReservedKept(T, d)
      BY <1>3, <2>2 DEF ReservedKept, Alive
    <3> QED
      BY <3>1, <3>2, <3>3 DEF ResultOk
  <2>3. CASE d # c
    <3>1. T.record[d] = S.record[d] /\ T.reserved[d] = S.reserved[d] /\ d # x
      BY <1>1, <1>3, <2>3
    <3>2. \A q \in Rounds : d \in T.join[q].settled => d \in S.join[q].settled
      BY <1>3, <2>3
    <3>3. Unrecorded(T, d)
      BY <1>3, <2>1, <3>1, <3>2 DEF ResultOk, Unrecorded
    <3>4. Kept(T, d) /\ HandedMarked(T, d) /\ InboundLogged(T, d) /\ MessageRouted(T, d)
      BY <1>3, <2>1, <3>1 DEF ResultOk, Kept, HandedMarked, InboundLogged, MessageRouted, Born,
                              HasMessage
    <3>5. ReservedKept(T, d)
      BY <1>3, <2>1, <3>1 DEF ReservedKept, Born, Alive
    <3> QED
      BY <3>3, <3>4, <3>5 DEF ResultOk
  <2> QED
    BY <2>2, <2>3
<1>5. ASSUME NEW q \in Rounds
      PROVE  RoundOk(T, q) /\ JoinOk(T, q) /\ (T.join[q].open /\ q # r => Waits(T, q))
  <2>1. RoundOk(S, q) /\ JoinOk(S, q) /\ (S.join[q].open /\ q # r => Waits(S, q))
    BY DEF Good
  <2>2. CASE q = r
    <3>1. RoundOk(T, q)
      BY <1>3, <2>1, <2>2 DEF RoundOk, Born
    <3>2. JoinOk(T, q)
      BY <1>3, <2>1, <2>2 DEF JoinOk
    <3> QED
      BY <2>2, <3>1, <3>2
  <2>3. CASE q # r
    BY <1>3, <2>1, <2>3 DEF RoundOk, JoinOk, Waits, Born
  <2> QED
    BY <2>2, <2>3
<1>6. S.record[c].delivered \notin {"inbound", "join"} => S.handed[c] = 0
  BY DEF Good, ResultOk, HandedMarked
<1>7. ASSUME NEW q \in Rounds, NEW d, d \in InFull(T.join[q])
       PROVE  \/ d \in InFull(S.join[q])
              \/ q = r /\ d = c /\ S.record[c].delivered \notin {"inbound", "join"}
  <2>1. CASE q # r
    BY <1>3, <1>7, <2>1
  <2>2. CASE q = r /\ S.record[c].delivered \in {"inbound", "join"}
    <3>1. T.join[r].settled = S.join[r].settled \cup {c}
          /\ T.join[r].earlier = S.join[r].earlier \cup {c}
      BY <1>3, <2>2
    <3> QED
      BY <1>7, <2>2, <3>1 DEF InFull
  <2>3. CASE q = r /\ S.record[c].delivered \notin {"inbound", "join"}
    <3>1. T.join[r].settled = S.join[r].settled \cup {c} /\ T.join[r].earlier = S.join[r].earlier
      BY <1>3, <2>3
    <3> QED
      BY <1>7, <2>3, <3>1 DEF InFull
  <2> QED
    BY <2>1, <2>2, <2>3
<1>8. ASSUME NEW q \in Rounds, NEW d \in Children
      PROVE  CarriedOk(T, q, d) /\ CollectedOk(T, q, d) /\ PendingOk(T, q, d)
  <2>1. CarriedOk(S, q, d) /\ CollectedOk(S, q, d) /\ (d # x => PendingOk(S, q, d))
    BY DEF Good
  <2>2. CarriedOk(T, q, d)
    BY <1>3, <2>1 DEF CarriedOk
  <2>3. CollectedOk(T, q, d)
    <3>1. d \in InFull(T.join[q]) => d \in InFull(S.join[q])
             \/ (d = c /\ S.record[c].delivered \notin {"inbound", "join"})
      BY <1>7
    <3> QED
      BY <1>3, <1>6, <2>1, <3>1 DEF CollectedOk
  <2>4. PendingOk(T, q, d)
    <3>1. d = c => PendingOk(T, q, d)
      BY <1>3 DEF PendingOk
    <3>2. d # c => PendingOk(T, q, d)
      BY <1>1, <1>3, <2>1 DEF PendingOk
    <3> QED
      BY <3>1, <3>2
  <2> QED
    BY <2>2, <2>3, <2>4
<1>9. OneCarrier(T) /\ Room(T)
  <2>1. OfUsers(T) = OfUsers(S)
    BY <1>3 DEF OfUsers
  <2> QED
    BY <1>3, <2>1 DEF Good, OneCarrier, Room
<1>10. OneCollector(T)
  <2>1. ASSUME NEW p \in Rounds, NEW q \in Rounds, NEW d \in Children,
               d \in InFull(T.join[p]), d \in InFull(T.join[q])
        PROVE  p = q
    <3>1. CollectedOk(S, p, d) /\ CollectedOk(S, q, d)
          /\ (d \in InFull(S.join[p]) /\ d \in InFull(S.join[q]) => p = q)
      BY DEF Good, OneCollector
    <3>2. \A o \in Rounds : d \in InFull(T.join[o]) => d \in InFull(S.join[o])
             \/ (o = r /\ d = c /\ S.record[c].delivered \notin {"inbound", "join"})
      BY <1>7
    <3> QED
      BY <2>1, <3>1, <3>2 DEF CollectedOk
  <2>2. \A q \in Rounds : InFull(T.join[q]) \in SUBSET Children
    BY <1>3 DEF Memories, JoinRecord, InFull
  <2> QED
    BY <2>1, <2>2 DEF OneCollector
<1>11. Good(T, r, NoChild)
  BY <1>3, <1>4, <1>5, <1>8, <1>9, <1>10 DEF Good
<1>12. Onward(S, T)
  <2>1. ASSUME NEW d \in Children, NEW w \in Rounds, Alive(S, w), Bound(S, d, w)
        PROVE  Bound(T, d, w)
    <3>1. CASE d # c
      <4>1. d \in InFull(S.join[w]) => d \in InFull(T.join[w])
        BY <1>3, <3>1 DEF InFull
      <4> QED
        BY <1>3, <2>1, <3>1, <4>1 DEF Bound, HasMessage
    <3>2. CASE d = c
      <4>1. d \in InFull(S.join[w]) => d \in InFull(T.join[w])
        BY <1>3, <3>2 DEF InFull, Claimable
      <4>2. S.reserved[c] = w => c \in InFull(T.join[w]) \/ Silent(T, c)
        <5>1. JoinOk(S, r)
          BY DEF Good
        <5>2. CASE Silent(S, c)
          BY <1>3, <5>2 DEF Silent, HasMessage
        <5>3. CASE ~Silent(S, c)
          <6>1. S.reserved[c] = w => w = r /\ S.record[c].delivered = ""
            BY <2>1, <5>3 DEF Claimable
          <6>2. c \notin S.join[r].settled /\ c \notin S.join[r].earlier
            BY <5>1 DEF Claimable, JoinOk
          <6>3. S.record[c].delivered = "" =>
                   c \in T.join[r].settled /\ T.join[r].earlier = S.join[r].earlier
            BY <1>3
          <6> QED
            BY <6>1, <6>2, <6>3 DEF InFull
        <5> QED
          BY <5>2, <5>3
      <4> QED
        BY <1>3, <2>1, <3>2, <4>1, <4>2 DEF Bound, HasMessage, Silent
    <3> QED
      BY <3>1, <3>2
  <2> QED
    BY <1>3, <2>1 DEF Onward, Born, Alive
<1> QED
  BY <1>2, <1>11, <1>12 DEF T

\* The join of r has c.
Has(T, S, r, c) ==
    /\ T.join[r].open /\ T.join[r].pending = S.join[r].pending \ {c}
    /\ T.join[r].settled = S.join[r].settled \cup {c}
    /\ T.record[c].delivered # ""

LEMMA ClaimSettledKeeps ==
    ASSUME NEW S, NEW r \in Rounds, NEW c \in Children, NEW x \in {c, NoChild}, Good(S, r, x),
           Claimable(S, r, c), S.join[r].open, S.round[r].st # "pending",
           x = c => S.record[c].delivered = ""
    PROVE  LET T == ClaimSettled(S, r, c) IN
           Good(T, r, NoChild) /\ Onward(S, T) /\ Aside(S, T) /\ Has(T, S, r, c)
<1> DEFINE pulls == S.record[c].delivered = "inbound" /\ Withdrawable(S, c)
           M == IF pulls THEN Withdraw(S, c) ELSE S
           T == Collect(M, r, c)
<1>1. ClaimSettled(S, r, c) = T
  BY DEF ClaimSettled
<1>2. Good(M, r, x) /\ Onward(S, M) /\ Aside(S, M) /\ M.join = S.join /\ Claimable(M, r, c)
  <2>1. CASE ~pulls
    <3>1. M = S
      BY <2>1
    <3> HIDE DEF M
    <3>2. Onward(S, S) /\ Aside(S, S)
      BY OnwardHere DEF Aside
    <3> QED
      BY <3>1, <3>2
  <2>2. CASE pulls
    <3>1. M = Withdraw(S, c) /\ S.record[c].delivered = "inbound" /\ Withdrawable(S, c)
      BY <2>2
    <3> HIDE DEF M
    <3>2. x \in {c, NoChild} /\ (r \in Rounds => S.round[r].st # "pending")
      OBVIOUS
    <3>3. /\ Good(M, r, x) /\ Onward(S, M) /\ Aside(S, M)
          /\ M.join = S.join /\ M.reserved = S.reserved
          /\ M.record[c].delivered = "" /\ M.record[c].heldFor = NoRound
      <4> HIDE DEF pulls
      <4>1. LET W == Withdraw(S, c) IN
            /\ Good(W, r, x) /\ Onward(S, W) /\ Aside(S, W)
            /\ W.join = S.join /\ W.reserved = S.reserved
            /\ W.record[c].delivered = "" /\ W.record[c].heldFor = NoRound
        <5>1. Good(S, r, x) /\ x \in {c, NoChild} /\ Withdrawable(S, c)
              /\ S.record[c].delivered = "inbound" /\ (r \in Rounds => S.round[r].st # "pending")
          BY <3>1, <3>2
        <5> QED
          BY ONLY <5>1, c \in Children, WithdrawKeeps
      <4> QED
        BY <3>1, <4>1
    <3>4. c # x
      BY <3>1, RoundsAreFinite
    <3>5. S.reserved[c] \in Rounds \cup {NoRound} /\ ReservedKept(S, c)
      BY <3>4 DEF Good, Memories
    <3>6. Alive(M, M.reserved[c]) => Alive(S, S.reserved[c])
      <4>1. CASE S.reserved[c] = NoRound
        BY <3>3, <4>1 DEF Alive
      <4>2. CASE S.reserved[c] \in Rounds /\ S.reserved[c] # NoRound
        <5>1. Born(S, S.reserved[c])
          BY <3>5, <4>2 DEF ReservedKept
        <5> QED
          BY <3>3, <4>2, <5>1 DEF Onward
      <4> QED
        BY <3>5, <4>1, <4>2
    <3> QED
      BY <3>3, <3>6 DEF Claimable, Aside, Silent, HasMessage
  <2> QED
    BY <2>1, <2>2
<1> HIDE DEF M
<1>3. M.join[r].open
  BY <1>2
<1>4. Good(T, r, NoChild) /\ Onward(M, T) /\ Collected(T, M, r, c)
  BY <1>2, <1>3, CollectKeeps
<1> HIDE DEF T
<1>5. Onward(S, T)
  BY <1>2, <1>4, OnwardTwice
<1>6. Aside(M, T)
  <2>1. \A d \in Children : T.record[d].known = M.record[d].known
    BY <1>4 DEF Collected
  <2> QED
    BY <1>4, <2>1 DEF Collected, Aside, Born
<1>7. Aside(S, T)
  BY <1>2, <1>6, AsideTwice
<1>8. Has(T, S, r, c)
  BY <1>2, <1>3, <1>4 DEF Collected, Has
<1> QED
  BY <1>1, <1>4, <1>5, <1>7, <1>8

-----------------------------------------------------------------------------
(* A child enters the ledger.                                                *)

\* There is no exception any more when the child itself is in order.
LEMMA GoodAtLast ==
    ASSUME NEW S, NEW j, NEW x, Good(S, j, x),
           x \in Children => ReservedKept(S, x) /\ \A r \in Rounds : PendingOk(S, r, x)
    PROVE  Good(S, j, NoChild)
BY DEF Good

\* The child c ends or is routed; if it ended silently it stays so.
ChildMoved(T, S, c) ==
    /\ T \in Memories
    /\ T.round = S.round /\ T.record = S.record /\ T.reserved = S.reserved
    /\ T.join = S.join /\ T.logged = S.logged /\ T.handed = S.handed
    /\ \A d \in Children : d # c => T.child[d] = S.child[d]
    /\ S.child[c].st = "over" /\ ~HasMessage(S, c) => T.child[c].st = "over" /\ ~HasMessage(T, c)

Entered(T, S, c) ==
    /\ T \in Memories
    /\ T.round = S.round /\ T.child = S.child /\ T.reserved = S.reserved
    /\ T.join = S.join /\ T.logged = S.logged /\ T.handed = S.handed
    /\ T.record[c].known /\ T.record[c].delivered = S.record[c].delivered
    /\ T.record[c].heldFor = S.record[c].heldFor /\ T.record[c].hold = S.record[c].hold
    /\ \A d \in Children : d # c => T.record[d] = S.record[d]

LEMMA KnownIs ==
    ASSUME NEW S \in Memories, NEW c \in Children
    PROVE  Entered(Known(S, c), S, c)
<1> DEFINE q == [S.record[c] EXCEPT !.known = TRUE]
           R == [S.record EXCEPT ![c] = q]
           T == [S EXCEPT !.record = R]
<1>1. S.record \in [Children -> ResultRecord] /\ S.record[c] \in ResultRecord
  BY DEF Memories
<1>2. /\ q \in ResultRecord /\ q.known /\ q.delivered = S.record[c].delivered
      /\ q.heldFor = S.record[c].heldFor /\ q.hold = S.record[c].hold
  BY <1>1 DEF ResultRecord
<1>3. Known(S, c) = T
  BY <1>1 DEF Known, Memories
<1> HIDE DEF q
<1>4. R \in [Children -> ResultRecord] /\ R[c] = q /\ \A d \in Children : d # c => R[d] = S.record[d]
  BY <1>1, <1>2
<1> HIDE DEF R
<1>5. T \in Memories /\ SameElsewhere(T, S) /\ T.record = R
  BY <1>4, WithRecord
<1> HIDE DEF T
<1> QED
  BY <1>2, <1>3, <1>4, <1>5 DEF Entered, SameElsewhere

LEMMA KnownKeeps ==
    ASSUME NEW S, NEW j, Good(S, j, NoChild), NEW c \in Children, NEW U, ChildMoved(U, S, c)
    PROVE  LET T == Known(U, c) IN Good(T, j, c) /\ Onward(S, T) /\ Entered(T, U, c)
<1> DEFINE T == Known(U, c)
<1>1. Entered(T, U, c)
  BY KnownIs DEF ChildMoved
<1> HIDE DEF T
<1>2. /\ T \in Memories
      /\ T.round = S.round /\ T.reserved = S.reserved /\ T.join = S.join
      /\ T.logged = S.logged /\ T.handed = S.handed
      /\ T.record[c].known /\ T.record[c].delivered = S.record[c].delivered
      /\ T.record[c].heldFor = S.record[c].heldFor /\ T.record[c].hold = S.record[c].hold
      /\ \A d \in Children : d # c => T.record[d] = S.record[d] /\ T.child[d] = S.child[d]
      /\ S.child[c].st = "over" /\ ~HasMessage(S, c) => T.child[c].st = "over" /\ ~HasMessage(T, c)
  BY <1>1 DEF Entered, ChildMoved, HasMessage
<1>3. c # NoChild
  BY RoundsAreFinite
<1>4. ASSUME NEW d \in Children PROVE ResultOk(T, d) /\ (d # c => ReservedKept(T, d))
  <2>1. ResultOk(S, d) /\ ReservedKept(S, d)
    BY RoundsAreFinite DEF Good
  <2>2. CASE d = c
    <3>1. Unrecorded(T, d) /\ MessageRouted(T, d)
      BY <1>2, <2>2 DEF Unrecorded, MessageRouted
    <3>2. Kept(T, d) /\ HandedMarked(T, d) /\ InboundLogged(T, d)
      BY <1>2, <2>1, <2>2 DEF ResultOk, Kept, HandedMarked, InboundLogged, Born
    <3> QED
      BY <2>2, <3>1, <3>2 DEF ResultOk
  <2>3. CASE d # c
    BY <1>2, <2>1, <2>3 DEF ResultOk, Unrecorded, Kept, HandedMarked, InboundLogged, MessageRouted,
                            HasMessage, Born, ReservedKept, Alive
  <2> QED
    BY <2>2, <2>3
<1>5. ASSUME NEW r \in Rounds
      PROVE  RoundOk(T, r) /\ JoinOk(T, r) /\ (T.join[r].open /\ r # j => Waits(T, r))
  <2>1. RoundOk(S, r) /\ JoinOk(S, r) /\ (S.join[r].open /\ r # j => Waits(S, r))
    BY DEF Good
  <2> QED
    BY <1>2, <2>1 DEF RoundOk, JoinOk, Waits, Born
<1>6. ASSUME NEW r \in Rounds, NEW d \in Children
      PROVE  CarriedOk(T, r, d) /\ CollectedOk(T, r, d) /\ (d # c => PendingOk(T, r, d))
  <2>1. CarriedOk(S, r, d) /\ CollectedOk(S, r, d) /\ PendingOk(S, r, d)
    BY RoundsAreFinite DEF Good
  <2>2. T.record[d].delivered = S.record[d].delivered
    BY <1>2
  <2> QED
    BY <1>2, <2>1, <2>2 DEF CarriedOk, CollectedOk, PendingOk
<1>7. OneCarrier(T) /\ OneCollector(T)
  BY <1>2 DEF Good, OneCarrier, OneCollector
<1>8. Room(T)
  <2>1. OfUsers(T) = OfUsers(S)
    BY <1>2 DEF OfUsers
  <2> QED
    BY <2>1 DEF Good, Room
<1>9. Onward(S, T)
  <2>1. ASSUME NEW d \in Children, NEW w \in Rounds, Bound(S, d, w) PROVE Bound(T, d, w)
    <3>1. S.child[d].st = "over" /\ ~HasMessage(S, d) => T.child[d].st = "over" /\ ~HasMessage(T, d)
      BY <1>2 DEF HasMessage
    <3> QED
      BY <1>2, <2>1, <3>1 DEF Bound
  <2> QED
    BY <1>2, <2>1 DEF Onward, Born, Alive
<1> QED
  BY <1>1, <1>2, <1>4, <1>5, <1>6, <1>7, <1>8, <1>9 DEF Good, T

-----------------------------------------------------------------------------
(* A join is satisfied: its round is resumed with what the join collected.   *)

Resumed(T, S, r) ==
    /\ T \in Memories
    /\ T.child = S.child /\ T.record = S.record /\ T.reserved = S.reserved /\ T.logged = S.logged
    /\ \A q \in Rounds : q # r => T.round[q] = S.round[q] /\ T.join[q] = S.join[q]
    /\ T.round[r] = [S.round[r] EXCEPT !.st = "pending", !.ask = NoAsk]
    /\ T.join[r] = NoJoin
    /\ \A c \in Children :
         T.handed[c] = IF c \in InFull(S.join[r]) THEN S.handed[c] + 1 ELSE S.handed[c]

LEMMA ResumedIs ==
    ASSUME NEW S \in Memories, NEW r \in Rounds, S.round[r].st = "awaiting", ~S.round[r].cancelReq
    PROVE  Resumed(ResumeJoin(S, r), S, r)
<1> DEFINE M == Goes(S, r, "pending")
           J == [S.join EXCEPT ![r] = NoJoin]
           full == S.join[r].settled \ S.join[r].earlier
           H == [c \in Children |-> IF c \in full THEN S.handed[c] + 1 ELSE S.handed[c]]
           T == [M EXCEPT !.join = J, !.handed = H]
<1>1. /\ S.join \in [Rounds -> JoinRecord] /\ S.handed \in [Children -> Nat]
      /\ "pending" \in RoundStates
  BY DEF Memories, RoundStates
<1>2. Gone(M, S, r, "pending")
  BY <1>1, GoesIs
<1>3. /\ M \in Memories /\ M.child = S.child /\ M.record = S.record /\ M.reserved = S.reserved
      /\ M.logged = S.logged /\ M.join = S.join /\ M.handed = S.handed
      /\ \A q \in Rounds : q # r => M.round[q] = S.round[q]
      /\ M.round[r] = [S.round[r] EXCEPT !.st = "pending", !.ask = NoAsk]
  BY <1>2 DEF Gone, SameButRound
<1>4. NoJoin \in JoinRecord
  BY DEF NoJoin, JoinRecord
<1>5. /\ J \in [Rounds -> JoinRecord] /\ J[r] = NoJoin
      /\ \A q \in Rounds : q # r => J[q] = S.join[q]
      /\ H \in [Children -> Nat]
      /\ \A c \in Children : H[c] = IF c \in full THEN S.handed[c] + 1 ELSE S.handed[c]
  BY <1>1, <1>4
<1>6. ResumeJoin(S, r) = [M EXCEPT !.join[r] = NoJoin,
                                   !.handed = [c \in Children |-> IF c \in full THEN @[c] + 1 ELSE @[c]]]
  BY DEF ResumeJoin
<1> HIDE DEF M
<1>7. ResumeJoin(S, r) = T
  BY <1>3, <1>6 DEF Memories
<1> HIDE DEF J, H
<1>8. /\ T \in Memories /\ T.join = J /\ T.handed = H /\ T.round = M.round
      /\ T.child = M.child /\ T.record = M.record /\ T.reserved = M.reserved /\ T.logged = M.logged
  BY <1>3, <1>5 DEF Memories
<1> HIDE DEF T
<1> QED
  BY <1>3, <1>5, <1>7, <1>8 DEF Resumed, InFull

\* Nothing but the round r and its join changes, and what was handed over.
ByResume(S, T, r) ==
    /\ T.child = S.child /\ T.record = S.record /\ T.reserved = S.reserved /\ T.logged = S.logged
    /\ \A q \in Rounds : q # r => T.round[q] = S.round[q] /\ T.join[q] = S.join[q]
    /\ Born(S, r) => Born(T, r)

LEMMA ResumeJoinKeeps ==
    ASSUME NEW S, NEW r \in Rounds, Good(S, r, NoChild), S.round[r].st = "awaiting"
    PROVE  LET T == ResumeJoin(S, r) IN
           Good(T, NoRound, NoChild) /\ Onward(S, T) /\ ByResume(S, T, r)
<1> DEFINE T == ResumeJoin(S, r)
<1>1. /\ S \in Memories /\ S.round[r] \in RoundRecord /\ RoundOk(S, r)
      /\ \A c \in Children : c # NoChild
  BY RoundsAreFinite DEF Good, Memories
<1>2. ~S.round[r].cancelReq /\ S.round[r].claimed
  BY <1>1 DEF RoundOk
<1>3. Resumed(T, S, r)
  BY <1>1, <1>2, ResumedIs
<1> HIDE DEF T
<1>4. /\ T \in Memories
      /\ T.child = S.child /\ T.record = S.record /\ T.reserved = S.reserved /\ T.logged = S.logged
      /\ \A q \in Rounds : q # r => T.round[q] = S.round[q] /\ T.join[q] = S.join[q]
      /\ T.join[r] = NoJoin
      /\ \A c \in Children :
           T.handed[c] = IF c \in InFull(S.join[r]) THEN S.handed[c] + 1 ELSE S.handed[c]
  BY <1>3 DEF Resumed
<1>5. /\ T.round[r].st = "pending" /\ T.round[r].claimed /\ ~T.round[r].cancelReq
      /\ T.round[r].carries = S.round[r].carries /\ T.round[r].withdrawn = S.round[r].withdrawn
  BY <1>1, <1>2, <1>3 DEF Resumed, RoundRecord
<1>6. NoJoin.settled = {} /\ NoJoin.pending = {} /\ NoJoin.earlier = {} /\ ~NoJoin.open
      /\ InFull(NoJoin) = {}
  BY DEF NoJoin, InFull
<1>7. \A c \in Children : c \in InFull(S.join[r]) => S.handed[c] = 0 /\ S.record[c].delivered = "join"
  BY DEF Good, CollectedOk
<1>8. \A q \in Rounds : (Born(T, q) <=> Born(S, q))
  BY <1>4, <1>5 DEF Born
<1>9. \A q \in Rounds \cup {NoRound} : Alive(T, q) <=> Alive(S, q)
  BY <1>4, <1>5 DEF Alive
<1>10. ASSUME NEW c \in Children PROVE ResultOk(T, c) /\ ReservedKept(T, c)
  <2>1. ResultOk(S, c) /\ ReservedKept(S, c) /\ S.record[c].heldFor \in Rounds \cup {NoRound}
        /\ S.reserved[c] \in Rounds \cup {NoRound}
    BY <1>1 DEF Good, Memories, ResultRecord
  <2>2. Unrecorded(T, c)
    <3>1. \A q \in Rounds : T.join[q].settled \in SUBSET S.join[q].settled
      BY <1>4, <1>6
    <3> QED
      BY <1>4, <2>1, <3>1 DEF ResultOk, Unrecorded
  <2>3. Kept(T, c)
    BY <1>4, <1>8, <2>1 DEF ResultOk, Kept
  <2>4. HandedMarked(T, c)
    <3>1. CASE c \in InFull(S.join[r])
      BY <1>4, <1>7, <3>1 DEF HandedMarked
    <3>2. CASE c \notin InFull(S.join[r])
      BY <1>4, <2>1, <3>2 DEF ResultOk, HandedMarked
    <3> QED
      BY <3>1, <3>2
  <2>5. InboundLogged(T, c) /\ MessageRouted(T, c)
    BY <1>4, <2>1 DEF ResultOk, InboundLogged, MessageRouted, HasMessage
  <2>6. ReservedKept(T, c)
    BY <1>4, <1>8, <1>9, <2>1 DEF ReservedKept
  <2> QED
    BY <2>2, <2>3, <2>4, <2>5, <2>6 DEF ResultOk
<1>11. ASSUME NEW q \in Rounds
       PROVE  RoundOk(T, q) /\ JoinOk(T, q) /\ (T.join[q].open => Waits(T, q))
  <2>1. RoundOk(S, q) /\ JoinOk(S, q) /\ (S.join[q].open /\ q # r => Waits(S, q))
    BY DEF Good
  <2>2. CASE q = r
    BY <1>4, <1>5, <1>6, <2>1, <2>2 DEF RoundOk, JoinOk, Born
  <2>3. CASE q # r
    BY <1>4, <2>1, <2>3 DEF RoundOk, JoinOk, Waits, Born
  <2> QED
    BY <2>2, <2>3
<1>12. ASSUME NEW q \in Rounds, NEW c \in Children
       PROVE  CarriedOk(T, q, c) /\ CollectedOk(T, q, c) /\ PendingOk(T, q, c)
  <2>1. CarriedOk(S, q, c) /\ CollectedOk(S, q, c) /\ PendingOk(S, q, c) /\ RoundOk(S, q)
    BY <1>1 DEF Good
  <2>2. CarriedOk(T, q, c)
    <3>1. CASE q = r
      BY <1>4, <1>5, <2>1, <3>1 DEF CarriedOk
    <3>2. CASE q # r
      <4>1. T.round[q] = S.round[q]
        BY <1>4, <3>2
      <4>2. c \in InFull(S.join[r]) /\ c \in S.round[q].carries => S.round[q].st = "cancelled"
        BY <1>7, <2>1 DEF CarriedOk, RoundOk
      <4> QED
        BY <1>4, <2>1, <4>1, <4>2 DEF CarriedOk
    <3> QED
      BY <3>1, <3>2
  <2>3. CollectedOk(T, q, c)
    <3>1. CASE q = r
      BY <1>4, <1>6, <3>1 DEF CollectedOk
    <3>2. CASE q # r
      <4>1. c \in InFull(S.join[q]) => c \notin InFull(S.join[r])
        BY <3>2 DEF Good, OneCollector
      <4> QED
        BY <1>4, <2>1, <3>2, <4>1 DEF CollectedOk
    <3> QED
      BY <3>1, <3>2
  <2>4. PendingOk(T, q, c)
    BY <1>4, <1>6, <2>1 DEF PendingOk
  <2> QED
    BY <2>2, <2>3, <2>4
<1>13. OneCarrier(T)
  <2>1. \A q \in Rounds : T.round[q].carries = S.round[q].carries
    BY <1>4, <1>5
  <2> QED
    BY <2>1 DEF Good, OneCarrier
<1>14. OneCollector(T)
  <2>1. \A q \in Rounds : InFull(T.join[q]) \in SUBSET InFull(S.join[q])
    BY <1>4, <1>6
  <2> QED
    BY <2>1 DEF Good, OneCollector
<1>15. Room(T)
  <2>1. \A q \in Rounds : T.round[q].carries = S.round[q].carries
                          /\ T.round[q].withdrawn = S.round[q].withdrawn
    BY <1>4, <1>5
  <2>2. OfUsers(T) = OfUsers(S)
    BY <1>8, <2>1 DEF OfUsers, Born
  <2> QED
    BY <2>2 DEF Good, Room
<1>16. Good(T, NoRound, NoChild)
  BY <1>4, <1>10, <1>11, <1>12, <1>13, <1>14, <1>15 DEF Good
<1>17. Onward(S, T)
  <2>1. ASSUME NEW c \in Children, NEW w \in Rounds, Bound(S, c, w) PROVE Bound(T, c, w)
    <3>1. S.handed[c] \in Nat
      BY <1>1 DEF Memories
    <3>2. c \in InFull(S.join[w]) => c \in InFull(T.join[w]) \/ T.handed[c] # 0
      BY <1>4, <1>7
    <3>3. S.handed[c] # 0 => T.handed[c] # 0
      BY <1>4, <3>1
    <3> QED
      BY <1>4, <2>1, <3>2, <3>3 DEF Bound, HasMessage
  <2>2. \A q \in Rounds : T.round[q].carries = S.round[q].carries
    BY <1>4, <1>5
  <2> QED
    BY <1>8, <1>9, <2>1, <2>2 DEF Onward
<1>18. ByResume(S, T, r)
  BY <1>4, <1>8 DEF ByResume
<1> QED
  BY <1>16, <1>17, <1>18 DEF T

LEMMA ResumeIfSatisfiedKeeps ==
    ASSUME NEW S, NEW r \in Rounds, Good(S, r, NoChild), S.round[r].st = "awaiting"
    PROVE  LET T == ResumeIfSatisfied(S, r) IN
           Good(T, NoRound, NoChild) /\ Onward(S, T) /\ ByResume(S, T, r)
<1>1. CASE Satisfied(S.join[r])
  BY <1>1, ResumeJoinKeeps DEF ResumeIfSatisfied
<1>2. CASE ~Satisfied(S.join[r])
  <2>1. ResumeIfSatisfied(S, r) = S
    BY <1>2 DEF ResumeIfSatisfied
  <2>2. Good(S, NoRound, NoChild)
    BY <1>2, GoodAgain DEF Waits
  <2>3. Onward(S, S) /\ ByResume(S, S, r)
    BY OnwardHere DEF ByResume
  <2> QED
    BY <2>1, <2>2, <2>3
<1> QED
  BY <1>1, <1>2

-----------------------------------------------------------------------------
(* A child is settled, and its result finds its place.                       *)

\* Nobody has what is kept for nobody, unless it is promised to somebody dead.
Placed(S, c) == S.record[c].known /\ (Settled(S, c) \/ ~Alive(S, S.reserved[c]))

\* The reservation of c is void.
Unpromised(T, S, c) ==
    /\ T \in Memories
    /\ T.round = S.round /\ T.child = S.child /\ T.record = S.record
    /\ T.join = S.join /\ T.logged = S.logged /\ T.handed = S.handed
    /\ T.reserved[c] = NoRound /\ \A d \in Children : d # c => T.reserved[d] = S.reserved[d]

LEMMA UnpromisedIs ==
    ASSUME NEW S \in Memories, NEW c \in Children
    PROVE  Unpromised([S EXCEPT !.reserved[c] = NoRound], S, c)
<1> DEFINE V == [S.reserved EXCEPT ![c] = NoRound]
           T == [S EXCEPT !.reserved = V]
<1>1. S.reserved \in [Children -> Rounds \cup {NoRound}]
  BY DEF Memories
<1>2. [S EXCEPT !.reserved[c] = NoRound] = T
  OBVIOUS
<1>3. /\ V \in [Children -> Rounds \cup {NoRound}]
      /\ V[c] = NoRound /\ \A d \in Children : d # c => V[d] = S.reserved[d]
  BY <1>1
<1> HIDE DEF V
<1>4. /\ T \in Memories /\ T.reserved = V
      /\ T.round = S.round /\ T.child = S.child /\ T.record = S.record
      /\ T.join = S.join /\ T.logged = S.logged /\ T.handed = S.handed
  BY <1>3 DEF Memories
<1> HIDE DEF T
<1> QED
  BY <1>2, <1>3, <1>4 DEF Unpromised

LEMMA UnpromisedKeeps ==
    ASSUME NEW S, NEW j, NEW c \in Children, Good(S, j, c), S.record[c].known,
           ~Alive(S, S.reserved[c]), NEW T, Unpromised(T, S, c)
    PROVE  Good(T, j, NoChild) /\ Onward(S, T)
<1>1. /\ T \in Memories
      /\ T.round = S.round /\ T.child = S.child /\ T.record = S.record
      /\ T.join = S.join /\ T.logged = S.logged /\ T.handed = S.handed
      /\ T.reserved[c] = NoRound /\ \A d \in Children : d # c => T.reserved[d] = S.reserved[d]
  BY DEF Unpromised
<1>2. ASSUME NEW d \in Children PROVE ResultOk(T, d) /\ ReservedKept(T, d)
  <2>1. ResultOk(S, d) /\ (d # c => ReservedKept(S, d))
    BY DEF Good
  <2>2. ResultOk(T, d)
    BY <1>1, <2>1 DEF ResultOk, Unrecorded, Kept, HandedMarked, InboundLogged, MessageRouted,
                      HasMessage, Born
  <2>3. ReservedKept(T, d)
    <3>1. CASE d = c
      BY <1>1, <3>1 DEF ReservedKept, Alive
    <3>2. CASE d # c
      BY <1>1, <2>1, <3>2 DEF ReservedKept, Alive, Born
    <3> QED
      BY <3>1, <3>2
  <2> QED
    BY <2>2, <2>3
<1>3. ASSUME NEW r \in Rounds
      PROVE  RoundOk(T, r) /\ JoinOk(T, r) /\ (T.join[r].open /\ r # j => Waits(T, r))
  <2>1. RoundOk(S, r) /\ JoinOk(S, r) /\ (S.join[r].open /\ r # j => Waits(S, r))
    BY DEF Good
  <2> QED
    BY <1>1, <2>1 DEF RoundOk, JoinOk, Waits, Born
<1>4. ASSUME NEW r \in Rounds, NEW d \in Children
      PROVE  CarriedOk(T, r, d) /\ CollectedOk(T, r, d) /\ PendingOk(T, r, d)
  <2>1. CarriedOk(S, r, d) /\ CollectedOk(S, r, d) /\ (d # c => PendingOk(S, r, d))
    BY DEF Good
  <2>2. PendingOk(T, r, d)
    <3>1. CASE d = c
      BY <1>1, <3>1 DEF PendingOk
    <3>2. CASE d # c
      BY <1>1, <2>1, <3>2 DEF PendingOk
    <3> QED
      BY <3>1, <3>2
  <2> QED
    BY <1>1, <2>1, <2>2 DEF CarriedOk, CollectedOk
<1>5. OneCarrier(T) /\ OneCollector(T)
  BY <1>1 DEF Good, OneCarrier, OneCollector
<1>6. Room(T)
  <2>1. OfUsers(T) = OfUsers(S)
    BY <1>1 DEF OfUsers
  <2> QED
    BY <2>1 DEF Good, Room
<1>7. Onward(S, T)
  <2>1. ASSUME NEW d \in Children, NEW w \in Rounds, Alive(S, w), Bound(S, d, w) PROVE Bound(T, d, w)
    <3>1. S.reserved[d] = w => T.reserved[d] = w
      BY <1>1, <2>1
    <3> QED
      BY <1>1, <2>1, <3>1 DEF Bound, HasMessage
  <2> QED
    BY <1>1, <2>1 DEF Onward, Born, Alive
<1> QED
  BY <1>1, <1>2, <1>3, <1>4, <1>5, <1>6, <1>7 DEF Good

\* The result c is kept for w.
Held(T, S, c, w, hold) ==
    /\ T \in Memories /\ SameElsewhere(T, S)
    /\ T.record[c].known = S.record[c].known /\ T.record[c].delivered = S.record[c].delivered
    /\ T.record[c].heldFor = w /\ T.record[c].hold = hold
    /\ \A d \in Children : d # c => T.record[d] = S.record[d]

LEMMA HeldIs ==
    ASSUME NEW S \in Memories, NEW c \in Children, NEW w \in Rounds, NEW hold \in {"await", "round"}
    PROVE  Held([S EXCEPT !.record[c].heldFor = w, !.record[c].hold = hold], S, c, w, hold)
<1> DEFINE q == [S.record[c] EXCEPT !.heldFor = w, !.hold = hold]
           R == [S.record EXCEPT ![c] = q]
           T == [S EXCEPT !.record = R]
<1>1. S.record \in [Children -> ResultRecord] /\ S.record[c] \in ResultRecord
  BY DEF Memories
<1>2. /\ q \in ResultRecord /\ q.known = S.record[c].known /\ q.delivered = S.record[c].delivered
      /\ q.heldFor = w /\ q.hold = hold
  BY <1>1 DEF ResultRecord
<1>3. [S EXCEPT !.record[c].heldFor = w, !.record[c].hold = hold] = T
  BY <1>1 DEF Memories
<1> HIDE DEF q
<1>4. R \in [Children -> ResultRecord] /\ R[c] = q /\ \A d \in Children : d # c => R[d] = S.record[d]
  BY <1>1, <1>2
<1> HIDE DEF R
<1>5. T \in Memories /\ SameElsewhere(T, S) /\ T.record = R
  BY <1>4, WithRecord
<1> HIDE DEF T
<1> QED
  BY <1>2, <1>3, <1>4, <1>5 DEF Held

LEMMA HeldKeeps ==
    ASSUME NEW S, NEW j, NEW x, NEW c \in Children, Good(S, j, x), S.record[c].known,
           S.record[c].delivered = "", NEW w \in Rounds, Born(S, w),
           NEW hold \in {"await", "round"}, NEW T, Held(T, S, c, w, hold),
           c # x => ~Alive(S, S.reserved[c])
    PROVE  Good(T, j, x) /\ Onward(S, T)
<1>1. /\ T \in Memories /\ SameElsewhere(T, S)
      /\ T.record[c].known /\ T.record[c].delivered = ""
      /\ T.record[c].heldFor = w /\ T.record[c].hold = hold
      /\ \A d \in Children : d # c => T.record[d] = S.record[d]
  BY DEF Held
<1>2. ASSUME NEW d \in Children
      PROVE  MarksStay(T, S, x, d) /\ ResultOk(T, d) /\ (d # x => ReservedKept(T, d))
  <2>1. ResultOk(S, d) /\ (d # x => ReservedKept(S, d))
    BY DEF Good
  <2>2. CASE d = c
    <3>1. MarksStay(T, S, x, d)
      BY <1>1, <2>2 DEF MarksStay
    <3>2. Unrecorded(T, d) /\ HandedMarked(T, d) /\ InboundLogged(T, d) /\ MessageRouted(T, d)
      BY <1>1, <2>1, <2>2 DEF ResultOk, Unrecorded, HandedMarked, InboundLogged, MessageRouted,
                              SameElsewhere
    <3>3. Kept(T, d)
      BY <1>1, <2>2, RoundsAreFinite DEF Kept, SameElsewhere, Born
    <3>4. d # x => ReservedKept(T, d)
      BY <1>1, <2>1, <2>2 DEF ReservedKept, SameElsewhere, Alive, Born
    <3> QED
      BY <3>1, <3>2, <3>3, <3>4 DEF ResultOk
  <2>3. CASE d # c
    BY <1>1, <2>1, <2>3 DEF MarksStay, ResultOk, Unrecorded, Kept, HandedMarked, InboundLogged,
         MessageRouted, ReservedKept, SameElsewhere, Born, Alive, HasMessage
  <2> QED
    BY <2>2, <2>3
<1>3. Good(T, j, x)
  BY <1>1, <1>2, RecordsMove
<1> QED
  BY <1>1, <1>3, OnwardBesides

LEMMA SettleKeeps ==
    ASSUME NEW S, Good(S, NoRound, NoChild), NEW c \in Children, NEW U, ChildMoved(U, S, c)
    PROVE  LET T == Settle(U, c) IN
           Good(T, NoRound, NoChild) /\ Onward(S, T) /\ Placed(T, c) /\ T.child = U.child
<1> DEFINE K == Known(U, c)
           w == U.reserved[c]
<1>1. Good(K, NoRound, c) /\ Onward(S, K) /\ Entered(K, U, c)
  BY KnownKeeps
<1> HIDE DEF K
<1>2. /\ K \in Memories
      /\ K.round = S.round /\ K.child = U.child /\ K.reserved = S.reserved /\ U.reserved = S.reserved
      /\ K.join = S.join /\ U.join = S.join /\ U.round = S.round
      /\ K.record[c].known /\ K.record[c].delivered = S.record[c].delivered
      /\ K.record[c].heldFor = S.record[c].heldFor /\ K.record[c].hold = S.record[c].hold
      /\ \A d \in Children : d # c => K.record[d] = S.record[d]
      /\ U.record = S.record
  BY <1>1 DEF Entered, ChildMoved
<1>3. c # NoChild /\ NoRound \notin Rounds /\ S \in Memories /\ w \in Rounds \cup {NoRound}
  BY <1>2, RoundsAreFinite DEF Good, Memories
<1>4. ResultOk(S, c) /\ ReservedKept(S, c) /\ \A r \in Rounds : PendingOk(S, r, c) /\ JoinOk(S, r)
  BY <1>3 DEF Good
<1>5. Settle(U, c) = IF Settled(U, c) THEN K
                     ELSE IF ~Awaited(U, c) THEN [K EXCEPT !.reserved[c] = NoRound]
                     ELSE IF c \in U.join[w].pending THEN ResumeIfSatisfied(ClaimSettled(K, w, c), w)
                     ELSE [K EXCEPT !.record[c].heldFor = w, !.record[c].hold = "await"]
  BY DEF Settle, K
<1>6. CASE Settled(U, c)
  <2>1. S.record[c].known
    BY <1>2, <1>4, <1>6 DEF Settled, ResultOk, Unrecorded
  <2>2. ReservedKept(K, c) /\ \A r \in Rounds : PendingOk(K, r, c)
    BY <1>2, <1>4, <2>1 DEF ReservedKept, PendingOk, Born, Alive
  <2>3. Good(K, NoRound, NoChild)
    BY <1>1, <2>2, GoodAtLast
  <2>4. Placed(K, c)
    BY <1>2, <1>6 DEF Placed, Settled
  <2> QED
    BY <1>1, <1>2, <1>5, <1>6, <2>3, <2>4
<1>7. CASE ~Settled(U, c) /\ ~Awaited(U, c)
  <2> DEFINE T == [K EXCEPT !.reserved[c] = NoRound]
  <2>1. Settle(U, c) = T
    BY <1>5, <1>7
  <2>2. Unpromised(T, K, c)
    BY <1>2, UnpromisedIs
  <2> HIDE DEF T
  <2>3. ~Alive(K, K.reserved[c])
    BY <1>2, <1>7 DEF Awaited, Alive
  <2>4. Good(T, NoRound, NoChild) /\ Onward(K, T)
    BY <1>1, <1>2, <2>2, <2>3, UnpromisedKeeps
  <2>5. Onward(S, T)
    BY <1>1, <2>4, OnwardTwice
  <2>6. T.record = K.record /\ T.reserved[c] = NoRound /\ T.child = K.child
    BY <2>2 DEF Unpromised
  <2>7. Placed(T, c)
    BY <1>2, <2>6 DEF Placed, Alive
  <2> QED
    BY <1>2, <2>1, <2>4, <2>5, <2>6, <2>7
<1>8. CASE ~Settled(U, c) /\ Awaited(U, c) /\ c \in U.join[w].pending
  <2> DEFINE M == ClaimSettled(K, w, c)
             T == ResumeIfSatisfied(M, w)
  <2>1. Settle(U, c) = T
    BY <1>5, <1>8
  <2>2. w \in Rounds
    BY <1>3, <1>8 DEF Awaited, Alive
  <2>3. K.join[w].open
    BY <1>2, <1>4, <1>8, <2>2 DEF JoinOk, NoJoin
  <2>4. Claimable(K, w, c)
    <3>1. c \notin S.join[w].settled
      BY <1>2, <1>4, <1>8, <2>2 DEF JoinOk
    <3>2. K.reserved[c] = w
      BY <1>2
    <3>3. K.record[c].delivered = ""
      BY <1>2, <1>8 DEF Settled
    <3> QED
      BY <1>2, <3>1, <3>2, <3>3 DEF Claimable
  <2>5. K.round[w].st = "awaiting"
    BY <1>1, <1>3, <2>2, <2>3 DEF Good, Waits
  <2>6. Good(K, w, c)
    BY <1>1, <1>3 DEF Good
  <2>7. c \in {c, NoChild} /\ K.record[c].delivered = "" /\ K.round[w].st # "pending"
    BY <1>2, <1>8, <2>5 DEF Settled
  <2> HIDE DEF w
  <2>8. Good(M, w, NoChild) /\ Onward(K, M) /\ Aside(K, M) /\ Has(M, K, w, c)
    BY ONLY <2>2, <2>3, <2>4, <2>6, <2>7, c \in Children, ClaimSettledKeeps
  <2> HIDE DEF M
  <2>9. M.round[w].st = "awaiting" /\ M.child = K.child /\ M.record[c].known
    BY <1>2, <2>2, <2>5, <2>8 DEF Aside
  <2>10. Good(T, NoRound, NoChild) /\ Onward(M, T) /\ ByResume(M, T, w)
    BY <2>2, <2>8, <2>9, ResumeIfSatisfiedKeeps
  <2> HIDE DEF T
  <2>11. Onward(S, T)
    BY <1>1, <2>8, <2>10, OnwardTwice
  <2>12. Placed(T, c) /\ T.child = U.child
    BY <1>2, <2>8, <2>9, <2>10 DEF Placed, Settled, ByResume, Has
  <2> QED
    BY <2>1, <2>10, <2>11, <2>12
<1>9. CASE ~Settled(U, c) /\ Awaited(U, c) /\ c \notin U.join[w].pending
  <2> DEFINE T == [K EXCEPT !.record[c].heldFor = w, !.record[c].hold = "await"]
  <2>1. Settle(U, c) = T
    BY <1>5, <1>9
  <2>2. w \in Rounds /\ "await" \in {"await", "round"} /\ w = K.reserved[c]
    BY <1>2, <1>3, <1>9 DEF Awaited, Alive
  <2>3. Born(K, w) /\ K.record[c].delivered = ""
    BY <1>2, <1>9 DEF Awaited, Alive, Born, Settled
  <2> HIDE DEF w
  <2>4. Held(T, K, c, w, "await")
    BY <1>2, <2>2, HeldIs
  <2> HIDE DEF T
  <2>5. Good(T, NoRound, c) /\ Onward(K, T)
    BY <1>1, <1>2, <2>2, <2>3, <2>4, HeldKeeps
  <2>6. /\ T.reserved = K.reserved /\ T.round = K.round /\ T.join = K.join /\ T.child = K.child
        /\ T.record[c].known /\ T.record[c].heldFor = w /\ T.record[c].hold = "await"
    BY <1>2, <2>4 DEF Held, SameElsewhere
  <2>7. ReservedKept(T, c)
    <3>1. T.reserved[c] = w /\ Born(T, w)
      BY <2>2, <2>3, <2>6 DEF Born
    <3> QED
      BY <2>6, <3>1 DEF ReservedKept
  <2>8. ASSUME NEW r \in Rounds PROVE PendingOk(T, r, c)
    <3>1. c \notin S.join[r].pending
      <4>1. PendingOk(S, r, c)
        BY <1>4
      <4>2. w # NoRound /\ S.reserved[c] = w
        BY <1>2, <1>3, <2>2
      <4>3. c \notin S.join[w].pending
        BY <1>2, <1>9
      <4> QED
        BY <4>1, <4>2, <4>3 DEF PendingOk
    <3> QED
      BY <1>2, <2>6, <3>1 DEF PendingOk
  <2>9. Good(T, NoRound, NoChild)
    BY <2>5, <2>7, <2>8, GoodAtLast
  <2>10. Onward(S, T)
    BY <1>1, <2>5, OnwardTwice
  <2>11. Placed(T, c)
    BY <1>3, <2>2, <2>6 DEF Placed, Settled
  <2> QED
    BY <1>2, <2>1, <2>6, <2>9, <2>10, <2>11
<1> QED
  BY <1>6, <1>7, <1>8, <1>9

LEMMA UnfinishedIs ==
    ASSUME NEW S, Unfinished(S) # NoRound
    PROVE  Unfinished(S) \in Rounds /\ Born(S, Unfinished(S))
<1> DEFINE open == {r \in Rounds : RoundOpen(S, r)}
           busy == {r \in open : S.round[r].st # "pending"}
<1>1. Unfinished(S) = IF busy # {} THEN Min(busy) ELSE IF open # {} THEN Min(open) ELSE NoRound
  BY DEF Unfinished
<1>2. open \in SUBSET Nat /\ busy \in SUBSET Nat /\ busy \in SUBSET open
  BY RoundsAreFinite
<1>3. \A r \in open : r \in Rounds /\ Born(S, r)
  BY DEF RoundOpen, Born
<1> HIDE DEF open, busy
<1>4. CASE busy # {}
  BY <1>1, <1>2, <1>3, <1>4, MinIsOne
<1>5. CASE busy = {} /\ open # {}
  BY <1>1, <1>2, <1>3, <1>5, MinIsOne
<1> QED
  BY <1>1, <1>4, <1>5

LEMMA InjectKeeps ==
    ASSUME NEW S, Good(S, NoRound, NoChild), NEW c \in Children, NEW U, ChildMoved(U, S, c),
           HasMessage(U, c)
    PROVE  LET T == Inject(U, c) IN Good(T, NoRound, NoChild) /\ Onward(S, T)
<1> DEFINE M == Settle(U, c)
           holder == Unfinished(M)
<1>1. Good(M, NoRound, NoChild) /\ Onward(S, M) /\ Placed(M, c) /\ M.child = U.child
  BY SettleKeeps
<1>2. Inject(U, c) = IF Settled(M, c) THEN M
                     ELSE IF holder # NoRound
                     THEN [M EXCEPT !.record[c].heldFor = holder, !.record[c].hold = "round"]
                     ELSE Deliver(M, {c})
  BY DEF Inject
<1> HIDE DEF M
<1>3. CASE Settled(M, c)
  BY <1>1, <1>2, <1>3
<1>4. CASE ~Settled(M, c) /\ holder # NoRound
  <2> DEFINE T == [M EXCEPT !.record[c].heldFor = holder, !.record[c].hold = "round"]
  <2>1. holder \in Rounds /\ Born(M, holder) /\ "round" \in {"await", "round"} /\ M \in Memories
    BY <1>1, <1>4, UnfinishedIs DEF Good
  <2> HIDE DEF holder
  <2>2. Held(T, M, c, holder, "round")
    BY <2>1, HeldIs
  <2> HIDE DEF T
  <2>3. M.record[c].known /\ M.record[c].delivered = "" /\ ~Alive(M, M.reserved[c])
    BY <1>1, <1>4 DEF Placed, Settled
  <2>4. Good(T, NoRound, NoChild) /\ Onward(M, T)
    BY <1>1, <2>1, <2>2, <2>3, HeldKeeps
  <2>5. Onward(S, T)
    BY <1>1, <2>4, OnwardTwice
  <2> QED
    BY <1>2, <1>4, <2>4, <2>5 DEF T
<1>5. CASE ~Settled(M, c) /\ holder = NoRound
  <2>1. \A d \in {c} : Loose(M, d)
    BY <1>1, <1>5 DEF Placed, Settled, Loose, Returnable
  <2>2. {c} \in SUBSET Children /\ \A d \in {c} : HasMessage(M, d)
    BY <1>1 DEF HasMessage
  <2> DEFINE T == Deliver(M, {c})
  <2>3. Good(T, NoRound, NoChild) /\ Onward(M, T)
    BY <1>1, <2>1, <2>2, DeliverKeeps
  <2> HIDE DEF T
  <2>4. Onward(S, T)
    BY <1>1, <2>3, OnwardTwice
  <2> QED
    BY <1>2, <1>5, <2>3, <2>4 DEF T
<1> QED
  BY <1>3, <1>4, <1>5

-----------------------------------------------------------------------------
(* A child that was settled without its hook enters the ledger: it is silent. *)

LEMMA WithoutHookKeeps ==
    ASSUME NEW S, NEW j, Good(S, j, NoChild), NEW c \in Children, Unhooked(S, c)
    PROVE  LET T == WithoutHook(S, c) IN
           /\ Good(T, j, c) /\ Onward(S, T) /\ Aside(S, T) /\ Entered(T, S, c)
           /\ Silent(T, c) /\ T.record[c].delivered = "" /\ T.record[c].heldFor = NoRound
           /\ \A r \in Rounds : c \notin T.join[r].settled
<1> DEFINE K == Known(S, c)
           T == WithoutHook(S, c)
<1>1. S \in Memories /\ ResultOk(S, c)
  BY DEF Good
<1>2. /\ S.record[c].delivered = "" /\ S.record[c].heldFor = NoRound
      /\ c \notin S.logged /\ \A r \in Rounds : c \notin S.join[r].settled
      /\ Silent(S, c)
  BY <1>1 DEF Unhooked, ResultOk, Unrecorded, MessageRouted, Silent
<1>3. ChildMoved(S, S, c)
  BY <1>1 DEF ChildMoved
<1>4. Good(K, j, c) /\ Onward(S, K) /\ Entered(K, S, c)
  BY <1>3, KnownKeeps
<1>5. T = [K EXCEPT !.record[c].delivered = IF c \in S.logged THEN "inbound" ELSE @]
  BY DEF WithoutHook
<1> HIDE DEF K
<1>6. T = [K EXCEPT !.record[c].delivered = K.record[c].delivered]
  BY <1>2, <1>5
<1>7. K \in Memories
  BY <1>4 DEF Entered
<1>8. T = K
  <2> DEFINE R == [K.record EXCEPT ![c] = [@ EXCEPT !.delivered = K.record[c].delivered]]
  <2>1. K.record \in [Children -> ResultRecord] /\ K.record[c] \in ResultRecord
    BY <1>7 DEF Memories
  <2>2. [K.record[c] EXCEPT !.delivered = K.record[c].delivered] = K.record[c]
    BY <2>1 DEF ResultRecord
  <2>3. R = K.record
    BY <2>1, <2>2
  <2>4. T = [K EXCEPT !.record = R]
    BY <1>6
  <2> HIDE DEF R
  <2> QED
    BY <1>7, <2>3, <2>4 DEF Memories
<1> HIDE DEF T
<1>9. Aside(S, K)
  <2>1. \A d \in Children : S.record[d].known => K.record[d].known
    BY <1>4 DEF Entered
  <2> QED
    BY <1>4, <2>1 DEF Entered, Aside, Born
<1> QED
  BY <1>2, <1>4, <1>8, <1>9 DEF Entered, Silent, HasMessage, T

\* The round r is promised c.
Promised(T, S, r, c) ==
    /\ T \in Memories
    /\ T.round = S.round /\ T.child = S.child /\ T.record = S.record /\ T.logged = S.logged
    /\ T.handed = S.handed
    /\ T.reserved[c] = r /\ \A d \in Children : d # c => T.reserved[d] = S.reserved[d]
    /\ \A q \in Rounds : q # r => T.join[q] = S.join[q]
    /\ T.join[r].open = S.join[r].open /\ T.join[r].settled = S.join[r].settled
    /\ T.join[r].earlier = S.join[r].earlier /\ T.join[r].pending = S.join[r].pending \cup {c}

LEMMA PromisedIs ==
    ASSUME NEW S \in Memories, NEW r \in Rounds, NEW c \in Children
    PROVE  Promised([S EXCEPT !.reserved[c] = r, !.join[r].pending = @ \union {c}], S, r, c)
<1> DEFINE jn == [S.join[r] EXCEPT !.pending = @ \union {c}]
           J == [S.join EXCEPT ![r] = jn]
           V == [S.reserved EXCEPT ![c] = r]
           T == [S EXCEPT !.reserved = V, !.join = J]
<1>1. /\ S.join \in [Rounds -> JoinRecord] /\ S.join[r] \in JoinRecord
      /\ S.reserved \in [Children -> Rounds \cup {NoRound}]
  BY DEF Memories
<1>2. /\ jn \in JoinRecord /\ jn.open = S.join[r].open /\ jn.settled = S.join[r].settled
      /\ jn.earlier = S.join[r].earlier /\ jn.pending = S.join[r].pending \cup {c}
  BY <1>1 DEF JoinRecord
<1>3. [S EXCEPT !.reserved[c] = r, !.join[r].pending = @ \union {c}] = T
  BY <1>1 DEF Memories
<1> HIDE DEF jn
<1>4. /\ J \in [Rounds -> JoinRecord] /\ J[r] = jn /\ \A q \in Rounds : q # r => J[q] = S.join[q]
      /\ V \in [Children -> Rounds \cup {NoRound}] /\ V[c] = r
      /\ \A d \in Children : d # c => V[d] = S.reserved[d]
  BY <1>1, <1>2
<1> HIDE DEF J, V
<1>5. /\ T \in Memories /\ T.reserved = V /\ T.join = J
      /\ T.round = S.round /\ T.child = S.child /\ T.record = S.record /\ T.logged = S.logged
      /\ T.handed = S.handed
  BY <1>4 DEF Memories
<1> HIDE DEF T
<1> QED
  BY <1>2, <1>3, <1>4, <1>5 DEF Promised

LEMMA PromisedKeeps ==
    ASSUME NEW S, NEW r \in Rounds, NEW c \in Children, Good(S, r, NoChild), S.join[r].open,
           ~S.record[c].known, S.reserved[c] \in {NoRound, r} \/ ~Alive(S, S.reserved[c]),
           Born(S, r), NEW T, Promised(T, S, r, c)
    PROVE  Good(T, r, NoChild) /\ Onward(S, T)
<1>1. /\ T \in Memories
      /\ T.round = S.round /\ T.child = S.child /\ T.record = S.record /\ T.logged = S.logged
      /\ T.handed = S.handed
      /\ T.reserved[c] = r /\ \A d \in Children : d # c => T.reserved[d] = S.reserved[d]
      /\ \A q \in Rounds : q # r => T.join[q] = S.join[q]
      /\ T.join[r].open /\ T.join[r].settled = S.join[r].settled
      /\ T.join[r].earlier = S.join[r].earlier /\ T.join[r].pending = S.join[r].pending \cup {c}
  BY DEF Promised
<1>2. \A d \in Children : d # NoChild
  BY RoundsAreFinite
<1>3. \A q \in Rounds : T.join[q].settled = S.join[q].settled /\ T.join[q].earlier = S.join[q].earlier
  BY <1>1
<1>4. ASSUME NEW d \in Children PROVE ResultOk(T, d) /\ ReservedKept(T, d)
  <2>1. ResultOk(S, d) /\ ReservedKept(S, d)
    BY <1>2 DEF Good
  <2>2. ResultOk(T, d)
    BY <1>1, <1>3, <2>1 DEF ResultOk, Unrecorded, Kept, HandedMarked, InboundLogged, MessageRouted,
                            HasMessage, Born
  <2>3. ReservedKept(T, d)
    <3>1. CASE d = c
      BY <1>1, <3>1 DEF ReservedKept, Born
    <3>2. CASE d # c
      BY <1>1, <2>1, <3>2 DEF ReservedKept, Alive, Born
    <3> QED
      BY <3>1, <3>2
  <2> QED
    BY <2>2, <2>3
<1>5. \A q \in Rounds : c \notin S.join[q].settled
  BY DEF Good, ResultOk, Unrecorded
<1>6. ASSUME NEW q \in Rounds
      PROVE  RoundOk(T, q) /\ JoinOk(T, q) /\ (T.join[q].open /\ q # r => Waits(T, q))
  <2>1. RoundOk(S, q) /\ JoinOk(S, q) /\ (S.join[q].open /\ q # r => Waits(S, q))
    BY DEF Good
  <2>2. RoundOk(T, q)
    <3>1. T.join[q].open => S.join[q].open
      BY <1>1
    <3> QED
      BY <1>1, <2>1, <3>1 DEF RoundOk, Born
  <2>3. CASE q = r
    BY <1>1, <1>5, <2>1, <2>2, <2>3 DEF JoinOk
  <2>4. CASE q # r
    BY <1>1, <2>1, <2>2, <2>4 DEF JoinOk, Waits
  <2> QED
    BY <2>3, <2>4
<1>7. \A q \in Rounds : InFull(T.join[q]) = InFull(S.join[q])
  BY <1>3 DEF InFull
<1>8. ASSUME NEW q \in Rounds, NEW d \in Children
      PROVE  CarriedOk(T, q, d) /\ CollectedOk(T, q, d) /\ PendingOk(T, q, d)
  <2>1. CarriedOk(S, q, d) /\ CollectedOk(S, q, d) /\ PendingOk(S, q, d) /\ JoinOk(S, q)
        /\ (S.join[q].open /\ q # r => Waits(S, q))
    BY <1>2 DEF Good
  <2>2. PendingOk(T, q, d)
    <3>1. CASE d # c
      BY <1>1, <2>1, <3>1 DEF PendingOk
    <3>2. CASE d = c /\ q = r
      BY <1>1, <3>2 DEF PendingOk
    <3>3. CASE d = c /\ q # r
      <4>1. c \in S.join[q].pending => S.reserved[c] = q /\ S.join[q].open
        BY <2>1, <3>3 DEF PendingOk, JoinOk, NoJoin
      <4>2. c \in S.join[q].pending => Alive(S, q)
        BY <2>1, <3>3, <4>1, RoundsAreFinite DEF Waits, Alive
      <4>3. c \notin S.join[q].pending
        BY <3>3, <4>1, <4>2, RoundsAreFinite
      <4> QED
        BY <1>1, <3>3, <4>3 DEF PendingOk
    <3> QED
      BY <3>1, <3>2, <3>3
  <2> QED
    BY <1>1, <1>7, <2>1, <2>2 DEF CarriedOk, CollectedOk
<1>9. OneCarrier(T) /\ OneCollector(T)
  BY <1>1, <1>7 DEF Good, OneCarrier, OneCollector
<1>10. Room(T)
  <2>1. OfUsers(T) = OfUsers(S)
    BY <1>1 DEF OfUsers
  <2> QED
    BY <2>1 DEF Good, Room
<1>11. Onward(S, T)
  <2>1. ASSUME NEW d \in Children, NEW w \in Rounds, Alive(S, w), Bound(S, d, w) PROVE Bound(T, d, w)
    <3>1. S.reserved[d] = w => T.reserved[d] = w
      BY <1>1, <2>1, RoundsAreFinite
    <3> QED
      BY <1>1, <1>7, <2>1, <3>1 DEF Bound, HasMessage
  <2> QED
    BY <1>1, <2>1 DEF Onward, Born, Alive
<1> QED
  BY <1>1, <1>4, <1>6, <1>8, <1>9, <1>10, <1>11 DEF Good

LEMMA AdmitKeeps ==
    ASSUME NEW S, NEW r \in Rounds, NEW c \in Children, Good(S, r, NoChild), S.join[r].open,
           S.round[r].st = "dispatching", c \notin S.join[r].settled
    PROVE  LET T == Admit(S, r, c) IN
           /\ Good(T, r, NoChild) /\ Onward(S, T) /\ Aside(S, T) /\ T.join[r].open
           /\ T.join[r].settled \in SUBSET (S.join[r].settled \cup {c})
<1> DEFINE M == IF Unhooked(S, c) THEN WithoutHook(S, c) ELSE S
           other == S.reserved[c]
           T == Admit(S, r, c)
<1>1. T = IF M.record[c].known
          THEN IF Alive(M, RecordHolder(M, r, c)) THEN M ELSE ClaimSettled(M, r, c)
          ELSE IF other \notin {NoRound, r} /\ Alive(S, other) THEN M
          ELSE [M EXCEPT !.reserved[c] = r, !.join[r].pending = @ \union {c}]
  BY DEF Admit
<1> HIDE DEF T
<1>2. S \in Memories /\ ResultOk(S, c) /\ ReservedKept(S, c) /\ c # NoChild
      /\ Born(S, r) /\ Onward(S, S) /\ Aside(S, S)
  BY RoundsAreFinite, OnwardHere DEF Good, Aside, Born
<1>3. CASE Unhooked(S, c)
  <2>1. M = WithoutHook(S, c)
    BY <1>3
  <2> HIDE DEF M
  <2>2. /\ Good(M, r, c) /\ Onward(S, M) /\ Aside(S, M) /\ Entered(M, S, c)
        /\ Silent(M, c) /\ M.record[c].delivered = "" /\ M.record[c].heldFor = NoRound
        /\ \A q \in Rounds : c \notin M.join[q].settled
    BY <1>3, <2>1, WithoutHookKeeps
  <2>3. /\ M.record[c].known /\ M.join = S.join /\ M.round[r].st # "pending"
    BY <2>2 DEF Entered
  <2>4. RecordHolder(M, r, c) = NoRound
    BY <2>2 DEF RecordHolder
  <2>5. T = ClaimSettled(M, r, c)
    BY <1>1, <2>3, <2>4 DEF Alive
  <2>6. Claimable(M, r, c)
    BY <2>2, <2>3 DEF Claimable
  <2>7. c \in {c, NoChild} /\ M.join[r].open
    BY <2>3
  <2> DEFINE U == ClaimSettled(M, r, c)
  <2>8. Good(U, r, NoChild) /\ Onward(M, U) /\ Aside(M, U) /\ Has(U, M, r, c)
    BY ONLY <2>2, <2>3, <2>6, <2>7, r \in Rounds, c \in Children, ClaimSettledKeeps
  <2> HIDE DEF U
  <2>9. Onward(S, U) /\ Aside(S, U)
    BY <2>2, <2>8, OnwardTwice, AsideTwice
  <2> QED
    BY <2>3, <2>5, <2>8, <2>9 DEF U, T, Has
<1>4. CASE ~Unhooked(S, c) /\ S.record[c].known
  <2>1. M = S
    BY <1>4
  <2> HIDE DEF M
  <2>2. CASE Alive(S, RecordHolder(S, r, c))
    <3>1. T = S
      BY <1>1, <1>4, <2>1, <2>2
    <3> QED
      BY <1>2, <3>1 DEF T
  <2>3. CASE ~Alive(S, RecordHolder(S, r, c))
    <3>1. T = ClaimSettled(S, r, c)
      BY <1>1, <1>4, <2>1, <2>3
    <3>2. Alive(S, other) => other = r /\ S.record[c].delivered = ""
      <4>1. ASSUME Alive(S, other) PROVE other = r
        <5>1. S.record[c].heldFor = other /\ S.record[c].hold = "await" /\ other # NoRound
          BY <1>2, <1>4, <4>1 DEF ReservedKept, Alive
        <5>2. CASE other # r
          <6>1. RecordHolder(S, r, c) = other
            BY <5>1, <5>2 DEF RecordHolder
          <6> QED
            BY <2>3, <4>1, <6>1
        <5> QED
          BY <5>2
      <4>2. ASSUME Alive(S, other) PROVE S.record[c].delivered = ""
        BY <1>2, <1>4, <4>2 DEF ReservedKept, ResultOk, Kept, Alive
      <4> QED
        BY <4>1, <4>2
    <3>3. Claimable(S, r, c)
      BY <1>4, <3>2 DEF Claimable
    <3>4. NoChild \in {c, NoChild} /\ S.round[r].st # "pending" /\ (NoChild = c => S.record[c].delivered = "")
      BY <1>2
    <3> DEFINE U == ClaimSettled(S, r, c)
    <3>5. Good(S, r, NoChild) /\ S.join[r].open
      OBVIOUS
    <3>6. Good(U, r, NoChild) /\ Onward(S, U) /\ Aside(S, U) /\ Has(U, S, r, c)
      BY ONLY <3>3, <3>4, <3>5, r \in Rounds, c \in Children, ClaimSettledKeeps
    <3> HIDE DEF U
    <3> QED
      BY <3>1, <3>6 DEF U, T, Has
  <2> QED
    BY <2>2, <2>3
<1>5. CASE ~Unhooked(S, c) /\ ~S.record[c].known
  <2>1. M = S
    BY <1>5
  <2> HIDE DEF M
  <2>2. CASE other \notin {NoRound, r} /\ Alive(S, other)
    <3>1. T = S
      BY <1>1, <1>5, <2>1, <2>2
    <3> QED
      BY <1>2, <3>1 DEF T
  <2>3. CASE ~(other \notin {NoRound, r} /\ Alive(S, other))
    <3> DEFINE U == [S EXCEPT !.reserved[c] = r, !.join[r].pending = @ \union {c}]
    <3>1. T = U
      BY <1>1, <1>5, <2>1, <2>3
    <3>2. Promised(U, S, r, c)
      BY <1>2, PromisedIs
    <3> HIDE DEF U
    <3>3. S.reserved[c] \in {NoRound, r} \/ ~Alive(S, S.reserved[c])
      BY <2>3
    <3>4. Good(U, r, NoChild) /\ Onward(S, U)
      BY <1>2, <1>5, <3>2, <3>3, PromisedKeeps
    <3>5. Aside(S, U) /\ U.join[r].open /\ U.join[r].settled = S.join[r].settled
      BY <3>2 DEF Promised, Aside, Born
    <3> QED
      BY <3>1, <3>4, <3>5 DEF T
  <2> QED
    BY <2>2, <2>3
<1> QED
  BY <1>3, <1>4, <1>5 DEF T

-----------------------------------------------------------------------------
(* A round asks to wait for what it dispatched.                              *)

Opened(S, r, mode) == [S EXCEPT !.join[r] = [NoJoin EXCEPT !.open = TRUE, !.mode = mode]]

LEMMA OpenedKeeps ==
    ASSUME NEW S, Good(S, NoRound, NoChild), NEW r \in Rounds, S.round[r].st = "dispatching",
           NEW mode \in {"all", "any"}
    PROVE  LET T == Opened(S, r, mode) IN
           /\ Good(T, r, NoChild) /\ Onward(S, T) /\ T.round = S.round
           /\ T.join[r].open /\ T.join[r].settled = {}
<1> DEFINE jn == [NoJoin EXCEPT !.open = TRUE, !.mode = mode]
           J == [S.join EXCEPT ![r] = jn]
           T == [S EXCEPT !.join = J]
<1>1. S \in Memories /\ S.join \in [Rounds -> JoinRecord] /\ r # NoRound
      /\ \A c \in Children : c # NoChild
  BY RoundsAreFinite DEF Good, Memories
<1>2. /\ jn \in JoinRecord /\ jn.open /\ jn.pending = {} /\ jn.settled = {} /\ jn.earlier = {}
  BY DEF NoJoin, JoinRecord
<1>3. Opened(S, r, mode) = T
  BY DEF Opened
<1> HIDE DEF jn
<1>4. J \in [Rounds -> JoinRecord] /\ J[r] = jn /\ \A q \in Rounds : q # r => J[q] = S.join[q]
  BY <1>1, <1>2
<1> HIDE DEF J
<1>5. /\ T \in Memories /\ T.join = J
      /\ T.round = S.round /\ T.child = S.child /\ T.record = S.record /\ T.reserved = S.reserved
      /\ T.logged = S.logged /\ T.handed = S.handed
  BY <1>1, <1>4 DEF Memories
<1> HIDE DEF T
<1>6. S.join[r] = NoJoin
  BY <1>1 DEF Good, Waits, JoinOk
<1>7. \A q \in Rounds : /\ T.join[q].settled = S.join[q].settled
                        /\ T.join[q].earlier = S.join[q].earlier
                        /\ T.join[q].pending = S.join[q].pending
  <2>1. \A q \in Rounds : q # r => T.join[q] = S.join[q]
    BY <1>4, <1>5
  <2>2. T.join[r] = jn
    BY <1>4, <1>5
  <2>3. S.join[r].settled = {} /\ S.join[r].earlier = {} /\ S.join[r].pending = {}
    BY <1>6 DEF NoJoin
  <2> QED
    BY <1>2, <2>1, <2>2, <2>3
<1>8. \A q \in Rounds : InFull(T.join[q]) = InFull(S.join[q])
  BY <1>7 DEF InFull
<1>9. ASSUME NEW d \in Children PROVE ResultOk(T, d) /\ ReservedKept(T, d)
  <2>1. ResultOk(S, d) /\ ReservedKept(S, d)
    BY <1>1 DEF Good
  <2> QED
    BY <1>5, <1>7, <2>1 DEF ResultOk, Unrecorded, Kept, HandedMarked, InboundLogged, MessageRouted,
                            HasMessage, Born, ReservedKept, Alive
<1>10. ASSUME NEW q \in Rounds
       PROVE  RoundOk(T, q) /\ JoinOk(T, q) /\ (T.join[q].open /\ q # r => Waits(T, q))
  <2>1. RoundOk(S, q) /\ JoinOk(S, q) /\ (S.join[q].open => Waits(S, q))
    BY <1>1, RoundsAreFinite DEF Good
  <2>2. CASE q = r
    <3>1. RoundOk(T, q)
      BY <1>5, <2>1, <2>2 DEF RoundOk, Born
    <3>2. JoinOk(T, q)
      BY <1>2, <1>4, <1>5, <2>2 DEF JoinOk
    <3> QED
      BY <2>2, <3>1, <3>2
  <2>3. CASE q # r
    <3>1. T.join[q] = S.join[q]
      BY <1>4, <1>5, <2>3
    <3> QED
      BY <1>5, <2>1, <3>1 DEF RoundOk, JoinOk, Waits, Born
  <2> QED
    BY <2>2, <2>3
<1>11. ASSUME NEW q \in Rounds, NEW d \in Children
       PROVE  CarriedOk(T, q, d) /\ CollectedOk(T, q, d) /\ PendingOk(T, q, d)
  <2>1. CarriedOk(S, q, d) /\ CollectedOk(S, q, d) /\ PendingOk(S, q, d)
    BY <1>1 DEF Good
  <2> QED
    BY <1>5, <1>7, <1>8, <2>1 DEF CarriedOk, CollectedOk, PendingOk
<1>12. OneCarrier(T) /\ OneCollector(T)
  BY <1>5, <1>8 DEF Good, OneCarrier, OneCollector
<1>13. Room(T)
  <2>1. OfUsers(T) = OfUsers(S)
    BY <1>5 DEF OfUsers
  <2> QED
    BY <2>1 DEF Good, Room
<1>14. Onward(S, T)
  BY <1>5, <1>8 DEF Onward, Bound, Born, Alive, HasMessage
<1> QED
  BY <1>2, <1>3, <1>4, <1>5, <1>9, <1>10, <1>11, <1>12, <1>13, <1>14 DEF Good

\* What holds of the memory when the handles in s are admitted.
AdmittedTo(S, r, s) ==
    {T \in Memories : Good(T, r, NoChild) /\ Onward(S, T) /\ Aside(S, T) /\ T.join[r].open
                      /\ T.join[r].settled \in SUBSET s}

LEMMA RouteAwaitKeeps ==
    ASSUME NEW S, Good(S, NoRound, NoChild), NEW r \in Rounds, S.round[r].st = "dispatching",
           ~S.round[r].cancelReq, NEW handles \in SUBSET Children, NEW mode \in {"all", "any"}
    PROVE  LET T == RouteAwait(S, r, handles, mode) IN Good(T, NoRound, NoChild) /\ Onward(S, T)
<1> DEFINE O == Opened(S, r, mode)
           A == Admitted(O, r, handles)
           W == Goes(A, r, "awaiting")
           R == ReleaseRoundHolds(W, r)
           U == ResumeIfSatisfied(R, r)
           G == [s \in SUBSET handles |-> AdmittedTo(O, r, s)]
<1>1. RouteAwait(S, r, handles, mode) = U
  BY DEF RouteAwait, Opened, Admitted
<1>2. /\ Good(O, r, NoChild) /\ Onward(S, O) /\ O.round = S.round
      /\ O.join[r].open /\ O.join[r].settled = {}
  BY OpenedKeeps
<1> HIDE DEF O
<1>3. O \in G[{}]
  BY <1>2, OnwardHere DEF AdmittedTo, Aside, Good
<1>4. ASSUME NEW s \in SUBSET handles, NEW c \in s, NEW T \in G[s \ {c}]
      PROVE  Admit(T, r, c) \in G[s]
  <2>1. /\ Good(T, r, NoChild) /\ Onward(O, T) /\ Aside(O, T) /\ T.join[r].open
        /\ T.join[r].settled \in SUBSET (s \ {c})
    BY DEF AdmittedTo
  <2>2. T.round[r].st = "dispatching" /\ c \in Children /\ c \notin T.join[r].settled
    BY <1>2, <2>1 DEF Aside
  <2> DEFINE V == Admit(T, r, c)
  <2>3. /\ Good(V, r, NoChild) /\ Onward(T, V) /\ Aside(T, V) /\ V.join[r].open
        /\ V.join[r].settled \in SUBSET (T.join[r].settled \cup {c})
    BY <2>1, <2>2, AdmitKeeps
  <2> HIDE DEF V
  <2>4. Onward(O, V) /\ Aside(O, V)
    BY <2>1, <2>3, OnwardTwice, AsideTwice
  <2>5. V.join[r].settled \in SUBSET s
    BY <2>1, <2>3
  <2>6. V \in AdmittedTo(O, r, s)
    BY <2>3, <2>4, <2>5 DEF AdmittedTo, Good
  <2> QED
    BY <2>6 DEF V
<1>5. IsFiniteSet(handles)
  BY RoundsAreFinite, FS_Subset
<1>6. A \in G[handles]
  <2> HIDE DEF G
  <2> QED
    BY <1>3, <1>4, <1>5, AdmitFold
<1>7. Good(A, r, NoChild) /\ Onward(O, A) /\ Aside(O, A) /\ A.join[r].open
  <2> HIDE DEF A
  <2> QED
    BY <1>6 DEF AdmittedTo
<1> HIDE DEF A
<1>8. A.round[r] = S.round[r] /\ A \in Memories /\ A.round[r] \in RoundRecord /\ RoundOk(A, r)
  BY <1>2, <1>7 DEF Aside, Good, Memories
<1>9. Good(W, r, NoChild) /\ Onward(A, W) /\ W.round[r].st = "awaiting"
  <2>1. Gone(W, A, r, "awaiting")
    BY <1>8, GoesIs DEF RoundStates
  <2> HIDE DEF W
  <2>2. W \in Memories /\ SameButRound(W, A, r)
    BY <2>1 DEF Gone
  <2>3. /\ W.round[r].st = "awaiting" /\ W.round[r].carries = A.round[r].carries
        /\ W.round[r].claimed = A.round[r].claimed /\ W.round[r].cancelReq = A.round[r].cancelReq
        /\ W.round[r].withdrawn = A.round[r].withdrawn
    BY <1>8, <2>1 DEF Gone, RoundRecord
  <2>4. A.round[r].st = "dispatching" /\ ~A.round[r].cancelReq
    BY <1>8
  <2>5. RoundMove(A.round[r], W.round[r])
    BY <2>3, <2>4 DEF RoundMove, AliveStates
  <2>6. RoundOk(W, r)
    BY <1>8, <2>3, <2>4 DEF RoundOk, Born
  <2> QED
    BY <1>7, <2>2, <2>3, <2>5, <2>6, RoundMoves
<1> HIDE DEF W
<1>10. Good(R, r, NoChild) /\ NewsOnly(W, R, Children) /\ Onward(W, R)
  BY <1>9, ReleaseRoundHoldsKeeps
<1> HIDE DEF R
<1>11. R.round[r].st = "awaiting"
  BY <1>9, <1>10 DEF NewsOnly, Born
<1>12. Good(U, NoRound, NoChild) /\ Onward(R, U)
  BY <1>10, <1>11, ResumeIfSatisfiedKeeps
<1> HIDE DEF U
<1>13. Onward(S, U)
  BY <1>2, <1>7, <1>9, <1>10, <1>12, OnwardTwice
<1> QED
  BY <1>1, <1>12, <1>13

-----------------------------------------------------------------------------
(* The other folds.                                                          *)

\* What a join that lost a settlement claims: a child without its hook is entered first.
Catch(T, r, c) == ClaimSettled(IF Unhooked(T, c) THEN WithoutHook(T, c) ELSE T, r, c)

CaughtUp(base, r, H) ==
    FoldSet(LAMBDA c, T : ClaimSettled(IF Unhooked(T, c) THEN WithoutHook(T, c) ELSE T, r, c), base, H)

LEMMA CatchUpFold ==
    ASSUME NEW H, IsFiniteSet(H), NEW G, NEW base \in G[{}], NEW r,
           \A s \in SUBSET H : \A c \in s : \A T \in G[s \ {c}] : Catch(T, r, c) \in G[s]
    PROVE  CaughtUp(base, r, H) \in G[H]
<1> DEFINE U == UNION {G[s] : s \in SUBSET H}
           step == [c \in H |-> [T \in U |-> Catch(T, r, c)]]
           Run(g) == g = [s \in SUBSET H |->
                            IF s = {} THEN base ELSE Catch(g[s \ {Taken(s)}], r, Taken(s))]
           a == CHOOSE g : Run(g)
<1>1. \A s \in SUBSET H : \A T \in G[s] : T \in U
  OBVIOUS
<1>2. \A s \in SUBSET H : \A c \in s : \A T \in G[s \ {c}] : step[c][T] = Catch(T, r, c)
  BY <1>1
<1> HIDE DEF step
<1>3. PICK g : Runs(g, step, base, SUBSET H) /\ \A s \in SUBSET H : g[s] \in G[s]
  <2>1. \A s \in SUBSET H : \A c \in s : \A T \in G[s \ {c}] : step[c][T] \in G[s]
    BY <1>2
  <2> QED
    BY <2>1, FoldExists
<1>4. ASSUME NEW s \in SUBSET H, s # {}
      PROVE  step[Taken(s)][g[s \ {Taken(s)}]] = Catch(g[s \ {Taken(s)}], r, Taken(s))
  <2>1. Taken(s) \in s /\ s \ {Taken(s)} \in SUBSET H
    BY <1>4, TakenOut
  <2>2. g[s \ {Taken(s)}] \in G[s \ {Taken(s)}]
    BY <1>3, <2>1
  <2> QED
    BY <1>2, <2>1, <2>2
<1>5. Run(g)
  BY <1>3, <1>4 DEF Runs, Turn
<1>6. Run(a)
  BY <1>5
<1>7. CaughtUp(base, r, H) = a[H]
  BY DEF CaughtUp, Catch, FoldSet, MapThenFoldSet, Taken
<1> HIDE DEF a
<1>8. a[{}] \in G[{}]
  BY <1>6
<1>9. ASSUME NEW s \in SUBSET H, s # {}, a[s \ {Taken(s)}] \in G[s \ {Taken(s)}]
      PROVE  a[s] \in G[s]
  <2>1. a[s] = Catch(a[s \ {Taken(s)}], r, Taken(s))
    BY <1>6, <1>9
  <2>2. Taken(s) \in s
    BY <1>9, TakenOut
  <2> QED
    BY <1>9, <2>1, <2>2
<1>10. a[H] \in G[H]
  BY <1>8, <1>9, StaysWithin
<1> QED
  BY <1>7, <1>10

Terminated(base, H) == FoldSet(LAMBDA c, T : Terminate(T, c), base, H)

LEMMA TerminateFold ==
    ASSUME NEW H, IsFiniteSet(H), NEW G, NEW base \in G[{}],
           \A s \in SUBSET H : \A c \in s : \A T \in G[s \ {c}] : Terminate(T, c) \in G[s]
    PROVE  Terminated(base, H) \in G[H]
<1> DEFINE U == UNION {G[s] : s \in SUBSET H}
           step == [c \in H |-> [T \in U |-> Terminate(T, c)]]
           Run(g) == g = [s \in SUBSET H |->
                            IF s = {} THEN base ELSE Terminate(g[s \ {Taken(s)}], Taken(s))]
           a == CHOOSE g : Run(g)
<1>1. \A s \in SUBSET H : \A T \in G[s] : T \in U
  OBVIOUS
<1>2. \A s \in SUBSET H : \A c \in s : \A T \in G[s \ {c}] : step[c][T] = Terminate(T, c)
  BY <1>1
<1> HIDE DEF step
<1>3. PICK g : Runs(g, step, base, SUBSET H) /\ \A s \in SUBSET H : g[s] \in G[s]
  <2>1. \A s \in SUBSET H : \A c \in s : \A T \in G[s \ {c}] : step[c][T] \in G[s]
    BY <1>2
  <2> QED
    BY <2>1, FoldExists
<1>4. ASSUME NEW s \in SUBSET H, s # {}
      PROVE  step[Taken(s)][g[s \ {Taken(s)}]] = Terminate(g[s \ {Taken(s)}], Taken(s))
  <2>1. Taken(s) \in s /\ s \ {Taken(s)} \in SUBSET H
    BY <1>4, TakenOut
  <2>2. g[s \ {Taken(s)}] \in G[s \ {Taken(s)}]
    BY <1>3, <2>1
  <2> QED
    BY <1>2, <2>1, <2>2
<1>5. Run(g)
  BY <1>3, <1>4 DEF Runs, Turn
<1>6. Run(a)
  BY <1>5
<1>7. Terminated(base, H) = a[H]
  BY DEF Terminated, FoldSet, MapThenFoldSet, Taken
<1> HIDE DEF a
<1>8. a[{}] \in G[{}]
  BY <1>6
<1>9. ASSUME NEW s \in SUBSET H, s # {}, a[s \ {Taken(s)}] \in G[s \ {Taken(s)}]
      PROVE  a[s] \in G[s]
  <2>1. a[s] = Terminate(a[s \ {Taken(s)}], Taken(s))
    BY <1>6, <1>9
  <2>2. Taken(s) \in s
    BY <1>9, TakenOut
  <2> QED
    BY <1>9, <2>1, <2>2
<1>10. a[H] \in G[H]
  BY <1>8, <1>9, StaysWithin
<1> QED
  BY <1>7, <1>10

Expired(base, due, H) == FoldSet(LAMBDA c, T : ExpireJoin(T, c, due), base, H)

LEMMA ExpireFold ==
    ASSUME NEW H, IsFiniteSet(H), NEW G, NEW base \in G[{}], NEW due,
           \A s \in SUBSET H : \A c \in s : \A T \in G[s \ {c}] : ExpireJoin(T, c, due) \in G[s]
    PROVE  Expired(base, due, H) \in G[H]
<1> DEFINE U == UNION {G[s] : s \in SUBSET H}
           step == [c \in H |-> [T \in U |-> ExpireJoin(T, c, due)]]
           Run(g) == g = [s \in SUBSET H |->
                            IF s = {} THEN base ELSE ExpireJoin(g[s \ {Taken(s)}], Taken(s), due)]
           a == CHOOSE g : Run(g)
<1>1. \A s \in SUBSET H : \A T \in G[s] : T \in U
  OBVIOUS
<1>2. \A s \in SUBSET H : \A c \in s : \A T \in G[s \ {c}] : step[c][T] = ExpireJoin(T, c, due)
  BY <1>1
<1> HIDE DEF step
<1>3. PICK g : Runs(g, step, base, SUBSET H) /\ \A s \in SUBSET H : g[s] \in G[s]
  <2>1. \A s \in SUBSET H : \A c \in s : \A T \in G[s \ {c}] : step[c][T] \in G[s]
    BY <1>2
  <2> QED
    BY <2>1, FoldExists
<1>4. ASSUME NEW s \in SUBSET H, s # {}
      PROVE  step[Taken(s)][g[s \ {Taken(s)}]] = ExpireJoin(g[s \ {Taken(s)}], Taken(s), due)
  <2>1. Taken(s) \in s /\ s \ {Taken(s)} \in SUBSET H
    BY <1>4, TakenOut
  <2>2. g[s \ {Taken(s)}] \in G[s \ {Taken(s)}]
    BY <1>3, <2>1
  <2> QED
    BY <1>2, <2>1, <2>2
<1>5. Run(g)
  BY <1>3, <1>4 DEF Runs, Turn
<1>6. Run(a)
  BY <1>5
<1>7. Expired(base, due, H) = a[H]
  BY DEF Expired, FoldSet, MapThenFoldSet, Taken
<1> HIDE DEF a
<1>8. a[{}] \in G[{}]
  BY <1>6
<1>9. ASSUME NEW s \in SUBSET H, s # {}, a[s \ {Taken(s)}] \in G[s \ {Taken(s)}]
      PROVE  a[s] \in G[s]
  <2>1. a[s] = ExpireJoin(a[s \ {Taken(s)}], Taken(s), due)
    BY <1>6, <1>9
  <2>2. Taken(s) \in s
    BY <1>9, TakenOut
  <2> QED
    BY <1>9, <2>1, <2>2
<1>10. a[H] \in G[H]
  BY <1>8, <1>9, StaysWithin
<1> QED
  BY <1>7, <1>10

Released(base, H) == FoldSet(LAMBDA c, T : ReleaseWaiter(T, c), base, H)

LEMMA ReleaseFold ==
    ASSUME NEW H, IsFiniteSet(H), NEW G, NEW base \in G[{}],
           \A s \in SUBSET H : \A c \in s : \A T \in G[s \ {c}] : ReleaseWaiter(T, c) \in G[s]
    PROVE  Released(base, H) \in G[H]
<1> DEFINE U == UNION {G[s] : s \in SUBSET H}
           step == [c \in H |-> [T \in U |-> ReleaseWaiter(T, c)]]
           Run(g) == g = [s \in SUBSET H |->
                            IF s = {} THEN base ELSE ReleaseWaiter(g[s \ {Taken(s)}], Taken(s))]
           a == CHOOSE g : Run(g)
<1>1. \A s \in SUBSET H : \A T \in G[s] : T \in U
  OBVIOUS
<1>2. \A s \in SUBSET H : \A c \in s : \A T \in G[s \ {c}] : step[c][T] = ReleaseWaiter(T, c)
  BY <1>1
<1> HIDE DEF step
<1>3. PICK g : Runs(g, step, base, SUBSET H) /\ \A s \in SUBSET H : g[s] \in G[s]
  <2>1. \A s \in SUBSET H : \A c \in s : \A T \in G[s \ {c}] : step[c][T] \in G[s]
    BY <1>2
  <2> QED
    BY <2>1, FoldExists
<1>4. ASSUME NEW s \in SUBSET H, s # {}
      PROVE  step[Taken(s)][g[s \ {Taken(s)}]] = ReleaseWaiter(g[s \ {Taken(s)}], Taken(s))
  <2>1. Taken(s) \in s /\ s \ {Taken(s)} \in SUBSET H
    BY <1>4, TakenOut
  <2>2. g[s \ {Taken(s)}] \in G[s \ {Taken(s)}]
    BY <1>3, <2>1
  <2> QED
    BY <1>2, <2>1, <2>2
<1>5. Run(g)
  BY <1>3, <1>4 DEF Runs, Turn
<1>6. Run(a)
  BY <1>5
<1>7. Released(base, H) = a[H]
  BY DEF Released, FoldSet, MapThenFoldSet, Taken
<1> HIDE DEF a
<1>8. a[{}] \in G[{}]
  BY <1>6
<1>9. ASSUME NEW s \in SUBSET H, s # {}, a[s \ {Taken(s)}] \in G[s \ {Taken(s)}]
      PROVE  a[s] \in G[s]
  <2>1. a[s] = ReleaseWaiter(a[s \ {Taken(s)}], Taken(s))
    BY <1>6, <1>9
  <2>2. Taken(s) \in s
    BY <1>9, TakenOut
  <2> QED
    BY <1>9, <2>1, <2>2
<1>10. a[H] \in G[H]
  BY <1>8, <1>9, StaysWithin
<1> QED
  BY <1>7, <1>10

-----------------------------------------------------------------------------
(* A join catches up on what it lost, and expires.                           *)

LEMMA CatchKeeps ==
    ASSUME NEW S, NEW r \in Rounds, NEW c \in Children, Good(S, r, NoChild), S.join[r].open,
           S.round[r].st # "pending", c \in S.join[r].pending,
           S.record[c].known \/ Unhooked(S, c)
    PROVE  LET T == Catch(S, r, c) IN
           Good(T, r, NoChild) /\ Onward(S, T) /\ Aside(S, T) /\ T.join[r].open
           /\ T.join[r].pending = S.join[r].pending \ {c}
<1> DEFINE M == IF Unhooked(S, c) THEN WithoutHook(S, c) ELSE S
           T == ClaimSettled(M, r, c)
<1>1. Catch(S, r, c) = T
  BY DEF Catch
<1>2. c # NoChild /\ c \notin S.join[r].settled
  BY RoundsAreFinite DEF Good, JoinOk
<1>3. \E x \in {c, NoChild} :
        /\ Good(M, r, x) /\ Onward(S, M) /\ Aside(S, M) /\ M.join = S.join
        /\ M.round[r].st # "pending" /\ Claimable(M, r, c)
        /\ (x = c => M.record[c].delivered = "")
  <2>1. CASE Unhooked(S, c)
    <3>1. M = WithoutHook(S, c)
      BY <2>1
    <3> HIDE DEF M
    <3>2. /\ Good(M, r, c) /\ Onward(S, M) /\ Aside(S, M) /\ Entered(M, S, c)
          /\ Silent(M, c) /\ M.record[c].delivered = ""
      BY <2>1, <3>1, WithoutHookKeeps
    <3>3. M.join = S.join /\ M.round[r].st # "pending" /\ M.record[c].known
      BY <3>2 DEF Entered
    <3>4. Claimable(M, r, c)
      BY <1>2, <3>2, <3>3 DEF Claimable
    <3> QED
      BY <3>2, <3>3, <3>4
  <2>2. CASE ~Unhooked(S, c)
    <3>1. M = S
      BY <2>2
    <3> HIDE DEF M
    <3>2. PendingOk(S, r, c)
      BY <1>2 DEF Good
    <3>3. Claimable(S, r, c)
      BY <1>2, <2>2, <3>2 DEF PendingOk, Claimable, Alive
    <3>4. Onward(S, S) /\ Aside(S, S)
      BY OnwardHere DEF Aside
    <3> QED
      BY <1>2, <3>1, <3>3, <3>4
  <2> QED
    BY <2>1, <2>2
<1> HIDE DEF M
<1>4. PICK x \in {c, NoChild} :
        /\ Good(M, r, x) /\ Onward(S, M) /\ Aside(S, M) /\ M.join = S.join
        /\ M.round[r].st # "pending" /\ Claimable(M, r, c)
        /\ (x = c => M.record[c].delivered = "")
  BY <1>3
<1>5. M.join[r].open
  BY <1>4
<1>6. Good(T, r, NoChild) /\ Onward(M, T) /\ Aside(M, T) /\ Has(T, M, r, c)
  BY ONLY <1>4, <1>5, r \in Rounds, c \in Children, x \in {c, NoChild}, ClaimSettledKeeps
<1> HIDE DEF T
<1>7. Onward(S, T) /\ Aside(S, T)
  BY <1>4, <1>6, OnwardTwice, AsideTwice
<1> QED
  BY <1>1, <1>4, <1>6, <1>7 DEF Has

\* What holds of the memory when those in s were caught up with.
CaughtBy(S, r, lost, s) ==
    {T \in Memories : Good(T, r, NoChild) /\ Onward(S, T) /\ Aside(S, T) /\ T.join[r].open
                      /\ lost \ s \in SUBSET T.join[r].pending}

LEMMA CatchUpKeeps ==
    ASSUME NEW S, NEW r \in Rounds, Good(S, r, NoChild), S.join[r].open,
           S.round[r].st = "awaiting"
    PROVE  LET T == CatchUp(S, r) IN
           Good(T, r, NoChild) /\ Onward(S, T) /\ T.round[r].st = "awaiting" /\ T.join[r].open
<1> DEFINE lost == {c \in S.join[r].pending : S.record[c].known \/ Unhooked(S, c)}
           G == [s \in SUBSET lost |-> CaughtBy(S, r, lost, s)]
           A == CaughtUp(S, r, lost)
<1>1. CatchUp(S, r) = A
  BY DEF CatchUp, CaughtUp
<1>2. lost \in SUBSET Children /\ S \in Memories /\ lost \in SUBSET S.join[r].pending
  <2>1. S \in Memories /\ S.join[r] \in JoinRecord
    BY DEF Good, Memories
  <2> QED
    BY <2>1 DEF JoinRecord
<1>3. IsFiniteSet(lost)
  BY <1>2, RoundsAreFinite, FS_Subset
<1>4. S \in G[{}]
  BY <1>2, OnwardHere DEF CaughtBy, Aside
<1>5. ASSUME NEW s \in SUBSET lost, NEW c \in s, NEW T \in G[s \ {c}]
      PROVE  Catch(T, r, c) \in G[s]
  <2>1. /\ Good(T, r, NoChild) /\ Onward(S, T) /\ Aside(S, T) /\ T.join[r].open
        /\ lost \ (s \ {c}) \in SUBSET T.join[r].pending
    BY DEF CaughtBy
  <2>2. c \in lost /\ c \in Children /\ c \in T.join[r].pending
    BY <1>2, <2>1
  <2>3. T.round[r].st # "pending" /\ (T.record[c].known \/ Unhooked(T, c))
    BY <2>1, <2>2 DEF Aside, Unhooked
  <2> DEFINE V == Catch(T, r, c)
  <2>4. /\ Good(V, r, NoChild) /\ Onward(T, V) /\ Aside(T, V) /\ V.join[r].open
        /\ V.join[r].pending = T.join[r].pending \ {c}
    BY <2>1, <2>2, <2>3, CatchKeeps
  <2> HIDE DEF V
  <2>5. Onward(S, V) /\ Aside(S, V)
    BY <2>1, <2>4, OnwardTwice, AsideTwice
  <2>6. lost \ s \in SUBSET V.join[r].pending
    BY <2>1, <2>4
  <2>7. V \in CaughtBy(S, r, lost, s)
    BY <2>4, <2>5, <2>6 DEF CaughtBy, Good
  <2> QED
    BY <2>7 DEF V
<1>6. A \in G[lost]
  <2> HIDE DEF G, lost
  <2> QED
    BY <1>3, <1>4, <1>5, CatchUpFold
<1>7. Good(A, r, NoChild) /\ Onward(S, A) /\ Aside(S, A) /\ A.join[r].open
  <2> HIDE DEF A, lost
  <2> QED
    BY <1>6 DEF CaughtBy
<1> HIDE DEF A
<1> QED
  BY <1>1, <1>7 DEF Aside

\* From S on nothing was lost.
Reached(S) == {T \in Memories : Good(T, NoRound, NoChild) /\ Onward(S, T)}

LEMMA ExpireJoinKeeps ==
    ASSUME NEW S, Good(S, NoRound, NoChild), NEW r \in Rounds, NEW due
    PROVE  LET T == ExpireJoin(S, r, due) IN Good(T, NoRound, NoChild) /\ Onward(S, T)
<1> DEFINE T == CatchUp(S, r)
<1>1. Good(S, r, NoChild) /\ r # NoRound
  BY GoodWeaker, RoundsAreFinite
<1>2. ExpireJoin(S, r, due) =
        IF ~S.join[r].open THEN S
        ELSE IF ~Alive(S, r) THEN ReleaseWaiter(S, r)
        ELSE IF Satisfied(T.join[r]) \/ r \in due THEN ResumeJoin(T, r) ELSE T
  BY DEF ExpireJoin
<1>3. CASE ~S.join[r].open
  BY <1>2, <1>3, OnwardHere
<1>4. CASE S.join[r].open /\ ~Alive(S, r)
  BY <1>1, <1>2, <1>4, ReleaseWaiterKeeps
<1>5. CASE S.join[r].open /\ Alive(S, r)
  <2>1. S.round[r].st = "awaiting"
    BY <1>1, <1>5 DEF Good, Waits
  <2>2. Good(T, r, NoChild) /\ Onward(S, T) /\ T.round[r].st = "awaiting" /\ T.join[r].open
    BY <1>1, <1>5, <2>1, CatchUpKeeps
  <2> HIDE DEF T
  <2>3. CASE Satisfied(T.join[r]) \/ r \in due
    <3> DEFINE U == ResumeJoin(T, r)
    <3>1. ExpireJoin(S, r, due) = U
      BY <1>2, <1>5, <2>3
    <3>2. Good(U, NoRound, NoChild) /\ Onward(T, U)
      BY <2>2, ResumeJoinKeeps
    <3> HIDE DEF U
    <3>3. Onward(S, U)
      BY <2>2, <3>2, OnwardTwice
    <3> QED
      BY <3>1, <3>2, <3>3
  <2>4. CASE ~(Satisfied(T.join[r]) \/ r \in due)
    <3>1. ExpireJoin(S, r, due) = T
      BY <1>2, <1>5, <2>4
    <3>2. Good(T, NoRound, NoChild)
      BY <2>2, <2>4, GoodAgain DEF Waits
    <3> QED
      BY <2>2, <3>1, <3>2
  <2> QED
    BY <2>3, <2>4
<1> QED
  BY <1>3, <1>4, <1>5

LEMMA ReachedFurther ==
    ASSUME NEW S, NEW T \in Reached(S), NEW U, Good(U, NoRound, NoChild), Onward(T, U)
    PROVE  U \in Reached(S)
BY OnwardTwice DEF Reached, Good

LEMMA ExpiredKeeps ==
    ASSUME NEW S, Good(S, NoRound, NoChild), NEW H \in SUBSET Rounds, NEW due
    PROVE  Expired(S, due, H) \in Reached(S)
<1> DEFINE G == [s \in SUBSET H |-> Reached(S)]
<1>1. IsFiniteSet(H)
  BY RoundsAreFinite, FS_Subset
<1>2. S \in G[{}]
  BY OnwardHere DEF Reached, Good
<1>3. ASSUME NEW s \in SUBSET H, NEW r \in s, NEW T \in G[s \ {r}]
      PROVE  ExpireJoin(T, r, due) \in G[s]
  <2>1. T \in Reached(S) /\ Good(T, NoRound, NoChild) /\ r \in Rounds
    BY DEF Reached
  <2> DEFINE U == ExpireJoin(T, r, due)
  <2>2. Good(U, NoRound, NoChild) /\ Onward(T, U)
    BY <2>1, ExpireJoinKeeps
  <2> HIDE DEF U
  <2>3. U \in Reached(S)
    BY <2>1, <2>2, ReachedFurther
  <2> QED
    BY <2>3 DEF U
<1>4. Expired(S, due, H) \in G[H]
  <2> HIDE DEF G
  <2> QED
    BY <1>1, <1>2, <1>3, ExpireFold
<1> QED
  BY <1>4

LEMMA ReleasedKeeps ==
    ASSUME NEW S, Good(S, NoRound, NoChild), NEW H \in SUBSET Rounds,
           \A r \in H : Born(S, r) /\ ~Alive(S, r)
    PROVE  Released(S, H) \in Reached(S)
<1> DEFINE G == [s \in SUBSET H |-> Reached(S)]
<1>1. IsFiniteSet(H)
  BY RoundsAreFinite, FS_Subset
<1>2. S \in G[{}]
  BY OnwardHere DEF Reached, Good
<1>3. ASSUME NEW s \in SUBSET H, NEW r \in s, NEW T \in G[s \ {r}]
      PROVE  ReleaseWaiter(T, r) \in G[s]
  <2>1. T \in Reached(S) /\ Good(T, NoRound, NoChild) /\ Onward(S, T) /\ r \in Rounds /\ r \in H
    BY DEF Reached
  <2>2. ~Alive(T, r) /\ Good(T, r, NoChild)
    BY <2>1, GoodWeaker DEF Onward
  <2> DEFINE U == ReleaseWaiter(T, r)
  <2>3. Good(U, NoRound, NoChild) /\ Onward(T, U)
    BY <2>1, <2>2, ReleaseWaiterKeeps
  <2> HIDE DEF U
  <2>4. U \in Reached(S)
    BY <2>1, <2>3, ReachedFurther
  <2> QED
    BY <2>4 DEF U
<1>4. Released(S, H) \in G[H]
  <2> HIDE DEF G
  <2> QED
    BY <1>1, <1>2, <1>3, ReleaseFold
<1> QED
  BY <1>4

-----------------------------------------------------------------------------
(* Children that end.                                                        *)

ChildPut(S, c, k) == [S EXCEPT !.child[c] = k]

LEMMA WithChild ==
    ASSUME NEW S \in Memories, NEW c \in Children, NEW k \in ChildRecord, NEW T,
           T = ChildPut(S, c, k),
           Silent(S, c) => k.st = "over" /\ k.kind # "message"
    PROVE  ChildMoved(T, S, c) /\ T.child[c] = k
<1> DEFINE B == [S.child EXCEPT ![c] = k]
<1>1. S.child \in [Children -> ChildRecord]
  BY DEF Memories
<1>2. B \in [Children -> ChildRecord] /\ B[c] = k /\ \A d \in Children : d # c => B[d] = S.child[d]
  BY <1>1
<1>3. T = [S EXCEPT !.child = B]
  BY DEF ChildPut
<1> HIDE DEF B
<1>4. /\ T \in Memories /\ T.child = B
      /\ T.round = S.round /\ T.record = S.record /\ T.reserved = S.reserved
      /\ T.join = S.join /\ T.logged = S.logged /\ T.handed = S.handed
  BY <1>2, <1>3 DEF Memories
<1> QED
  BY <1>2, <1>4 DEF ChildMoved, Silent, HasMessage

LEMMA TerminateKeeps ==
    ASSUME NEW S, Good(S, NoRound, NoChild), NEW c \in Children
    PROVE  LET T == Terminate(S, c) IN Good(T, NoRound, NoChild) /\ Onward(S, T)
<1> DEFINE k == [S.child[c] EXCEPT !.st = "over", !.kind = "silent"]
           U == [S EXCEPT !.child[c].st = "over", !.child[c].kind = "silent"]
<1>1. S \in Memories /\ S.child \in [Children -> ChildRecord] /\ S.child[c] \in ChildRecord
  BY DEF Good, Memories
<1>2. k \in ChildRecord /\ k.st = "over" /\ k.kind = "silent"
  BY <1>1 DEF ChildRecord
<1>3. U = ChildPut(S, c, k)
  BY <1>1 DEF Memories, ChildPut
<1>4. Terminate(S, c) = Settle(U, c)
  BY DEF Terminate
<1> HIDE DEF k, U
<1>5. ChildMoved(U, S, c)
  BY <1>1, <1>2, <1>3, WithChild
<1> QED
  BY <1>4, <1>5, SettleKeeps

LEMMA TerminatedKeeps ==
    ASSUME NEW S, Good(S, NoRound, NoChild), NEW H \in SUBSET Children
    PROVE  Terminated(S, H) \in Reached(S)
<1> DEFINE G == [s \in SUBSET H |-> Reached(S)]
<1>1. IsFiniteSet(H)
  BY RoundsAreFinite, FS_Subset
<1>2. S \in G[{}]
  BY OnwardHere DEF Reached, Good
<1>3. ASSUME NEW s \in SUBSET H, NEW c \in s, NEW T \in G[s \ {c}]
      PROVE  Terminate(T, c) \in G[s]
  <2>1. T \in Reached(S) /\ Good(T, NoRound, NoChild) /\ c \in Children
    BY DEF Reached
  <2> DEFINE U == Terminate(T, c)
  <2>2. Good(U, NoRound, NoChild) /\ Onward(T, U)
    BY <2>1, TerminateKeeps
  <2> HIDE DEF U
  <2>3. U \in Reached(S)
    BY <2>1, <2>2, ReachedFurther
  <2> QED
    BY <2>3 DEF U
<1>4. Terminated(S, H) \in G[H]
  <2> HIDE DEF G
  <2> QED
    BY <1>1, <1>2, <1>3, TerminateFold
<1> QED
  BY <1>4

\* A child that was not over moves on; the ledger does not change.
LEMMA ChildSteps ==
    ASSUME NEW S, Good(S, NoRound, NoChild), NEW c \in Children, NEW T, ChildMoved(T, S, c),
           MessageRouted(T, c)
    PROVE  Good(T, NoRound, NoChild) /\ Onward(S, T)
<1>1. /\ T \in Memories
      /\ T.round = S.round /\ T.record = S.record /\ T.reserved = S.reserved
      /\ T.join = S.join /\ T.logged = S.logged /\ T.handed = S.handed
      /\ \A d \in Children : d # c => T.child[d] = S.child[d]
      /\ Silent(S, c) => Silent(T, c)
  BY DEF ChildMoved, Silent
<1>2. ASSUME NEW d \in Children PROVE ResultOk(T, d) /\ ReservedKept(T, d)
  <2>1. ResultOk(S, d) /\ ReservedKept(S, d)
    BY RoundsAreFinite DEF Good
  <2>2. MessageRouted(T, d)
    BY <1>1, <2>1 DEF ResultOk, MessageRouted, HasMessage
  <2> QED
    BY <1>1, <2>1, <2>2 DEF ResultOk, Unrecorded, Kept, HandedMarked, InboundLogged, ReservedKept,
                            Born, Alive
<1>3. ASSUME NEW r \in Rounds
      PROVE  RoundOk(T, r) /\ JoinOk(T, r) /\ (T.join[r].open => Waits(T, r))
  <2>1. RoundOk(S, r) /\ JoinOk(S, r) /\ (S.join[r].open => Waits(S, r))
    BY RoundsAreFinite DEF Good
  <2> QED
    BY <1>1, <2>1 DEF RoundOk, JoinOk, Waits, Born
<1>4. ASSUME NEW r \in Rounds, NEW d \in Children
      PROVE  CarriedOk(T, r, d) /\ CollectedOk(T, r, d) /\ PendingOk(T, r, d)
  <2>1. CarriedOk(S, r, d) /\ CollectedOk(S, r, d) /\ PendingOk(S, r, d)
    BY RoundsAreFinite DEF Good
  <2> QED
    BY <1>1, <2>1 DEF CarriedOk, CollectedOk, PendingOk
<1>5. OneCarrier(T) /\ OneCollector(T)
  BY <1>1 DEF Good, OneCarrier, OneCollector
<1>6. Room(T)
  <2>1. OfUsers(T) = OfUsers(S)
    BY <1>1 DEF OfUsers
  <2> QED
    BY <2>1 DEF Good, Room
<1>7. Onward(S, T)
  <2>1. ASSUME NEW d \in Children, NEW w \in Rounds, Bound(S, d, w) PROVE Bound(T, d, w)
    <3>1. Silent(S, d) => Silent(T, d)
      BY <1>1 DEF Silent, HasMessage
    <3> QED
      BY <1>1, <2>1, <3>1 DEF Bound, Silent
  <2> QED
    BY <1>1, <2>1 DEF Onward, Born, Alive
<1> QED
  BY <1>1, <1>2, <1>3, <1>4, <1>5, <1>6, <1>7 DEF Good

-----------------------------------------------------------------------------
(* Rounds that start, are claimed, and leave.                                *)

LEMMA StartKeeps ==
    ASSUME NEW S, Good(S, NoRound, NoChild), NEW k \in Rounds, ~Born(S, k),
           Cardinality(OfUsers(S)) < MaxMessages, NEW T \in Memories, SameButRound(T, S, k),
           T.round[k] = [S.round[k] EXCEPT !.st = "pending"]
    PROVE  Good(T, NoRound, NoChild) /\ Onward(S, T)
<1>1. S \in Memories /\ S.round[k] \in RoundRecord /\ RoundOk(S, k)
      /\ \A c \in Children : c # NoChild
  BY RoundsAreFinite DEF Good, Memories
<1>2. /\ T.child = S.child /\ T.record = S.record /\ T.reserved = S.reserved
      /\ T.join = S.join /\ T.logged = S.logged /\ T.handed = S.handed
      /\ \A r \in Rounds : r # k => T.round[r] = S.round[r]
  BY DEF SameButRound
<1>3. /\ T.round[k].st = "pending" /\ T.round[k].carries = {} /\ ~T.round[k].claimed
      /\ ~T.round[k].withdrawn /\ ~T.round[k].cancelReq /\ ~S.join[k].open
      /\ S.round[k].carries = {} /\ ~S.round[k].withdrawn
  BY <1>1 DEF RoundRecord, RoundOk, Born
<1>4. \A r \in Rounds : Born(S, r) => r # k /\ T.round[r] = S.round[r] /\ Born(T, r)
  BY <1>2 DEF Born
<1>5. ASSUME NEW c \in Children PROVE ResultOk(T, c) /\ ReservedKept(T, c)
  <2>1. ResultOk(S, c) /\ ReservedKept(S, c) /\ S.record[c].heldFor \in Rounds \cup {NoRound}
        /\ S.reserved[c] \in Rounds \cup {NoRound}
    BY <1>1 DEF Good, Memories, ResultRecord
  <2>2. Kept(T, c)
    BY <1>2, <1>4, <2>1 DEF ResultOk, Kept
  <2>3. Unrecorded(T, c) /\ HandedMarked(T, c) /\ InboundLogged(T, c) /\ MessageRouted(T, c)
    BY <1>2, <2>1 DEF ResultOk, Unrecorded, HandedMarked, InboundLogged, MessageRouted, HasMessage
  <2>4. ReservedKept(T, c)
    <3>1. CASE S.reserved[c] = NoRound
      BY <1>2, <3>1 DEF ReservedKept, Alive
    <3>2. CASE S.reserved[c] \in Rounds /\ S.reserved[c] # NoRound
      <4>1. Born(S, S.reserved[c])
        BY <2>1, <3>2 DEF ReservedKept
      <4>2. T.round[S.reserved[c]] = S.round[S.reserved[c]] /\ Born(T, S.reserved[c])
        BY <1>4, <3>2, <4>1
      <4> QED
        BY <1>2, <2>1, <4>2 DEF ReservedKept, Alive
    <3> QED
      BY <2>1, <3>1, <3>2
  <2> QED
    BY <2>2, <2>3, <2>4 DEF ResultOk
<1>6. ASSUME NEW r \in Rounds
      PROVE  RoundOk(T, r) /\ JoinOk(T, r) /\ (T.join[r].open => Waits(T, r))
  <2>1. RoundOk(S, r) /\ JoinOk(S, r) /\ (S.join[r].open => Waits(S, r))
    BY RoundsAreFinite DEF Good
  <2>2. CASE r = k
    BY <1>2, <1>3, <2>1, <2>2 DEF RoundOk, JoinOk, Born
  <2>3. CASE r # k
    BY <1>2, <2>1, <2>3 DEF RoundOk, JoinOk, Waits, Born
  <2> QED
    BY <2>2, <2>3
<1>7. ASSUME NEW r \in Rounds, NEW c \in Children
      PROVE  CarriedOk(T, r, c) /\ CollectedOk(T, r, c) /\ PendingOk(T, r, c)
  <2>1. CarriedOk(S, r, c) /\ CollectedOk(S, r, c) /\ PendingOk(S, r, c)
    BY <1>1 DEF Good
  <2>2. CarriedOk(T, r, c)
    BY <1>2, <1>3, <2>1 DEF CarriedOk
  <2> QED
    BY <1>2, <2>1, <2>2 DEF CollectedOk, PendingOk
<1>8. \A r \in Rounds : T.round[r].carries = S.round[r].carries
  BY <1>2, <1>3
<1>9. OneCarrier(T) /\ OneCollector(T)
  BY <1>2, <1>8 DEF Good, OneCarrier, OneCollector
<1>10. Room(T)
  <2>1. OfUsers(S) \in SUBSET Rounds
    BY DEF OfUsers
  <2>2. IsFiniteSet(OfUsers(S)) /\ Cardinality(OfUsers(S)) \in Nat
    BY <2>1, RoundsAreFinite, FS_Subset, FS_CardinalityType
  <2>3. OfUsers(T) = OfUsers(S) \cup {k}
    BY <1>2, <1>3 DEF OfUsers
  <2>4. k \notin OfUsers(S)
    BY DEF OfUsers, Born
  <2>5. Cardinality(OfUsers(T)) = Cardinality(OfUsers(S)) + 1
    BY <2>2, <2>3, <2>4, FS_AddElement
  <2> QED
    BY <2>2, <2>5, BoundsAssumption DEF Room
<1>11. Onward(S, T)
  <2>1. \A c \in Children, w \in Rounds : Bound(S, c, w) => Bound(T, c, w)
    BY <1>2 DEF Bound, HasMessage
  <2> QED
    BY <1>4, <1>8, <2>1 DEF Onward, Alive
<1> QED
  BY <1>5, <1>6, <1>7, <1>9, <1>10, <1>11 DEF Good

LEMMA ClaimKeeps ==
    ASSUME NEW S, Good(S, NoRound, NoChild), NEW r \in Rounds, S.round[r].st = "pending",
           NEW T \in Memories,
           T.child = S.child, T.record = S.record, T.reserved = S.reserved,
           T.join = S.join, T.logged = S.logged,
           \A q \in Rounds : q # r => T.round[q] = S.round[q],
           T.round[r] = [S.round[r] EXCEPT !.st = "running", !.claimed = TRUE],
           \A c \in Children :
              T.handed[c] = IF c \in S.round[r].carries /\ ~S.round[r].claimed
                            THEN S.handed[c] + 1 ELSE S.handed[c]
    PROVE  Good(T, NoRound, NoChild) /\ Onward(S, T)
<1>1. /\ S \in Memories /\ S.round[r] \in RoundRecord /\ RoundOk(S, r) /\ r # NoRound
      /\ \A c \in Children : c # NoChild /\ S.handed[c] \in Nat
  BY RoundsAreFinite DEF Good, Memories
<1>2. /\ T.round[r].st = "running" /\ T.round[r].claimed
      /\ T.round[r].carries = S.round[r].carries /\ T.round[r].withdrawn = S.round[r].withdrawn
      /\ T.round[r].cancelReq = S.round[r].cancelReq
      /\ ~S.round[r].withdrawn /\ ~S.round[r].cancelReq
  BY <1>1 DEF RoundRecord, RoundOk
<1>3. \A q \in Rounds : /\ Born(S, q) <=> Born(T, q)
                        /\ T.round[q].carries = S.round[q].carries
                        /\ T.round[q].withdrawn = S.round[q].withdrawn
  BY <1>2 DEF Born
<1>4. \A q \in Rounds \cup {NoRound} : Alive(T, q) <=> Alive(S, q)
  BY <1>2 DEF Alive
<1>5. ASSUME NEW c \in Children, c \in S.round[r].carries, ~S.round[r].claimed
      PROVE  S.handed[c] = 0 /\ S.record[c].delivered = "inbound"
  BY <1>1, <1>2, <1>5 DEF Good, CarriedOk
<1>6. ASSUME NEW c \in Children PROVE ResultOk(T, c) /\ ReservedKept(T, c)
  <2>1. ResultOk(S, c) /\ ReservedKept(S, c) /\ S.record[c].heldFor \in Rounds \cup {NoRound}
        /\ S.reserved[c] \in Rounds \cup {NoRound}
    BY <1>1 DEF Good, Memories, ResultRecord
  <2>2. HandedMarked(T, c)
    <3>1. CASE c \in S.round[r].carries /\ ~S.round[r].claimed
      BY <1>5, <3>1 DEF HandedMarked
    <3>2. CASE ~(c \in S.round[r].carries /\ ~S.round[r].claimed)
      BY <2>1, <3>2 DEF ResultOk, HandedMarked
    <3> QED
      BY <3>1, <3>2
  <2>3. Kept(T, c)
    BY <1>3, <2>1 DEF ResultOk, Kept
  <2>4. Unrecorded(T, c) /\ InboundLogged(T, c) /\ MessageRouted(T, c)
    BY <2>1 DEF ResultOk, Unrecorded, InboundLogged, MessageRouted, HasMessage
  <2>5. ReservedKept(T, c)
    BY <1>3, <1>4, <2>1 DEF ReservedKept
  <2> QED
    BY <2>2, <2>3, <2>4, <2>5 DEF ResultOk
<1>7. ASSUME NEW q \in Rounds
      PROVE  RoundOk(T, q) /\ JoinOk(T, q) /\ (T.join[q].open => Waits(T, q))
  <2>1. RoundOk(S, q) /\ JoinOk(S, q) /\ (S.join[q].open => Waits(S, q))
    BY RoundsAreFinite DEF Good
  <2>2. CASE q = r
    BY <1>2, <2>1, <2>2 DEF RoundOk, JoinOk, Waits, Born
  <2>3. CASE q # r
    BY <2>1, <2>3 DEF RoundOk, JoinOk, Waits, Born
  <2> QED
    BY <2>2, <2>3
<1>8. ASSUME NEW q \in Rounds, NEW c \in Children
      PROVE  CarriedOk(T, q, c) /\ CollectedOk(T, q, c) /\ PendingOk(T, q, c)
  <2>1. CarriedOk(S, q, c) /\ CollectedOk(S, q, c) /\ PendingOk(S, q, c)
    BY <1>1 DEF Good
  <2>2. CarriedOk(T, q, c)
    <3>1. CASE q = r
      BY <1>2, <2>1, <3>1 DEF CarriedOk
    <3>2. CASE q # r
      <4>1. c \in S.round[q].carries => c \notin S.round[r].carries
        BY <3>2 DEF Good, OneCarrier
      <4> QED
        BY <2>1, <3>2, <4>1 DEF CarriedOk
    <3> QED
      BY <3>1, <3>2
  <2>3. CollectedOk(T, q, c)
    BY <1>5, <2>1 DEF CollectedOk
  <2> QED
    BY <2>1, <2>2, <2>3 DEF PendingOk
<1>9. OneCarrier(T) /\ OneCollector(T)
  BY <1>3 DEF Good, OneCarrier, OneCollector
<1>10. Room(T)
  <2>1. OfUsers(T) = OfUsers(S)
    BY <1>3 DEF OfUsers, Born
  <2> QED
    BY <2>1 DEF Good, Room
<1>11. Onward(S, T)
  <2>1. \A c \in Children, w \in Rounds : Bound(S, c, w) => Bound(T, c, w)
    BY <1>1 DEF Bound, HasMessage
  <2> QED
    BY <1>3, <1>4, <2>1 DEF Onward
<1> QED
  BY <1>6, <1>7, <1>8, <1>9, <1>10, <1>11 DEF Good

-----------------------------------------------------------------------------
(* The actions.                                                              *)

Steps == Good(Memory', NoRound, NoChild) /\ Onward(Memory, Memory')

LEMMA MemoryIs ==
    /\ Memory.round = round /\ Memory.child = child /\ Memory.record = record
    /\ Memory.reserved = reserved /\ Memory.join = join /\ Memory.logged = logged
    /\ Memory.handed = handed /\ Memory.pulled = pulled
BY DEF Memory

LEMMA BecomesIs ==
    ASSUME NEW T \in Memories, Becomes(T)
    PROVE  Memory' = T
<1>1. /\ round' = T.round /\ child' = T.child /\ record' = T.record /\ reserved' = T.reserved
      /\ join' = T.join /\ logged' = T.logged /\ handed' = T.handed /\ pulled' = T.pulled
  BY DEF Becomes
<1>2. T = [round |-> T.round, child |-> T.child, record |-> T.record, reserved |-> T.reserved,
           join |-> T.join, logged |-> T.logged, handed |-> T.handed, pulled |-> T.pulled]
  BY DEF Memories
<1> QED
  BY <1>1, <1>2 DEF Memory

LEMMA BecomesKeeps ==
    ASSUME NEW T, Good(T, NoRound, NoChild), Onward(Memory, T), Becomes(T)
    PROVE  Steps
BY BecomesIs DEF Steps, Good

\* A round alone changes.
RoundOnly == UNCHANGED <<child, record, reserved, join, logged, handed, pulled>>

LEMMA RoundOnlyIs ==
    ASSUME IInv, RoundOnly, NEW r \in Rounds, NEW q \in RoundRecord,
           round' = [round EXCEPT ![r] = q]
    PROVE  /\ Memory' \in Memories /\ SameButRound(Memory', Memory, r)
           /\ (Memory').round[r] = q
<1> DEFINE T == [Memory EXCEPT !.round[r] = q]
<1>1. Memory \in Memories
  BY DEF IInv, Good
<1>2. T \in Memories /\ SameButRound(T, Memory, r) /\ T.round[r] = q
  BY <1>1, WithRound
<1>3. Memory' = T
  BY DEF RoundOnly, Memory
<1> QED
  BY <1>2, <1>3

LEMMA UserMessageSteps ==
    ASSUME IInv, UserMessage
    PROVE  Steps
<1> DEFINE k == NextRound(Memory)
           q == [round[k] EXCEPT !.st = "pending"]
<1>1. Memory \in Memories /\ Good(Memory, NoRound, NoChild)
  BY DEF IInv, Good
<1>2. k \in Rounds /\ ~Born(Memory, k)
  BY MemoryIs, NextIsUnborn DEF UserMessage, Born
<1> HIDE DEF k
<1>3. Cardinality(OfUsers(Memory)) < MaxMessages
  BY MemoryIs DEF UserMessage, OfUsers
<1>4. q \in RoundRecord /\ q = [Memory.round[k] EXCEPT !.st = "pending"]
  BY <1>1, <1>2, MemoryIs DEF Memories, RoundRecord, RoundStates
<1>5. round' = [round EXCEPT ![k] = q] /\ RoundOnly
  BY DEF UserMessage, RoundOnly, k
<1> HIDE DEF q
<1>6. Memory' \in Memories /\ SameButRound(Memory', Memory, k) /\ (Memory').round[k] = q
  BY <1>2, <1>4, <1>5, RoundOnlyIs
<1> QED
  BY <1>1, <1>2, <1>3, <1>4, <1>6, StartKeeps DEF Steps

\* At any time the join of a round that does not wait for it is closed.
LEMMA OpenWaits ==
    ASSUME NEW S, Good(S, NoRound, NoChild), NEW r \in Rounds, S.round[r].st # "awaiting"
    PROVE  ~S.join[r].open
BY RoundsAreFinite DEF Good, Waits

LEMMA EndsBecomes ==
    ASSUME IInv, NEW r \in Rounds, NEW st \in {"over", "stopped", "ended", "cancelled"},
           round' = Ends(Memory, r, st).round, RoundOnly
    PROVE  Memory' = Ends(Memory, r, st)
<1> DEFINE T == Ends(Memory, r, st)
<1>1. Ended(T, Memory, r, st)
  BY EndsIs DEF IInv, Good, RoundStates
<1>2. round' = T.round
  OBVIOUS
<1> HIDE DEF T
<1>3. T \in Memories /\ SameButRound(T, Memory, r) /\ T.pulled = pulled
  BY <1>1, MemoryIs DEF Ended
<1>4. Becomes(T)
  BY <1>2, <1>3, MemoryIs DEF Becomes, RoundOnly, SameButRound
<1> QED
  BY <1>3, <1>4, BecomesIs DEF T

LEMMA ReportSteps ==
    ASSUME IInv, NEW r \in Rounds, Report(r)
    PROVE  Steps
<1>1. Memory \in Memories /\ Good(Memory, NoRound, NoChild) /\ round[r].st = "running"
  BY DEF IInv, Good, Report
<1>2. ~Memory.join[r].open /\ RoundOk(Memory, r) /\ round[r] \in RoundRecord
  BY <1>1, OpenWaits, MemoryIs DEF Good, Memories
<1>3. ASSUME NEW st \in {"over", "stopped", "ended", "cancelled"},
             round' = Ends(Memory, r, st).round
      PROVE  Steps
  <2>1. Memory' = Ends(Memory, r, st)
    BY <1>3, EndsBecomes DEF Report, RoundOnly
  <2>2. Born(Memory, r) /\ Memory.round[r].st # "cancelled"
    BY <1>1, MemoryIs DEF Born
  <2> QED
    BY <1>1, <1>2, <2>1, <2>2, EndsKeeps DEF Steps
<1>4. ASSUME NEW ask \in Asks, round' = [round EXCEPT ![r].st = "dispatching", ![r].ask = ask]
      PROVE  Steps
  <2> DEFINE q == [round[r] EXCEPT !.st = "dispatching", !.ask = ask]
  <2>1. q \in RoundRecord
    BY <1>2 DEF RoundRecord, RoundStates
  <2>2. /\ q.st = "dispatching" /\ q.carries = round[r].carries /\ q.claimed = round[r].claimed
        /\ q.withdrawn = round[r].withdrawn /\ q.cancelReq = round[r].cancelReq
    BY <1>2 DEF RoundRecord
  <2>3. round' = [round EXCEPT ![r] = q] /\ RoundOnly
    BY <1>1, <1>4, MemoryIs DEF Report, RoundOnly, Memories
  <2> HIDE DEF q
  <2>4. Memory' \in Memories /\ SameButRound(Memory', Memory, r) /\ (Memory').round[r] = q
    BY <2>1, <2>3, RoundOnlyIs
  <2>5. RoundMove(Memory.round[r], (Memory').round[r])
    BY <1>1, <2>2, <2>4, MemoryIs DEF RoundMove, AliveStates
  <2>6. RoundOk(Memory', r)
    BY <1>1, <1>2, <2>2, <2>4, MemoryIs DEF RoundOk, Born
  <2>7. ~(Memory').join[r].open
    BY <1>2, <2>4 DEF SameButRound
  <2> QED
    BY <1>1, <2>4, <2>5, <2>6, <2>7, RoundMoves DEF Steps
<1> QED
  BY <1>3, <1>4 DEF Report

LEMMA ResumeSuspendedSteps ==
    ASSUME IInv, NEW r \in Rounds, ResumeSuspended(r)
    PROVE  Steps
<1>1. Memory \in Memories /\ Good(Memory, NoRound, NoChild)
      /\ round[r].st \in {"waiting", "compacting"}
  BY DEF IInv, Good, ResumeSuspended
<1>2. ~Memory.join[r].open /\ RoundOk(Memory, r) /\ round[r] \in RoundRecord
  BY <1>1, OpenWaits, MemoryIs DEF Good, Memories
<1> DEFINE q == [round[r] EXCEPT !.st = "pending"]
<1>3. q \in RoundRecord
  BY <1>2 DEF RoundRecord, RoundStates
<1>4. /\ q.st = "pending" /\ q.carries = round[r].carries /\ q.claimed = round[r].claimed
      /\ q.withdrawn = round[r].withdrawn /\ q.cancelReq = round[r].cancelReq
  BY <1>2 DEF RoundRecord
<1>5. round' = [round EXCEPT ![r] = q] /\ RoundOnly
  BY DEF ResumeSuspended, RoundOnly
<1> HIDE DEF q
<1>6. Memory' \in Memories /\ SameButRound(Memory', Memory, r) /\ (Memory').round[r] = q
  BY <1>3, <1>5, RoundOnlyIs
<1>7. round[r].claimed /\ ~round[r].withdrawn /\ ~round[r].cancelReq
  BY <1>1, <1>2, MemoryIs DEF RoundOk
<1>8. RoundMove(Memory.round[r], (Memory').round[r])
  BY <1>1, <1>4, <1>6, <1>7, MemoryIs DEF RoundMove, AliveStates
<1>9. RoundOk(Memory', r)
  BY <1>4, <1>6, <1>7 DEF RoundOk, Born
<1>10. ~(Memory').join[r].open
  BY <1>2, <1>6 DEF SameButRound
<1> QED
  BY <1>1, <1>6, <1>8, <1>9, <1>10, RoundMoves DEF Steps

LEMMA ClaimRoundSteps ==
    ASSUME IInv, NEW r \in Rounds, ClaimRound(r)
    PROVE  Steps
<1>1. Memory \in Memories /\ Good(Memory, NoRound, NoChild) /\ round[r].st = "pending"
      /\ round \in [Rounds -> RoundRecord] /\ handed \in [Children -> Nat]
  BY MemoryIs DEF IInv, Good, ClaimRound, Memories
<1> DEFINE q == [round[r] EXCEPT !.st = "running", !.claimed = TRUE]
           H == [c \in Children |->
                    IF c \in round[r].carries /\ ~round[r].claimed THEN handed[c] + 1 ELSE handed[c]]
           B == [round EXCEPT ![r] = q]
<1>2. q \in RoundRecord
  BY <1>1 DEF RoundRecord, RoundStates
<1>3. B \in [Rounds -> RoundRecord] /\ B[r] = q /\ \A p \in Rounds : p # r => B[p] = round[p]
  BY <1>1, <1>2
<1>4. H \in [Children -> Nat]
  BY <1>1
<1>5. /\ round' = B /\ handed' = H /\ child' = child /\ record' = record
      /\ reserved' = reserved /\ join' = join /\ logged' = logged /\ pulled' = pulled
  BY DEF ClaimRound
<1>6. \A c \in Children :
         H[c] = IF c \in round[r].carries /\ ~round[r].claimed THEN handed[c] + 1 ELSE handed[c]
  OBVIOUS
<1>7. q = [round[r] EXCEPT !.st = "running", !.claimed = TRUE]
  OBVIOUS
<1> HIDE DEF q, H, B
<1> DEFINE T == [Memory EXCEPT !.round = B, !.handed = H]
<1>8. /\ T \in Memories /\ T.round = B /\ T.handed = H
      /\ T.child = Memory.child /\ T.record = Memory.record /\ T.reserved = Memory.reserved
      /\ T.join = Memory.join /\ T.logged = Memory.logged /\ T.pulled = Memory.pulled
  BY <1>1, <1>3, <1>4 DEF Memories
<1> HIDE DEF T
<1>9. Memory' = T
  BY <1>5, <1>8, MemoryIs, BecomesIs DEF Becomes
<1>10. Good(T, NoRound, NoChild) /\ Onward(Memory, T)
  <2>1. /\ T.round[r] = [Memory.round[r] EXCEPT !.st = "running", !.claimed = TRUE]
        /\ Memory.round[r].st = "pending"
        /\ \A p \in Rounds : p # r => T.round[p] = Memory.round[p]
    BY <1>1, <1>3, <1>7, <1>8, MemoryIs
  <2>2. \A c \in Children :
           T.handed[c] = IF c \in Memory.round[r].carries /\ ~Memory.round[r].claimed
                         THEN Memory.handed[c] + 1 ELSE Memory.handed[c]
    BY <1>6, <1>8, MemoryIs
  <2> QED
    BY ONLY <1>1, <1>8, <2>1, <2>2, r \in Rounds, ClaimKeeps
<1> QED
  BY <1>9, <1>10 DEF Steps

\* What a round leaves behind when it ends.
LEMMA LeavesKeeps ==
    ASSUME IInv, NEW r \in Rounds, NEW st \in {"over", "stopped", "ended", "cancelled"},
           Born(Memory, r), round[r].st # "cancelled"
    PROVE  LET T == ReleaseWaiter(Ends(Memory, r, st), r) IN
           Good(T, NoRound, NoChild) /\ Onward(Memory, T)
<1> DEFINE U == Ends(Memory, r, st)
           T == ReleaseWaiter(U, r)
<1>1. Good(Memory, r, NoChild) /\ Memory.round[r].st # "cancelled"
  BY GoodWeaker, MemoryIs DEF IInv
<1>2. Good(U, r, NoChild) /\ Onward(Memory, U) /\ U.round[r].st = st
  BY <1>1, EndsKeeps
<1> HIDE DEF U
<1>3. ~Alive(U, r)
  BY <1>2 DEF Alive
<1>4. Good(T, NoRound, NoChild) /\ Onward(U, T)
  BY <1>2, <1>3, ReleaseWaiterKeeps
<1> HIDE DEF T
<1>5. Onward(Memory, T)
  BY <1>2, <1>4, OnwardTwice
<1> QED
  BY <1>4, <1>5 DEF T, U

\* A round that was being routed goes on to wait for something other than a join.
LEMMA GoesKeeps ==
    ASSUME IInv, NEW r \in Rounds, round[r].st = "dispatching", ~round[r].cancelReq,
           NEW st \in {"waiting", "compacting"}
    PROVE  LET T == Goes(Memory, r, st) IN Good(T, NoRound, NoChild) /\ Onward(Memory, T)
<1> DEFINE T == Goes(Memory, r, st)
<1>1. Memory \in Memories /\ Good(Memory, NoRound, NoChild)
  BY DEF IInv, Good
<1>2. ~Memory.join[r].open /\ RoundOk(Memory, r) /\ round[r] \in RoundRecord
  BY <1>1, OpenWaits, MemoryIs DEF Good, Memories
<1>3. Gone(T, Memory, r, st)
  BY <1>1, GoesIs DEF RoundStates
<1> HIDE DEF T
<1>4. /\ T \in Memories /\ SameButRound(T, Memory, r)
      /\ T.round[r] = [round[r] EXCEPT !.st = st, !.ask = NoAsk]
  BY <1>3, MemoryIs DEF Gone
<1>5. /\ T.round[r].st = st /\ T.round[r].carries = round[r].carries
      /\ T.round[r].claimed = round[r].claimed /\ T.round[r].cancelReq = round[r].cancelReq
      /\ T.round[r].withdrawn = round[r].withdrawn
  BY <1>2, <1>4 DEF RoundRecord
<1>6. RoundMove(Memory.round[r], T.round[r])
  BY <1>5, MemoryIs DEF RoundMove, AliveStates
<1>7. RoundOk(T, r)
  BY <1>2, <1>5, MemoryIs DEF RoundOk, Born
<1>8. ~T.join[r].open
  BY <1>2, <1>4 DEF SameButRound
<1>9. Good(T, NoRound, NoChild) /\ Onward(Memory, T)
  BY <1>1, <1>4, <1>6, <1>7, <1>8, RoundMoves
<1> QED
  BY <1>9 DEF T

LEMMA RouteRoundSteps ==
    ASSUME IInv, NEW r \in Rounds, RouteRound(r)
    PROVE  Steps
<1> DEFINE st == round[r].st
           ask == round[r].ask
           Releases(end) == ReleaseWaiter(Ends(Memory, r, end), r)
           X == IF st = "over" THEN Releases("ended")
                ELSE IF st = "stopped" \/ round[r].cancelReq THEN Releases("cancelled")
                ELSE IF ask.what = "await" THEN RouteAwait(Memory, r, ask.handles, ask.mode)
                ELSE IF ask.what = "wait" THEN ReleaseRoundHolds(Goes(Memory, r, "waiting"), r)
                ELSE Goes(Memory, r, "compacting")
<1>1. st \in {"dispatching", "over", "stopped"} /\ Becomes(X)
  BY DEF RouteRound
<1>2. Born(Memory, r) /\ st # "cancelled"
  BY <1>1, MemoryIs DEF Born
<1>3. Good(Memory, NoRound, NoChild)
  BY DEF IInv
<1>4. Good(X, NoRound, NoChild) /\ Onward(Memory, X)
  <2>1. CASE st = "over"
    <3> DEFINE T == Releases("ended")
    <3>1. Good(T, NoRound, NoChild) /\ Onward(Memory, T)
      BY <1>2, LeavesKeeps
    <3>2. X = T
      BY <2>1
    <3> HIDE DEF T, X
    <3> QED
      BY <3>1, <3>2
  <2>2. CASE st # "over" /\ (st = "stopped" \/ round[r].cancelReq)
    <3> DEFINE T == Releases("cancelled")
    <3>1. Good(T, NoRound, NoChild) /\ Onward(Memory, T)
      BY <1>2, LeavesKeeps
    <3>2. X = T
      BY <2>2
    <3> HIDE DEF T, X
    <3> QED
      BY <3>1, <3>2
  <2>3. CASE st = "dispatching" /\ ~round[r].cancelReq /\ ask.what = "await"
    <3> DEFINE T == RouteAwait(Memory, r, ask.handles, ask.mode)
    <3>1. ask.handles \in SUBSET Children /\ ask.mode \in {"all", "any"}
      <4>1. ask \in Asks
        BY <1>3, MemoryIs DEF Good, Memories, RoundRecord
      <4> QED
        BY <2>3, <4>1 DEF Asks
    <3>2. Good(T, NoRound, NoChild) /\ Onward(Memory, T)
      BY <1>3, <2>3, <3>1, MemoryIs, RouteAwaitKeeps
    <3>3. X = T
      BY <2>3
    <3> HIDE DEF T, X
    <3> QED
      BY <3>2, <3>3
  <2>4. CASE st = "dispatching" /\ ~round[r].cancelReq /\ ask.what = "wait"
    <3> DEFINE W == Goes(Memory, r, "waiting")
               T == ReleaseRoundHolds(W, r)
    <3>1. Good(W, NoRound, NoChild) /\ Onward(Memory, W)
      BY <2>4, GoesKeeps
    <3>2. X = T
      BY <2>4
    <3> HIDE DEF W, X
    <3>3. Good(T, NoRound, NoChild) /\ Onward(W, T)
      BY <3>1, ReleaseRoundHoldsKeeps
    <3> HIDE DEF T
    <3> QED
      BY <3>1, <3>2, <3>3, OnwardTwice
  <2>5. CASE st = "dispatching" /\ ~round[r].cancelReq /\ ask.what # "await" /\ ask.what # "wait"
    <3> DEFINE T == Goes(Memory, r, "compacting")
    <3>1. Good(T, NoRound, NoChild) /\ Onward(Memory, T)
      BY <2>5, GoesKeeps
    <3>2. X = T
      BY <2>5
    <3> HIDE DEF T, X
    <3> QED
      BY <3>1, <3>2
  <2> HIDE DEF X
  <2> QED
    BY <1>1, <2>1, <2>2, <2>3, <2>4, <2>5
<1> HIDE DEF X
<1> QED
  BY <1>1, <1>4, BecomesKeeps

LEMMA FailSteps ==
    ASSUME IInv, NEW r \in Rounds, Fail(r)
    PROVE  Steps
<1>1. /\ Good(Memory, NoRound, NoChild) /\ Born(Memory, r) /\ round[r].st # "cancelled"
      /\ Alive(Memory, r)
  BY MemoryIs DEF IInv, Fail, Alive, Born
<1>2. CASE round[r].st = "running"
  <2>1. round' = Ends(Memory, r, "over").round /\ RoundOnly
    BY <1>2 DEF Fail, RoundOnly
  <2>2. Memory' = Ends(Memory, r, "over")
    BY <2>1, EndsBecomes
  <2>3. ~Memory.join[r].open
    BY <1>1, <1>2, OpenWaits, MemoryIs
  <2> QED
    BY <1>1, <2>2, <2>3, EndsKeeps, MemoryIs DEF Steps
<1>3. CASE round[r].st # "running"
  <2> DEFINE T == ReleaseWaiter(Ends(Memory, r, "ended"), r)
  <2>1. Becomes(T)
    BY <1>3 DEF Fail
  <2>2. Good(T, NoRound, NoChild) /\ Onward(Memory, T)
    BY <1>1, LeavesKeeps
  <2> HIDE DEF T
  <2> QED
    BY <2>1, <2>2, BecomesKeeps
<1> QED
  BY <1>2, <1>3

LEMMA CancelRoundSteps ==
    ASSUME IInv, NEW r \in Rounds, CancelRound(r)
    PROVE  Steps
<1> DEFINE T == IF round[r].st \in {"running", "dispatching"}
                THEN [Memory EXCEPT !.round[r].cancelReq = TRUE]
                ELSE ReleaseWaiter(Ends(Memory, r, "cancelled"), r)
<1>1. /\ Memory \in Memories /\ Good(Memory, NoRound, NoChild) /\ Born(Memory, r)
      /\ round[r].st # "cancelled" /\ RoundOk(Memory, r) /\ round[r] \in RoundRecord
  BY MemoryIs DEF IInv, Good, Memories, CancelRound, Alive, Born
<1>2. PICK queued \in SUBSET Children : Becomes(Terminated(T, queued))
  BY DEF CancelRound, Terminated
<1>3. Good(T, NoRound, NoChild) /\ Onward(Memory, T)
  <2>1. CASE round[r].st \in {"running", "dispatching"}
    <3> DEFINE q == [round[r] EXCEPT !.cancelReq = TRUE]
               U == [Memory EXCEPT !.round[r] = q]
    <3>1. q \in RoundRecord
      BY <1>1 DEF RoundRecord
    <3>2. /\ q.st = round[r].st /\ q.carries = round[r].carries /\ q.claimed = round[r].claimed
          /\ q.withdrawn = round[r].withdrawn
      BY <1>1 DEF RoundRecord
    <3>3. T = U
      BY <1>1, <2>1, MemoryIs DEF Memories
    <3> HIDE DEF q, T
    <3>4. U \in Memories /\ SameButRound(U, Memory, r) /\ U.round[r] = q
      BY <1>1, <3>1, WithRound
    <3> HIDE DEF U
    <3>5. ~U.join[r].open
      BY <1>1, <2>1, <3>4, OpenWaits, MemoryIs DEF SameButRound
    <3>6. RoundMove(Memory.round[r], U.round[r])
      BY <2>1, <3>2, <3>4, MemoryIs DEF RoundMove, AliveStates
    <3>7. RoundOk(U, r)
      BY <1>1, <2>1, <3>2, <3>4, MemoryIs DEF RoundOk, Born
    <3> QED
      BY <1>1, <3>3, <3>4, <3>5, <3>6, <3>7, RoundMoves
  <2>2. CASE round[r].st \notin {"running", "dispatching"}
    <3> DEFINE U == ReleaseWaiter(Ends(Memory, r, "cancelled"), r)
    <3>1. Good(U, NoRound, NoChild) /\ Onward(Memory, U)
      BY <1>1, LeavesKeeps
    <3>2. T = U
      BY <2>2
    <3> HIDE DEF T, U
    <3> QED
      BY <3>1, <3>2
  <2> QED
    BY <2>1, <2>2
<1> HIDE DEF T
<1> DEFINE V == Terminated(T, queued)
<1>4. V \in Reached(T)
  BY <1>3, TerminatedKeeps
<1> HIDE DEF V
<1>5. Good(V, NoRound, NoChild) /\ Onward(Memory, V)
  BY <1>3, <1>4, OnwardTwice DEF Reached
<1> QED
  BY <1>2, <1>5, BecomesKeeps DEF V

\* A child alone changes.
ChildOnly == UNCHANGED <<round, record, reserved, join, logged, handed, pulled>>

LEMMA ChildOnlySteps ==
    ASSUME IInv, ChildOnly, NEW c \in Children, NEW k \in ChildRecord,
           child' = [child EXCEPT ![c] = k], child[c].st # "over",
           k.kind = "message" => k.route = "pending" \/ record[c].known
    PROVE  Steps
<1> DEFINE T == [Memory EXCEPT !.child[c] = k]
<1>1. Memory \in Memories /\ Good(Memory, NoRound, NoChild)
  BY DEF IInv, Good
<1>2. Memory' = T
  BY DEF ChildOnly, Memory
<1>3. T = ChildPut(Memory, c, k)
  BY DEF ChildPut
<1> HIDE DEF T
<1>4. ChildMoved(T, Memory, c) /\ T.child[c] = k
  BY <1>1, <1>3, WithChild, MemoryIs DEF Silent
<1>5. MessageRouted(T, c)
  BY <1>4, MemoryIs DEF MessageRouted, HasMessage, ChildMoved
<1> QED
  BY <1>1, <1>2, <1>4, <1>5, ChildSteps DEF Steps

LEMMA DispatchSteps ==
    ASSUME IInv, NEW r \in Rounds, Dispatch(r)
    PROVE  Steps
<1>1. PICK c \in Children :
        /\ \A d \in Children : child[d].st = "none" <=> d >= c
        /\ child' = [child EXCEPT ![c].st = "live", ![c].by = r]
  BY DEF Dispatch
<1> DEFINE k == [child[c] EXCEPT !.st = "live", !.by = r]
<1>2. child \in [Children -> ChildRecord] /\ child[c] \in ChildRecord
      /\ MessageRouted(Memory, c)
  BY MemoryIs DEF IInv, Good, Memories, ResultOk
<1>3. child[c].st = "none"
  BY <1>1, RoundsAreFinite
<1>4. k \in ChildRecord /\ k.kind = child[c].kind /\ k.route = child[c].route
  BY <1>2 DEF ChildRecord
<1>5. child' = [child EXCEPT ![c] = k] /\ ChildOnly
  BY <1>1, <1>2 DEF Dispatch, ChildOnly
<1> HIDE DEF k
<1>6. k.kind = "message" => k.route = "pending" \/ record[c].known
  BY <1>2, <1>4, MemoryIs DEF MessageRouted, HasMessage
<1> QED
  BY <1>3, <1>4, <1>5, <1>6, ChildOnlySteps

LEMMA ChildEndsSteps ==
    ASSUME IInv, NEW c \in Children, ChildEnds(c)
    PROVE  Steps
<1>1. PICK kind \in {"message", "silent"} :
         child' = [child EXCEPT ![c].st = "over", ![c].kind = kind, ![c].route = "pending"]
  BY DEF ChildEnds
<1> DEFINE k == [child[c] EXCEPT !.st = "over", !.kind = kind, !.route = "pending"]
<1>2. child \in [Children -> ChildRecord] /\ child[c] \in ChildRecord
  BY MemoryIs DEF IInv, Good, Memories
<1>3. k \in ChildRecord /\ k.route = "pending"
  BY <1>2 DEF ChildRecord
<1>4. child' = [child EXCEPT ![c] = k] /\ ChildOnly /\ child[c].st # "over"
  BY <1>1, <1>2 DEF ChildEnds, ChildOnly
<1> HIDE DEF k
<1> QED
  BY <1>3, <1>4, ChildOnlySteps

LEMMA ResetChildSteps ==
    ASSUME IInv, NEW c \in Children, ResetChild(c)
    PROVE  Steps
<1> DEFINE k == [child[c] EXCEPT !.st = "over", !.kind = "silent", !.route = "routed"]
<1>1. child \in [Children -> ChildRecord] /\ child[c] \in ChildRecord
  BY MemoryIs DEF IInv, Good, Memories
<1>2. k \in ChildRecord /\ k.kind = "silent"
  BY <1>1 DEF ChildRecord
<1>3. child' = [child EXCEPT ![c] = k] /\ ChildOnly /\ child[c].st # "over"
  BY <1>1 DEF ResetChild, ChildOnly
<1> HIDE DEF k
<1> QED
  BY <1>2, <1>3, ChildOnlySteps

LEMMA RouteChildSteps ==
    ASSUME IInv, NEW c \in Children, RouteChild(c)
    PROVE  Steps
<1>1. PICK end \in {"routed", "failed"} :
         LET S == [Memory EXCEPT !.child[c].route = end] IN
         Becomes(IF HasMessage(S, c) THEN Inject(S, c) ELSE Settle(S, c))
  BY DEF RouteChild
<1> DEFINE k == [child[c] EXCEPT !.route = end]
           U == [Memory EXCEPT !.child[c].route = end]
           T == IF HasMessage(U, c) THEN Inject(U, c) ELSE Settle(U, c)
<1>2. /\ Memory \in Memories /\ Good(Memory, NoRound, NoChild)
      /\ child \in [Children -> ChildRecord] /\ child[c] \in ChildRecord
  BY MemoryIs DEF IInv, Good, Memories
<1>3. k \in ChildRecord /\ k.st = child[c].st /\ k.kind = child[c].kind
  BY <1>2 DEF ChildRecord
<1>4. U = ChildPut(Memory, c, k)
  BY <1>2, MemoryIs DEF Memories, ChildPut
<1>5. Becomes(T)
  BY <1>1
<1> HIDE DEF k, U
<1>6. ChildMoved(U, Memory, c)
  BY <1>2, <1>3, <1>4, WithChild, MemoryIs DEF Silent, HasMessage
<1>7. CASE HasMessage(U, c)
  <2> DEFINE V == Inject(U, c)
  <2>1. Good(V, NoRound, NoChild) /\ Onward(Memory, V)
    BY <1>2, <1>6, <1>7, InjectKeeps
  <2>2. Becomes(V)
    BY <1>5, <1>7
  <2> HIDE DEF V
  <2> QED
    BY <2>1, <2>2, BecomesKeeps
<1>8. CASE ~HasMessage(U, c)
  <2> DEFINE V == Settle(U, c)
  <2>1. Good(V, NoRound, NoChild) /\ Onward(Memory, V)
    BY <1>2, <1>6, SettleKeeps
  <2>2. Becomes(V)
    BY <1>5, <1>8
  <2> HIDE DEF V
  <2> QED
    BY <2>1, <2>2, BecomesKeeps
<1> QED
  BY <1>7, <1>8

LEMMA CancelChildSteps ==
    ASSUME IInv, NEW c \in Children, CancelChild(c)
    PROVE  Steps
<1> DEFINE T == Terminate(Memory, c)
<1>1. Becomes(T)
  BY DEF CancelChild
<1>2. Good(T, NoRound, NoChild) /\ Onward(Memory, T)
  BY TerminateKeeps DEF IInv
<1> HIDE DEF T
<1> QED
  BY <1>1, <1>2, BecomesKeeps

LEMMA TimerFiresSteps ==
    ASSUME IInv, TimerFires
    PROVE  Steps
<1>1. PICK due \in SUBSET {r \in Rounds : join[r].open} : ExpireDue(due)
  BY DEF TimerFires
<1> DEFINE H == {r \in Rounds : join[r].open}
           X == Expired(Memory, due, H)
           gone == {r \in Holders(X) \ {NoRound} : ~Alive(X, r)}
           Y == Released(X, gone)
<1>2. Becomes(Y)
  BY <1>1 DEF ExpireDue, Expired, Released
<1>3. Good(Memory, NoRound, NoChild)
  BY DEF IInv
<1>4. X \in Reached(Memory)
  BY <1>3, ExpiredKeeps
<1> HIDE DEF X
<1>5. Good(X, NoRound, NoChild) /\ Onward(Memory, X) /\ X \in Memories
  BY <1>4 DEF Reached
<1>6. \A r \in gone : r \in Rounds /\ Born(X, r) /\ ~Alive(X, r)
  <2>1. ASSUME NEW c \in Children
        PROVE  /\ X.reserved[c] \in Rounds \cup {NoRound}
               /\ X.record[c].heldFor \in Rounds \cup {NoRound}
               /\ X.reserved[c] # NoRound => Born(X, X.reserved[c])
               /\ X.record[c].heldFor # NoRound => Born(X, X.record[c].heldFor)
    BY <1>5, RoundsAreFinite DEF Good, ReservedKept, ResultOk, Kept, Memories, ResultRecord
  <2> QED
    BY <2>1 DEF Holders
<1> HIDE DEF gone
<1>7. Y \in Reached(X)
  BY <1>5, <1>6, ReleasedKeeps
<1> HIDE DEF Y
<1>8. Good(Y, NoRound, NoChild) /\ Onward(Memory, Y)
  BY <1>5, <1>7, OnwardTwice DEF Reached
<1> QED
  BY <1>2, <1>8, BecomesKeeps

-----------------------------------------------------------------------------
(* The ledger at any time.                                                   *)

LEMMA NextSteps ==
    ASSUME IInv, [Next]_vars
    PROVE  Steps
<1>1. CASE UserMessage
  BY <1>1, UserMessageSteps
<1>2. CASE TimerFires
  BY <1>2, TimerFiresSteps
<1>3. ASSUME NEW r \in Rounds, ClaimRound(r) PROVE Steps
  BY <1>3, ClaimRoundSteps
<1>4. ASSUME NEW r \in Rounds, Report(r) PROVE Steps
  BY <1>4, ReportSteps
<1>5. ASSUME NEW r \in Rounds, RouteRound(r) PROVE Steps
  BY <1>5, RouteRoundSteps
<1>6. ASSUME NEW r \in Rounds, ResumeSuspended(r) PROVE Steps
  BY <1>6, ResumeSuspendedSteps
<1>7. ASSUME NEW r \in Rounds, Fail(r) PROVE Steps
  BY <1>7, FailSteps
<1>8. ASSUME NEW r \in Rounds, CancelRound(r) PROVE Steps
  BY <1>8, CancelRoundSteps
<1>9. ASSUME NEW r \in Rounds, Dispatch(r) PROVE Steps
  BY <1>9, DispatchSteps
<1>10. ASSUME NEW c \in Children, ChildEnds(c) PROVE Steps
  BY <1>10, ChildEndsSteps
<1>11. ASSUME NEW c \in Children, RouteChild(c) PROVE Steps
  BY <1>11, RouteChildSteps
<1>12. ASSUME NEW c \in Children, CancelChild(c) PROVE Steps
  BY <1>12, CancelChildSteps
<1>13. ASSUME NEW c \in Children, ResetChild(c) PROVE Steps
  BY <1>13, ResetChildSteps
<1>14. CASE UNCHANGED vars
  <2>1. Memory' = Memory
    BY <1>14 DEF vars, Memory
  <2> QED
    BY <2>1, OnwardHere DEF Steps, IInv
<1> QED
  BY <1>1, <1>2, <1>3, <1>4, <1>5, <1>6, <1>7, <1>8, <1>9, <1>10, <1>11, <1>12, <1>13, <1>14
     DEF Next

LEMMA InitGood == Init => IInv
<1> SUFFICES ASSUME Init PROVE Good(Memory, NoRound, NoChild)
  BY DEF IInv
<1>1. NoAsk \in Asks
  BY DEF NoAsk, Asks
<1>2. ASSUME NEW r \in Rounds
      PROVE  /\ round[r].st = "unborn" /\ round[r].carries = {}
             /\ ~round[r].claimed /\ ~round[r].cancelReq /\ ~round[r].withdrawn
             /\ join[r] = NoJoin /\ ~join[r].open
             /\ join[r].pending = {} /\ join[r].settled = {} /\ join[r].earlier = {}
             /\ InFull(join[r]) = {}
  BY DEF Init, NoJoin, InFull
<1>3. ASSUME NEW c \in Children
      PROVE  /\ child[c].kind = "none" /\ ~record[c].known /\ record[c].delivered = ""
             /\ record[c].heldFor = NoRound /\ record[c].hold = ""
             /\ reserved[c] = NoRound /\ handed[c] = 0 /\ c \notin logged
  BY DEF Init
<1>4. Memory \in Memories
  <2>1. round \in [Rounds -> RoundRecord]
    BY <1>1 DEF Init, RoundRecord, RoundStates
  <2>2. child \in [Children -> ChildRecord]
    BY DEF Init, ChildRecord
  <2>3. record \in [Children -> ResultRecord]
    BY DEF Init, ResultRecord
  <2>4. NoJoin \in JoinRecord
    BY DEF NoJoin, JoinRecord
  <2>5. join \in [Rounds -> JoinRecord] /\ reserved \in [Children -> Rounds \union {NoRound}]
        /\ handed \in [Children -> Nat] /\ logged \in SUBSET Children /\ pulled \in SUBSET Children
    BY <2>4 DEF Init
  <2> QED
    BY <2>1, <2>2, <2>3, <2>5 DEF Memory, Memories
<1>5. ASSUME NEW c \in Children PROVE ResultOk(Memory, c) /\ ReservedKept(Memory, c)
  BY <1>2, <1>3, MemoryIs DEF ResultOk, Unrecorded, Kept, HandedMarked, InboundLogged,
                              MessageRouted, ReservedKept, HasMessage, Alive
<1>6. ASSUME NEW r \in Rounds
      PROVE  RoundOk(Memory, r) /\ JoinOk(Memory, r) /\ (Memory.join[r].open => Waits(Memory, r))
  BY <1>2, MemoryIs DEF RoundOk, JoinOk, Born
<1>7. ASSUME NEW r \in Rounds, NEW c \in Children
      PROVE  CarriedOk(Memory, r, c) /\ CollectedOk(Memory, r, c) /\ PendingOk(Memory, r, c)
  BY <1>2, MemoryIs DEF CarriedOk, CollectedOk, PendingOk
<1>8. OneCarrier(Memory) /\ OneCollector(Memory)
  BY <1>2, MemoryIs DEF OneCarrier, OneCollector
<1>9. Room(Memory)
  <2>1. OfUsers(Memory) = {}
    BY <1>2, MemoryIs DEF OfUsers
  <2> QED
    BY <2>1, FS_EmptySet, BoundsAssumption DEF Room
<1> QED
  BY <1>4, <1>5, <1>6, <1>7, <1>8, <1>9 DEF Good

LEMMA GoodStays ==
    ASSUME IInv, [Next]_vars
    PROVE  IInv'
<1>1. Good(Memory', NoRound, NoChild)
  BY NextSteps DEF Steps
<1> QED
  BY <1>1 DEF IInv

LEMMA AlwaysGood == Spec => []IInv
<1>1. IInv /\ [Next]_vars => IInv'
  BY GoodStays
<1> QED
  BY InitGood, <1>1, PTL DEF Spec

LEMMA GoodIsTyped == IInv => TypeOK
<1> SUFFICES ASSUME IInv PROVE TypeOK
  OBVIOUS
<1>1. /\ round \in [Rounds -> RoundRecord] /\ child \in [Children -> ChildRecord]
      /\ record \in [Children -> ResultRecord] /\ reserved \in [Children -> Rounds \union {NoRound}]
      /\ join \in [Rounds -> JoinRecord] /\ logged \in SUBSET Children
      /\ handed \in [Children -> Nat] /\ pulled \in SUBSET Children
  BY MemoryIs DEF IInv, Good, Memories
<1>2. \A c \in Children : record[c].heldFor = NoRound <=> record[c].hold = ""
  BY MemoryIs DEF IInv, Good, ResultOk, Kept
<1> QED
  BY <1>1, <1>2 DEF TypeOK, RoundRecord, RoundStates, ChildRecord, ResultRecord, JoinRecord

\* The ledger, its joins and the rounds always have their types, and a result has a
\* holder exactly when there is a reason to keep it (AsyncDispatchRegistry, _Settled).
THEOREM Typed == Spec => []TypeOK
BY AlwaysGood, GoodIsTyped, PTL

LEMMA GoodHandsOnce == IInv => HandedOnce
<1> SUFFICES ASSUME IInv, NEW c \in Children PROVE handed[c] <= 1
  BY DEF HandedOnce
<1>1. handed[c] \in Nat /\ (handed[c] # 0 => handed[c] = 1)
  BY MemoryIs DEF IInv, Good, Memories, ResultOk, HandedMarked
<1> QED
  BY <1>1

\* Whatever joins, holds, withdrawals, cancels and repeated routes a result goes
\* through, a model is handed it in full at most once (settle_locked,
\* _withdraw_from_callback_locked, _unreturned_join_results).
THEOREM ResultsAreHandedOnce == Spec => []HandedOnce
BY AlwaysGood, GoodHandsOnce, PTL

LEMMA GoodKeepsPromises == IInv => PromisesHold
<1> SUFFICES ASSUME IInv PROVE JoinsWait /\ HeldIsUndelivered
  BY DEF PromisesHold
<1>1. Good(Memory, NoRound, NoChild)
  BY DEF IInv
<1>2. JoinsWait
  <2>1. ASSUME NEW r \in Rounds, join[r].open
        PROVE  /\ round[r].st = "awaiting" /\ ~Satisfied(join[r])
               /\ \A c \in join[r].pending : ~record[c].known => reserved[c] = r
    <3>1. Waits(Memory, r)
      BY <1>1, <2>1, MemoryIs, RoundsAreFinite DEF Good
    <3>2. join[r].pending \in SUBSET Children
      BY <1>1, MemoryIs DEF Good, Memories, JoinRecord
    <3>3. \A c \in Children : PendingOk(Memory, r, c)
      BY <1>1, RoundsAreFinite DEF Good
    <3> QED
      BY <3>1, <3>2, <3>3, MemoryIs DEF Waits, PendingOk
  <2> QED
    BY <2>1 DEF JoinsWait
<1>3. HeldIsUndelivered
  <2>1. ASSUME NEW c \in Children, record[c].heldFor # NoRound
        PROVE  /\ record[c].delivered = "" /\ handed[c] = 0
               /\ \A r \in Rounds : c \in round[r].carries => round[r].withdrawn
    <3>1. ResultOk(Memory, c) /\ \A r \in Rounds : CarriedOk(Memory, r, c)
      BY <1>1 DEF Good
    <3>2. record[c].delivered = ""
      BY <2>1, <3>1, MemoryIs DEF ResultOk, Kept
    <3>3. handed[c] = 0
      BY <3>1, <3>2, MemoryIs DEF ResultOk, HandedMarked
    <3> QED
      BY <3>1, <3>2, <3>3, MemoryIs DEF CarriedOk
  <2> QED
    BY <2>1 DEF HeldIsUndelivered
<1> QED
  BY <1>2, <1>3

\* Whoever waits for a result, a suspended round with its join or a task a result is
\* kept for, is the only one that will get it (route_await_locked, settle_locked,
\* _inject_dispatch_result_via_origin_locked).
THEOREM PromisesAreKept == Spec => []PromisesHold
BY AlwaysGood, GoodKeepsPromises, PTL

Stays == \A c \in Children, w \in Rounds :
            reserved[c] = w /\ Alive(Memory, w) /\ Alive(Memory, w)' =>
               \A r \in Rounds : c \in round'[r].carries => c \in round[r].carries

LEMMA GoodStaysHome ==
    ASSUME IInv, [Next]_vars
    PROVE  Stays
<1>1. Onward(Memory, Memory')
  BY NextSteps DEF Steps
<1>2. (Memory').round = round'
  BY DEF Memory
<1> QED
  BY <1>1, <1>2, MemoryIs DEF Stays, Onward, Bound

\* The result of a child that a task awaited never becomes a round of its own while
\* that task lives on (settle_locked, _hand_back_locked, release_if_ended_locked).
THEOREM AwaitedStayHome == Spec => AwaitedStaysHome
<1>1. IInv /\ [Next]_vars => [Stays]_vars
  BY GoodStaysHome
<1> QED
  BY AlwaysGood, <1>1, PTL DEF Spec, AwaitedStaysHome, Stays
=============================================================================
