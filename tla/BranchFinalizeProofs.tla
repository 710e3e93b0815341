------------------------ MODULE BranchFinalizeProofs ------------------------
(* For every set of messages and supervisors, and every number of pushes and *)
(* restarts: the merge is exact, and BranchFinalize implements BranchMerge.   *)
EXTENDS BranchFinalize, FiniteSetTheorems, TLAPS

(* Whoever has merged, or acts on a receipt of the merge. *)
Merged == {"merged", "indexed", "held", "sent", "route", "plainSent"}

LockHeld == \A s \in Supervisors : pc[s] \in {"locked", "appended"} => lock = s

LoadedIsFresh ==
    \A s \in Supervisors : pc[s] = "locked" => missing[s] = MissingFromParent

AppendedIsAll ==
    \A s \in Supervisors : pc[s] = "appended" => \A m \in branch : parent[m] = 1

MergedIsPurged == \A s \in Supervisors : pc[s] \in Merged => branch = {}

RepliedIsPurged == replies > 0 => branch = {}

BInv ==
    /\ TypeOK
    /\ LockHeld
    /\ LoadedIsFresh
    /\ AppendedIsAll
    /\ MergedIsPurged
    /\ RepliedIsPurged
    /\ ForgottenOnlyWhenMerged
    /\ MergeIsExact

-----------------------------------------------------------------------------
(* A step that touches no file: only one thread moves, and it does not enter  *)
(* the locked section.                                                        *)
LEMMA ElsewherePreserves ==
    ASSUME BInv, TypeOK', NEW s \in Supervisors, NEW place \in Places,
           Goes(s, place), place \notin {"locked", "appended"},
           place \in Merged => branch = {},
           UNCHANGED <<parent, branch>>,
           \A t \in Supervisors : t # s => missing'[t] = missing[t],
           lock' = lock \/ (lock = s /\ lock' = NoOne),
           replies' = replies \/ branch = {},
           (indexed' \/ log'.finalized \/ row'.status = "completed"
              \/ \E t \in Supervisors : mine'[t].finalized)
           => \/ branch = {}
              \/ indexed \/ log.finalized \/ row.status = "completed"
              \/ \E t \in Supervisors : mine[t].finalized
    PROVE  BInv'
<1>1. \A t \in Supervisors : pc'[t] = IF t = s THEN place ELSE pc[t]
  BY DEF Goes, BInv, TypeOK
<1>2. \A t \in Supervisors : pc'[t] \in {"locked", "appended"} =>
         t # s /\ pc'[t] = pc[t] /\ lock = t
  BY <1>1 DEF BInv, LockHeld
<1>3. LockHeld'
  BY <1>2 DEF LockHeld
<1>4. MissingFromParent' = MissingFromParent
  BY DEF MissingFromParent
<1>5. LoadedIsFresh'
  BY <1>2, <1>4 DEF BInv, LoadedIsFresh
<1>6. AppendedIsAll'
  BY <1>2 DEF BInv, AppendedIsAll
<1>7. MergedIsPurged'
  BY <1>1 DEF BInv, MergedIsPurged
<1>8. RepliedIsPurged' /\ MergeIsExact'
  BY DEF BInv, RepliedIsPurged, MergeIsExact
<1>9. ForgottenOnlyWhenMerged'
  BY DEF BInv, ForgottenOnlyWhenMerged
<1>10. QED
  BY <1>3, <1>5, <1>6, <1>7, <1>8, <1>9 DEF BInv

Rows == [status: {"none", "started", "failed", "completed"}, fence: Nat,
         leased: BOOLEAN, dead: BOOLEAN]

LEMMA TakenType == ASSUME TypeOK PROVE Taken \in Rows
<1>1. row.fence + 1 \in Nat
  BY DEF TypeOK
<1>2. QED
  BY <1>1 DEF Taken, Rows

(* Every step keeps the types. *)
LEMMA TypeStep ==
    ASSUME TypeOK, Next
    PROVE  TypeOK'
<1> USE FlagsAssumption DEF disk, counters, runs, Goes, Task, Gaps
<1>1. ASSUME NEW s \in Supervisors, Push(s) PROVE TypeOK'
  BY <1>1 DEF TypeOK, Push, Places
<1>2. ASSUME NEW s \in Supervisors, Begin(s) PROVE TypeOK'
  BY <1>2 DEF TypeOK, Begin, Places
<1>3. ASSUME NEW s \in Supervisors, Claim(s) PROVE TypeOK'
  <2>1. row.fence + 1 \in Nat
    BY DEF TypeOK
  <2>2. pc' \in [Supervisors -> Places]
    BY <1>3 DEF TypeOK, Claim, Places, Fenced
  <2>3. claim' \in [Supervisors -> Nat]
    BY <1>3, <2>1 DEF TypeOK, Claim
  <2>4. row' \in Rows
    BY <1>3, TakenType DEF TypeOK, Claim, Rows
  <2>5. gaps' \in SUBSET Gaps
    BY <1>3 DEF TypeOK, Claim
  <2>6. QED
    BY <1>3, <2>2, <2>3, <2>4, <2>5 DEF TypeOK, Claim, Rows
<1>4. ASSUME NEW s \in Supervisors, Heartbeat(s) PROVE TypeOK'
  BY <1>4 DEF TypeOK, Heartbeat
<1>5. CASE LeaseLapses
  BY <1>5 DEF TypeOK, LeaseLapses
<1>6. ASSUME NEW s \in Supervisors, Load(s) PROVE TypeOK'
  <2>1. MissingFromParent \in SUBSET Messages
    BY DEF TypeOK, MissingFromParent
  <2>2. QED
    BY <1>6, <2>1 DEF TypeOK, Load, Places, Fenced
<1>7. ASSUME NEW s \in Supervisors, Append(s) PROVE TypeOK'
  BY <1>7 DEF TypeOK, Append, Places, Fenced
<1>8. ASSUME NEW s \in Supervisors, Purge(s) PROVE TypeOK'
  BY <1>8 DEF TypeOK, Purge, Places, Fenced
<1>9. ASSUME NEW s \in Supervisors, CommitIndexes(s) PROVE TypeOK'
  BY <1>9 DEF TypeOK, CommitIndexes, Places, Fenced
<1>10. ASSUME NEW s \in Supervisors, PersistReceipt(s) PROVE TypeOK'
  BY <1>10 DEF TypeOK, PersistReceipt, Snapshot, Places, Fenced
<1>11. ASSUME NEW s \in Supervisors, FencedSend(s) PROVE TypeOK'
  BY <1>11 DEF TypeOK, FencedSend, SendReply, Places, Fenced
<1>12. ASSUME NEW s \in Supervisors, FencedComplete(s) PROVE TypeOK'
  BY <1>12 DEF TypeOK, FencedComplete, Snapshot, Places
<1>13. ASSUME NEW s \in Supervisors, PlainSend(s) PROVE TypeOK'
  BY <1>13 DEF TypeOK, PlainSend, SendReply, Places
<1>14. ASSUME NEW s \in Supervisors, PlainRouted(s) PROVE TypeOK'
  BY <1>14 DEF TypeOK, PlainRouted, Snapshot, Places
<1>15. ASSUME NEW s \in Supervisors, Raises(s) PROVE TypeOK'
  BY <1>15 DEF TypeOK, Raises, Places
<1>16. ASSUME NEW s \in Supervisors, FenceLost(s) PROVE TypeOK'
  BY <1>16 DEF TypeOK, FenceLost, Places
<1>17. ASSUME NEW s \in Supervisors, RouteRaises(s) PROVE TypeOK'
  <2>1. PICK place \in {"routeRaise", "idle"} :
           Goes(s, place) /\ (writer' = writer \/ writer' = NoOne)
    BY <1>17 DEF RouteRaises
  <2>2. Snapshot(s, [mine[s] EXCEPT !.route = "failed"])
        /\ UNCHANGED <<row, lock, parent, branch, indexed, replies, claim, missing, seen, pushes, crashes>>
        /\ gaps' \in SUBSET Gaps
    BY <1>17 DEF RouteRaises, TypeOK
  <2>3. mine' \in [Supervisors -> Task] /\ log' \in Task
    BY <2>2 DEF TypeOK, Snapshot
  <2>4. pc' \in [Supervisors -> Places] /\ writer' \in Supervisors \union {NoOne}
    BY <2>1 DEF TypeOK, Places
  <2>5. QED
    BY <2>2, <2>3, <2>4 DEF TypeOK
<1>18. ASSUME NEW s \in Supervisors, FailClaim(s) PROVE TypeOK'
  <2>1. row' \in {row, [row EXCEPT !.status = "failed", !.leased = FALSE]}
    BY <1>18 DEF FailClaim
  <2>2. /\ mine' \in {mine, [mine EXCEPT ![s] = [mine[s] EXCEPT !.route = "failed"]]}
        /\ log' \in {log, [mine[s] EXCEPT !.route = "failed"]}
    BY <1>18 DEF FailClaim, Snapshot
  <2>a. [mine[s] EXCEPT !.route = "failed"] \in Task /\ mine \in [Supervisors -> Task] /\ log \in Task
    BY DEF TypeOK
  <2> HIDE DEF Task
  <2>3. mine' \in [Supervisors -> Task] /\ log' \in Task
    BY <2>2, <2>a
  <2>4. pc' \in [Supervisors -> Places] /\ claim' \in [Supervisors -> Nat]
    BY <1>18 DEF TypeOK, FailClaim, Places
  <2>5. row' \in [status: {"none", "started", "failed", "completed"}, fence: Nat,
                  leased: BOOLEAN, dead: BOOLEAN]
    BY <2>1 DEF TypeOK
  <2>6. QED
    BY <1>18, <2>3, <2>4, <2>5 DEF TypeOK, FailClaim
<1>19. ASSUME NEW s \in Supervisors, Crash(s) PROVE TypeOK'
  <2>1. parent' \in [Messages -> Nat]
    <3>1. PICK torn \in SUBSET missing[s] :
             \/ parent' = [m \in Messages |-> IF m \in torn THEN parent[m] + 1 ELSE parent[m]]
             \/ parent' = parent
      BY <1>19 DEF Crash
    <3>2. QED
      BY <3>1 DEF TypeOK
  <2>2. row' \in [status: {"none", "started", "failed", "completed"}, fence: Nat,
                  leased: BOOLEAN, dead: BOOLEAN]
    <3>1. PICK gone \in BOOLEAN :
             row' = [row EXCEPT !.dead = @ \/ (gone /\ claim[s] # 0 /\ IsOwner(s))]
      BY <1>19 DEF Crash
    <3> DEFINE dead == row.dead \/ (gone /\ claim[s] # 0 /\ IsOwner(s))
    <3>2. row' = [row EXCEPT !.dead = dead] /\ dead \in BOOLEAN
      BY <3>1 DEF TypeOK, IsOwner
    <3> HIDE DEF dead
    <3>3. QED
      BY <3>2 DEF TypeOK
  <2>3. QED
    BY <1>19, <2>1, <2>2 DEF TypeOK, Crash, Places
<1>20. ASSUME NEW s \in Supervisors, Boot(s) PROVE TypeOK'
  BY <1>20 DEF TypeOK, Boot, Places
<1>21. ASSUME NEW s \in Supervisors, PrepareRaises(s) PROVE TypeOK'
  BY <1>21 DEF TypeOK, PrepareRaises, Places
<1>22. ASSUME NEW s \in Supervisors, ClaimRaises(s) PROVE TypeOK'
  <2>1. row' \in Rows
    BY <1>22, TakenType DEF TypeOK, ClaimRaises, Rows
  <2>2. QED
    BY <1>22, <2>1 DEF TypeOK, ClaimRaises, Places, Rows
<1>23. ASSUME NEW s \in Supervisors, FailRaises(s) PROVE TypeOK'
  <2>1. row' \in {row, [row EXCEPT !.status = "failed", !.leased = FALSE]}
    BY <1>23 DEF FailRaises
  <2>2. row' \in Rows
    BY <2>1 DEF TypeOK, Rows
  <2>3. pc' \in [Supervisors -> Places] /\ claim' \in [Supervisors -> Nat]
    BY <1>23 DEF TypeOK, FailRaises, Places
  <2>4. QED
    BY <1>23, <2>2, <2>3 DEF TypeOK, FailRaises, Rows
<1>24. QED
  BY <1>1, <1>2, <1>3, <1>4, <1>5, <1>6, <1>7, <1>8, <1>9, <1>10, <1>11, <1>12, <1>13, <1>14,
     <1>15, <1>16, <1>17, <1>18, <1>19, <1>20, <1>21, <1>22, <1>23 DEF Next, Work

(* The steps on files. *)
LEMMA LoadPreserves ==
    ASSUME BInv, TypeOK', NEW s \in Supervisors, Load(s)
    PROVE  BInv'
<1>1. /\ pc[s] = "owned" /\ lock = NoOne /\ lock' = s
      /\ missing' = [missing EXCEPT ![s] = MissingFromParent]
      /\ pc' = [pc EXCEPT ![s] = "locked"]
      /\ UNCHANGED <<row, parent, branch, indexed, replies, log, mine>>
  BY DEF Load, Goes, At, disk
<1>2. \A t \in Supervisors : pc'[t] = IF t = s THEN "locked" ELSE pc[t]
  BY <1>1 DEF BInv, TypeOK
<1>3. \A t \in Supervisors : pc[t] \notin {"locked", "appended"}
  BY <1>1, NoOneAssumption DEF BInv, LockHeld
<1>4. missing'[s] = MissingFromParent /\ MissingFromParent' = MissingFromParent
  BY <1>1 DEF BInv, TypeOK, MissingFromParent
<1>5. LockHeld' /\ LoadedIsFresh' /\ AppendedIsAll'
  BY <1>1, <1>2, <1>3, <1>4 DEF LockHeld, LoadedIsFresh, AppendedIsAll
<1>6. MergedIsPurged'
  BY <1>1, <1>2 DEF BInv, MergedIsPurged, Merged
<1>7. RepliedIsPurged' /\ ForgottenOnlyWhenMerged' /\ MergeIsExact'
  BY <1>1 DEF BInv, RepliedIsPurged, ForgottenOnlyWhenMerged, MergeIsExact
<1>8. QED
  BY <1>5, <1>6, <1>7 DEF BInv

LEMMA AppendPreserves ==
    ASSUME BInv, TypeOK', NEW s \in Supervisors, Append(s)
    PROVE  BInv'
<1>1. /\ pc[s] = "locked"
      /\ parent' = [m \in Messages |-> IF m \in missing[s] THEN parent[m] + 1 ELSE parent[m]]
      /\ pc' = [pc EXCEPT ![s] = "appended"]
      /\ UNCHANGED <<row, lock, branch, indexed, replies, log, missing, mine>>
  BY DEF Append, Goes, At
<1>2. \A t \in Supervisors : pc'[t] = IF t = s THEN "appended" ELSE pc[t]
  BY <1>1 DEF BInv, TypeOK
<1>3. lock = s /\ missing[s] = {m \in branch : parent[m] = 0}
  BY <1>1 DEF BInv, LockHeld, LoadedIsFresh, MissingFromParent
<1>4. \A m \in Messages : /\ parent[m] \in Nat /\ parent[m] <= 1
                          /\ parent'[m] = IF m \in missing[s] THEN parent[m] + 1 ELSE parent[m]
  BY <1>1 DEF BInv, TypeOK, MergeIsExact
<1>5. MergeIsExact' /\ \A m \in branch : parent'[m] = 1
  BY <1>1, <1>3, <1>4 DEF BInv, TypeOK, MergeIsExact
<1>6. \A t \in Supervisors : t # s => pc[t] \notin {"locked", "appended"}
  BY <1>3 DEF BInv, LockHeld
<1>7. LockHeld' /\ LoadedIsFresh' /\ AppendedIsAll'
  BY <1>1, <1>2, <1>3, <1>5, <1>6 DEF LockHeld, LoadedIsFresh, AppendedIsAll
<1>8. MergedIsPurged'
  BY <1>1, <1>2 DEF BInv, MergedIsPurged, Merged
<1>9. RepliedIsPurged' /\ ForgottenOnlyWhenMerged'
  BY <1>1 DEF BInv, RepliedIsPurged, ForgottenOnlyWhenMerged
<1>10. QED
  BY <1>5, <1>7, <1>8, <1>9 DEF BInv

LEMMA PurgePreserves ==
    ASSUME BInv, TypeOK', NEW s \in Supervisors, Purge(s)
    PROVE  BInv'
<1>1. /\ pc[s] = "appended" /\ branch' = {}
      /\ missing' = [missing EXCEPT ![s] = {}]
      /\ pc' = [pc EXCEPT ![s] = "merged"]
      /\ UNCHANGED parent
  BY DEF Purge, Goes, At
<1>2. \A t \in Supervisors : pc'[t] = IF t = s THEN "merged" ELSE pc[t]
  BY <1>1 DEF BInv, TypeOK
<1>3. lock = s /\ \A m \in branch : parent[m] = 1
  BY <1>1 DEF BInv, LockHeld, AppendedIsAll
<1>4. \A t \in Supervisors : t # s => pc[t] \notin {"locked", "appended"}
  BY <1>3 DEF BInv, LockHeld
<1>5. \A t \in Supervisors : pc'[t] \notin {"locked", "appended"}
  BY <1>2, <1>4
<1>6. LockHeld' /\ LoadedIsFresh' /\ AppendedIsAll'
  BY <1>5 DEF LockHeld, LoadedIsFresh, AppendedIsAll
<1>7. MergedIsPurged' /\ RepliedIsPurged' /\ ForgottenOnlyWhenMerged'
  BY <1>1 DEF MergedIsPurged, RepliedIsPurged, ForgottenOnlyWhenMerged
<1>8. MergeIsExact'
  BY <1>1, <1>3 DEF BInv, MergeIsExact
<1>9. QED
  BY <1>6, <1>7, <1>8 DEF BInv

LEMMA CrashPreserves ==
    ASSUME BInv, TypeOK', NEW s \in Supervisors, Crash(s)
    PROVE  BInv'
<1>1. /\ lock' = IF lock = s THEN NoOne ELSE lock
      /\ missing' = [missing EXCEPT ![s] = {}]
      /\ pc' = [pc EXCEPT ![s] = "down"]
      /\ UNCHANGED <<branch, indexed, replies, log, mine>>
      /\ row'.status = row.status
  BY DEF Crash, Goes, BInv, TypeOK
<1>2. \A t \in Supervisors : pc'[t] = IF t = s THEN "down" ELSE pc[t]
  BY <1>1 DEF BInv, TypeOK
<1>3. CASE pc[s] = "locked"
  <2>1. PICK torn \in SUBSET missing[s] :
           parent' = [m \in Messages |-> IF m \in torn THEN parent[m] + 1 ELSE parent[m]]
    BY <1>3 DEF Crash, At
  <2>2. lock = s /\ missing[s] = {m \in branch : parent[m] = 0}
    BY <1>3 DEF BInv, LockHeld, LoadedIsFresh, MissingFromParent
  <2>3. \A m \in Messages : /\ parent[m] \in Nat /\ parent[m] <= 1
                            /\ parent'[m] = IF m \in torn THEN parent[m] + 1 ELSE parent[m]
    BY <2>1 DEF BInv, TypeOK, MergeIsExact
  <2>4. MergeIsExact'
    BY <1>1, <2>2, <2>3 DEF BInv, TypeOK, MergeIsExact
  <2>5. \A t \in Supervisors : pc'[t] \notin {"locked", "appended"}
    BY <1>2, <2>2 DEF BInv, LockHeld
  <2>6. LockHeld' /\ LoadedIsFresh' /\ AppendedIsAll'
    BY <2>5 DEF LockHeld, LoadedIsFresh, AppendedIsAll
  <2>7. MergedIsPurged'
    BY <1>1, <1>2 DEF BInv, MergedIsPurged, Merged
  <2>8. RepliedIsPurged' /\ ForgottenOnlyWhenMerged'
    BY <1>1 DEF BInv, RepliedIsPurged, ForgottenOnlyWhenMerged
  <2>9. QED
    BY <2>4, <2>6, <2>7, <2>8 DEF BInv
<1>4. CASE pc[s] # "locked"
  <2>1. UNCHANGED parent
    BY <1>4 DEF Crash, At
  <2>2. \A t \in Supervisors : t # s => missing'[t] = missing[t]
    BY <1>1 DEF BInv, TypeOK
  <2>3. "down" \in Places /\ "down" \notin Merged /\ "down" \notin {"locked", "appended"}
    BY DEF Places, Merged
  <2>4. lock' = lock \/ (lock = s /\ lock' = NoOne)
    BY <1>1
  <2>5. QED
    BY <1>1, <2>1, <2>2, <2>3, <2>4, ElsewherePreserves DEF Goes
<1>5. QED
  BY <1>3, <1>4

LEMMA WorkPreserves ==
    ASSUME BInv, TypeOK', NEW s \in Supervisors, Work(s)
    PROVE  BInv'
<1> USE DEF disk, counters, runs, At
<1>0. /\ \A place \in {"idle", "raise", "routeRaise", "claim", "owned", "begin"} :
             place \in Places /\ place \notin Merged /\ place \notin {"locked", "appended"}
      /\ \A place \in Merged : place \in Places /\ place \notin {"locked", "appended"}
      /\ \A place \in Places : pc[s] = place /\ place \in Merged => branch = {}
  BY DEF Places, Merged, Fenced, BInv, MergedIsPurged
<1>1. CASE Begin(s)
  <2>1. mine[s].finalized => branch = {}
    BY DEF BInv, ForgottenOnlyWhenMerged
  <2>2. PICK place \in {"route", "claim"} : Goes(s, place) /\ (place = "route" => branch = {})
    BY <1>1, <2>1 DEF Begin
  <2>3. place \in Places /\ place \notin {"locked", "appended"} /\ (place \in Merged => branch = {})
    BY <2>2 DEF Places, Merged
  <2>4. QED
    BY <1>1, <2>2, <2>3, ElsewherePreserves DEF Begin
<1>2. CASE Claim(s)
  <2>1. PICK place \in {"owned", "idle"} : Goes(s, place)
    BY <1>2 DEF Claim
  <2>2. row'.status = "completed" => row.status = "completed"
    BY <1>2 DEF Claim, Taken
  <2>3. QED
    BY <1>0, <1>2, <2>1, <2>2, ElsewherePreserves DEF Claim
<1>3. CASE Load(s)
  BY <1>3, LoadPreserves
<1>4. CASE Append(s)
  BY <1>4, AppendPreserves
<1>5. CASE Purge(s)
  BY <1>5, PurgePreserves
<1>6. CASE CommitIndexes(s)
  <2>1. branch = {} /\ "indexed" \in Merged
    BY <1>6 DEF CommitIndexes, BInv, MergedIsPurged, Merged
  <2>2. QED
    BY <1>0, <1>6, <2>1, ElsewherePreserves DEF CommitIndexes
<1>7. CASE PersistReceipt(s)
  <2>1. branch = {} /\ "held" \in Merged
    BY <1>7 DEF PersistReceipt, BInv, MergedIsPurged, Merged
  <2>2. QED
    BY <1>0, <1>7, <2>1, ElsewherePreserves DEF PersistReceipt
<1>8. CASE FencedSend(s)
  <2>1. branch = {} /\ "sent" \in Merged
    BY <1>8 DEF FencedSend, BInv, MergedIsPurged, Merged
  <2>2. QED
    BY <1>0, <1>8, <2>1, ElsewherePreserves DEF FencedSend
<1>9. CASE FencedComplete(s)
  <2>1. branch = {}
    BY <1>9 DEF FencedComplete, BInv, MergedIsPurged, Merged
  <2>2. QED
    BY <1>0, <1>9, <2>1, ElsewherePreserves DEF FencedComplete
<1>10. CASE PlainSend(s)
  <2>1. branch = {} /\ "plainSent" \in Merged
    BY <1>10 DEF PlainSend, BInv, MergedIsPurged, Merged
  <2>2. QED
    BY <1>0, <1>10, <2>1, ElsewherePreserves DEF PlainSend
<1>11. CASE PlainRouted(s)
  <2>1. branch = {}
    BY <1>11 DEF PlainRouted, BInv, MergedIsPurged, Merged
  <2>2. QED
    BY <1>0, <1>11, <2>1, ElsewherePreserves DEF PlainRouted
<1>12. CASE Raises(s)
  <2>1. \A t \in Supervisors : t # s => missing'[t] = missing[t]
    BY <1>12 DEF Raises, BInv, TypeOK
  <2>2. lock' = lock \/ (lock = s /\ lock' = NoOne)
    BY <1>12 DEF Raises
  <2>3. QED
    BY <1>0, <1>12, <2>1, <2>2, ElsewherePreserves DEF Raises
<1>13. CASE FenceLost(s)
  BY <1>0, <1>13, ElsewherePreserves DEF FenceLost
<1>14. CASE RouteRaises(s)
  <2>1. PICK place \in {"routeRaise", "idle"} : Goes(s, place)
    BY <1>14 DEF RouteRaises
  <2>2. branch = {}
    BY <1>14 DEF RouteRaises, BInv, MergedIsPurged, Merged
  <2>3. QED
    BY <1>0, <1>14, <2>1, <2>2, ElsewherePreserves DEF RouteRaises
<1>15. CASE FailClaim(s)
  <2>1. row'.status = "completed" => row.status = "completed"
    BY <1>15 DEF FailClaim, BInv, TypeOK
  <2>2. log'.finalized \/ (\E t \in Supervisors : mine'[t].finalized) =>
           log.finalized \/ (\E t \in Supervisors : mine[t].finalized)
    <3>1. CASE UNCHANGED <<mine, log>>
      BY <3>1
    <3>2. CASE Snapshot(s, [mine[s] EXCEPT !.route = "failed"])
      <4>1. [mine[s] EXCEPT !.route = "failed"].finalized = mine[s].finalized
        BY DEF BInv, TypeOK, Task
      <4>2. QED
        BY <3>2, <4>1 DEF Snapshot, BInv, TypeOK
    <3>3. QED
      BY <1>15, <3>1, <3>2 DEF FailClaim
  <2>3. QED
    BY <1>0, <1>15, <2>1, <2>2, ElsewherePreserves DEF FailClaim
<1>16. CASE PrepareRaises(s)
  BY <1>0, <1>16, ElsewherePreserves DEF PrepareRaises
<1>17. CASE ClaimRaises(s)
  <2>1. row'.status = "completed" => row.status = "completed"
    BY <1>17 DEF ClaimRaises, Taken
  <2>2. QED
    BY <1>0, <1>17, <2>1, ElsewherePreserves DEF ClaimRaises
<1>18. CASE FailRaises(s)
  <2>1. row'.status = "completed" => row.status = "completed"
    BY <1>18 DEF FailRaises, BInv, TypeOK
  <2>2. QED
    BY <1>0, <1>18, <2>1, ElsewherePreserves DEF FailRaises
<1>19. QED
  BY <1>1, <1>2, <1>3, <1>4, <1>5, <1>6, <1>7, <1>8, <1>9, <1>10, <1>11, <1>12, <1>13, <1>14, <1>15,
     <1>16, <1>17, <1>18 DEF Work

LEMMA NextPreserves ==
    ASSUME BInv, [Next]_vars
    PROVE  BInv'
<1> USE DEF disk, counters, runs, At
<1>1. CASE UNCHANGED vars
  BY <1>1 DEF vars, BInv, TypeOK, LockHeld, LoadedIsFresh, AppendedIsAll, MergedIsPurged, RepliedIsPurged,
              ForgottenOnlyWhenMerged, MergeIsExact, MissingFromParent
<1>2. CASE Next
  <2>0. TypeOK'
    BY <1>2, TypeStep DEF BInv
  <2>1. ASSUME NEW s \in Supervisors, Push(s) PROVE BInv'
    <3>1. "begin" \in Places /\ "begin" \notin Merged
      BY DEF Places, Merged
    <3>2. QED
      BY <2>0, <2>1, <3>1, ElsewherePreserves DEF Push
  <2>2. ASSUME NEW s \in Supervisors, Work(s) PROVE BInv'
    BY <2>0, <2>2, WorkPreserves
  <2>3. ASSUME UNCHANGED <<lock, disk, replies, log, pc, missing, mine>>, row'.status = row.status
        PROVE  BInv'
    BY <2>0, <2>3 DEF BInv, LockHeld, LoadedIsFresh, AppendedIsAll, MergedIsPurged, RepliedIsPurged,
                      ForgottenOnlyWhenMerged, MergeIsExact, MissingFromParent
  <2>4. ASSUME NEW s \in Supervisors, Heartbeat(s) PROVE BInv'
    BY <2>3, <2>4 DEF Heartbeat, BInv, TypeOK
  <2>5. CASE LeaseLapses
    BY <2>3, <2>5 DEF LeaseLapses, BInv, TypeOK
  <2>6. ASSUME NEW s \in Supervisors, Crash(s) PROVE BInv'
    BY <2>0, <2>6, CrashPreserves
  <2>7. ASSUME NEW s \in Supervisors, Boot(s) PROVE BInv'
    <3>1. PICK place \in {"idle", "begin"} : Goes(s, place)
      BY <2>7 DEF Boot
    <3>2. place \in Places /\ place \notin Merged /\ place \notin {"locked", "appended"}
      BY DEF Places, Merged
    <3>3. (\E t \in Supervisors : mine'[t].finalized) =>
              log.finalized \/ (\E t \in Supervisors : mine[t].finalized)
      BY <2>7 DEF Boot, BInv, TypeOK
    <3>4. QED
      BY <2>0, <2>7, <3>1, <3>2, <3>3, ElsewherePreserves DEF Boot
  <2>8. QED
    BY <1>2, <2>1, <2>2, <2>4, <2>5, <2>6, <2>7 DEF Next
<1>3. QED
  BY <1>1, <1>2

LEMMA InitHolds ==
    ASSUME Init
    PROVE  BInv
<1>1. TypeOK
  <2>1. 0 \in 0..MaxPushes /\ 0 \in 0..MaxCrashes
    BY FlagsAssumption
  <2>2. log \in Task
    BY DEF Init, Task
  <2>3. mine \in [Supervisors -> Task]
    BY <2>2 DEF Init
  <2>4. pc \in [Supervisors -> Places]
    BY DEF Init, Places
  <2>5. row \in [status: {"none", "started", "failed", "completed"}, fence: Nat,
                 leased: BOOLEAN, dead: BOOLEAN]
    BY DEF Init
  <2>6. pushes \in [Supervisors -> 0..MaxPushes] /\ crashes \in [Supervisors -> 0..MaxCrashes]
    BY <2>1 DEF Init
  <2>g. gaps \in SUBSET Gaps
    BY DEF Init
  <2>7. parent \in [Messages -> Nat] /\ branch \in SUBSET Messages /\ replies \in Nat
    BY DEF Init
  <2>8. /\ claim \in [Supervisors -> Nat]
        /\ missing \in [Supervisors -> SUBSET Messages]
        /\ seen \in [Supervisors -> BOOLEAN]
    BY DEF Init
  <2>9. /\ writer \in Supervisors \union {NoOne}
        /\ lock \in Supervisors \union {NoOne}
        /\ indexed \in BOOLEAN
    BY DEF Init
  <2>10. QED
    BY <2>2, <2>3, <2>4, <2>5, <2>6, <2>g, <2>7, <2>8, <2>9 DEF TypeOK
<1>2. ~(replies > 0)
  BY DEF Init
<1>3. QED
  BY <1>1, <1>2 DEF Init, BInv, LockHeld, LoadedIsFresh, AppendedIsAll, MergedIsPurged, RepliedIsPurged,
               ForgottenOnlyWhenMerged, MergeIsExact, Merged

(* The inductive invariant of the finalize claims holds in every reachable  *)
(* state: what Begin checks under the lock stays true until the commit.      *)
THEOREM BranchInvariant == Spec => []BInv
BY InitHolds, NextPreserves, PTL DEF Spec

(* No message of a branch is merged twice or lost, for any number of          *)
(* supervisors, stalls, crashes and torn appends.                             *)
THEOREM MergeStaysExact == Spec => []MergeIsExact
<1>1. BInv => MergeIsExact
  BY DEF BInv
<1>2. QED
  BY <1>1, BranchInvariant, PTL

(* Nothing calls the branch finalized while its file still has messages.      *)
THEOREM ForgottenStaysMerged == Spec => []ForgottenOnlyWhenMerged
<1>1. BInv => ForgottenOnlyWhenMerged
  BY DEF BInv
<1>2. QED
  BY <1>1, BranchInvariant, PTL

-----------------------------------------------------------------------------
(* The fence. *)
FenceInv == TypeOK /\ RouteInsideFence

(* A step that leaves the row, the writer and the claims alone and does not    *)
(* lead to the reply keeps the fence.                                          *)
LEMMA OutsideFence ==
    ASSUME FenceInv, NEW s \in Supervisors, NEW place, Goes(s, place), place # "sent",
           UNCHANGED <<row, writer, claim>>
    PROVE  RouteInsideFence'
BY DEF FenceInv, TypeOK, RouteInsideFence, At, Goes, IsOwner

(* No reply is being sent while nobody holds the write transaction.            *)
LEMMA NobodySends ==
    ASSUME FenceInv, writer = NoOne
    PROVE  \A t \in Supervisors : pc[t] # "sent"
BY NoOneAssumption DEF FenceInv, RouteInsideFence, At

LEMMA FenceKept ==
    ASSUME FenceInv, [Next]_vars
    PROVE  FenceInv'
<1> USE DEF disk, counters, runs, At
<1>1. CASE UNCHANGED vars
  BY <1>1 DEF vars, FenceInv, TypeOK, RouteInsideFence, IsOwner
<1>2. CASE Next
  <2>0. TypeOK'
    BY <1>2, TypeStep DEF FenceInv
  <2>1. ASSUME NEW s \in Supervisors, Push(s) PROVE RouteInsideFence'
    BY <2>1, OutsideFence DEF Push
  <2>2. ASSUME NEW s \in Supervisors, Begin(s) PROVE RouteInsideFence'
    BY <2>2, OutsideFence DEF Begin
  <2>3. ASSUME NEW s \in Supervisors, Claim(s) PROVE RouteInsideFence'
    <3>1. \A t \in Supervisors : pc[t] # "sent"
      BY <2>3, NobodySends DEF Claim
    <3>2. \A t \in Supervisors : pc'[t] # "sent"
      BY <2>3, <3>1 DEF Claim, Goes, FenceInv, TypeOK
    <3>3. QED
      BY <3>2 DEF RouteInsideFence
  <2>4. ASSUME NEW s \in Supervisors, Heartbeat(s) PROVE RouteInsideFence'
    BY <2>4, FlagsAssumption DEF Heartbeat, FenceInv, TypeOK, RouteInsideFence, IsOwner
  <2>5. CASE LeaseLapses
    BY <2>5 DEF LeaseLapses, FenceInv, TypeOK, RouteInsideFence, IsOwner
  <2>6. ASSUME NEW s \in Supervisors, Load(s) PROVE RouteInsideFence'
    BY <2>6, OutsideFence DEF Load
  <2>7. ASSUME NEW s \in Supervisors, Append(s) PROVE RouteInsideFence'
    BY <2>7, OutsideFence DEF Append
  <2>8. ASSUME NEW s \in Supervisors, Purge(s) PROVE RouteInsideFence'
    BY <2>8, OutsideFence DEF Purge
  <2>9. ASSUME NEW s \in Supervisors, CommitIndexes(s) PROVE RouteInsideFence'
    BY <2>9, OutsideFence DEF CommitIndexes
  <2>10. ASSUME NEW s \in Supervisors, PersistReceipt(s) PROVE RouteInsideFence'
    BY <2>10, OutsideFence DEF PersistReceipt
  <2>11. ASSUME NEW s \in Supervisors, FencedSend(s) PROVE RouteInsideFence'
    <3>1. \A t \in Supervisors : pc[t] # "sent"
      BY <2>11, NobodySends DEF FencedSend
    <3>2. \A t \in Supervisors : pc'[t] = "sent" => t = s
      BY <2>11, <3>1 DEF FencedSend, Goes, FenceInv, TypeOK
    <3>3. QED
      BY <2>11, <3>2 DEF FencedSend, RouteInsideFence, IsOwner
  <2>12. ASSUME NEW s \in Supervisors, FencedComplete(s) PROVE RouteInsideFence'
    BY <2>12 DEF FencedComplete, FenceInv, TypeOK, RouteInsideFence, Goes, IsOwner
  <2>13. ASSUME NEW s \in Supervisors, PlainSend(s) PROVE RouteInsideFence'
    BY <2>13, OutsideFence DEF PlainSend
  <2>14. ASSUME NEW s \in Supervisors, PlainRouted(s) PROVE RouteInsideFence'
    BY <2>14, OutsideFence DEF PlainRouted
  <2>15. ASSUME NEW s \in Supervisors, Raises(s) PROVE RouteInsideFence'
    BY <2>15, OutsideFence DEF Raises
  <2>16. ASSUME NEW s \in Supervisors, FenceLost(s) PROVE RouteInsideFence'
    BY <2>16, OutsideFence DEF FenceLost
  <2>17. ASSUME NEW s \in Supervisors, RouteRaises(s) PROVE RouteInsideFence'
    BY <2>17 DEF RouteRaises, FenceInv, TypeOK, RouteInsideFence, Goes, IsOwner
  <2>18. ASSUME NEW s \in Supervisors, FailClaim(s) PROVE RouteInsideFence'
    <3>1. \A t \in Supervisors : pc[t] # "sent"
      BY <2>18, NobodySends DEF FailClaim
    <3>2. \A t \in Supervisors : pc'[t] # "sent"
      BY <2>18, <3>1 DEF FailClaim, Goes, FenceInv, TypeOK
    <3>3. QED
      BY <3>2 DEF RouteInsideFence
  <2>19. ASSUME NEW s \in Supervisors, Crash(s) PROVE RouteInsideFence'
    BY <2>19 DEF Crash, FenceInv, TypeOK, RouteInsideFence, Goes, IsOwner
  <2>20. ASSUME NEW s \in Supervisors, Boot(s) PROVE RouteInsideFence'
    BY <2>20, OutsideFence DEF Boot
  <2>21. ASSUME NEW s \in Supervisors, PrepareRaises(s) PROVE RouteInsideFence'
    BY <2>21, OutsideFence DEF PrepareRaises
  <2>22. ASSUME NEW s \in Supervisors, ClaimRaises(s) \/ FailRaises(s) PROVE RouteInsideFence'
    <3>1. \A t \in Supervisors : pc[t] # "sent"
      BY <2>22, NobodySends DEF ClaimRaises, FailRaises
    <3>2. \A t \in Supervisors : pc'[t] # "sent"
      BY <2>22, <3>1 DEF ClaimRaises, FailRaises, Goes, FenceInv, TypeOK
    <3>3. QED
      BY <3>2 DEF RouteInsideFence
  <2>23. QED
    BY <1>2, <2>0, <2>1, <2>2, <2>3, <2>4, <2>5, <2>6, <2>7, <2>8, <2>9, <2>10, <2>11, <2>12, <2>13,
       <2>14, <2>15, <2>16, <2>17, <2>18, <2>19, <2>20, <2>21, <2>22 DEF Next, Work, FenceInv
<1>3. QED
  BY <1>1, <1>2

(* While a supervisor sends the reply inside its transaction the row is its    *)
(* own, for any number of supervisors, stalls and crashes.                     *)
THEOREM RepliesInsideFence == Spec => []RouteInsideFence
<1>1. Init => FenceInv
  BY InitHolds DEF Init, BInv, FenceInv, RouteInsideFence, At
<1>2. FenceInv /\ [Next]_vars => FenceInv'
  BY FenceKept
<1>3. FenceInv => RouteInsideFence
  BY DEF FenceInv
<1>4. QED
  BY <1>1, <1>2, <1>3, PTL DEF Spec

(* Who may write the row, and how. *)
LEMMA RowStep ==
    ASSUME FenceInv, [Next]_vars
    PROVE  /\ row'.fence >= row.fence
           /\ row.status = "completed" => row'.status = "completed" /\ row'.fence = row.fence
<1> DEFINE Grows ==
      /\ row'.fence >= row.fence
      /\ row.status = "completed" => row'.status = "completed" /\ row'.fence = row.fence
<1> USE DEF disk, counters, runs, At
<1>1. ASSUME row' = row PROVE Grows
  BY <1>1 DEF FenceInv, TypeOK
<1>2. ASSUME NEW s \in Supervisors, Claim(s) PROVE Grows
  BY <1>1, <1>2 DEF Claim, Claimable, Taken, FenceInv, TypeOK
<1>3. ASSUME NEW s \in Supervisors, Heartbeat(s) PROVE Grows
  BY <1>3 DEF Heartbeat, FenceInv, TypeOK
<1>4. CASE LeaseLapses
  BY <1>4 DEF LeaseLapses, FenceInv, TypeOK
<1>5. ASSUME NEW s \in Supervisors, FencedComplete(s) PROVE Grows
  BY <1>5 DEF FencedComplete, FenceInv, TypeOK
<1>6. ASSUME NEW s \in Supervisors, FailClaim(s) PROVE Grows
  <2>1. CASE ~IsOwner(s)
    BY <1>1, <1>6, <2>1 DEF FailClaim
  <2>2. CASE IsOwner(s)
    <3>1. row.status # "completed"
      BY <2>2 DEF IsOwner
    <3>2. row'.fence = row.fence /\ row.fence \in Nat
      BY <1>6, <2>2 DEF FailClaim, FenceInv, TypeOK
    <3>3. QED
      BY <3>1, <3>2
  <2>3. QED
    BY <2>1, <2>2
<1>7. ASSUME NEW s \in Supervisors, Crash(s) PROVE Grows
  BY <1>7 DEF Crash, FenceInv, TypeOK
<1>8. ASSUME NEW s \in Supervisors,
             \/ Push(s) \/ Boot(s) \/ Begin(s) \/ Load(s) \/ Append(s) \/ Purge(s) \/ CommitIndexes(s)
             \/ PersistReceipt(s) \/ FencedSend(s) \/ PlainSend(s) \/ PlainRouted(s) \/ Raises(s)
             \/ FenceLost(s) \/ RouteRaises(s) \/ PrepareRaises(s)
      PROVE  Grows
  <2>1. row' = row
    BY <1>8 DEF Push, Boot, Begin, Load, Append, Purge, CommitIndexes, PersistReceipt, FencedSend,
                PlainSend, PlainRouted, Raises, FenceLost, RouteRaises, PrepareRaises
  <2>2. QED
    BY <1>1, <2>1
<1>9. CASE UNCHANGED vars
  BY <1>1, <1>9 DEF vars
<1>10. ASSUME NEW s \in Supervisors, ClaimRaises(s) PROVE Grows
  BY <1>1, <1>10 DEF ClaimRaises, Claimable, Taken, FenceInv, TypeOK
<1>11. ASSUME NEW s \in Supervisors, FailRaises(s) PROVE Grows
  <2>1. CASE row' = row
    BY <1>1, <2>1
  <2>2. CASE IsOwner(s) /\ row' = [row EXCEPT !.status = "failed", !.leased = FALSE]
    <3>1. row.status # "completed"
      BY <2>2 DEF IsOwner
    <3>2. row'.fence = row.fence /\ row.fence \in Nat
      BY <2>2 DEF FenceInv, TypeOK
    <3>3. QED
      BY <3>1, <3>2
  <2>3. QED
    BY <1>11, <2>1, <2>2 DEF FailRaises
<1>12. QED
  BY <1>2, <1>3, <1>4, <1>5, <1>6, <1>7, <1>8, <1>9, <1>10, <1>11 DEF Next, Work

(* A generation is handed out once and a completed row stays as it is, for any *)
(* number of supervisors, stalls and crashes.                                  *)
THEOREM FencesOnlyGrow == Spec => FenceOnlyGrows
<1>1. Init => FenceInv
  BY InitHolds DEF Init, BInv, FenceInv, RouteInsideFence, At
<1>2. FenceInv /\ [Next]_vars => FenceInv'
  BY FenceKept
<1>3. FenceInv /\ [Next]_vars =>
        [/\ row'.fence >= row.fence
         /\ row.status = "completed" =>
                row'.status = "completed" /\ row'.fence = row.fence]_vars
  BY RowStep
<1>4. QED
  BY <1>1, <1>2, <1>3, PTL DEF Spec, FenceOnlyGrows

-----------------------------------------------------------------------------
(* The refinement: appends, torn ones included, are Copy, the purge is Drop,  *)
(* a reply appended is Reply, everything else stutters.                       *)
LEMMA CopyStep ==
    ASSUME BInv, NEW some \in SUBSET Messages,
           \A m \in some : m \in branch /\ parent[m] = 0,
           parent' = [m \in Messages |-> IF m \in some THEN parent[m] + 1 ELSE parent[m]],
           UNCHANGED <<branch, replies>>
    PROVE  Abstract!Next
<1>1. some \in SUBSET {m \in branch : parent[m] = 0}
  OBVIOUS
<1>2. parent' = [m \in Messages |-> IF m \in some THEN 1 ELSE parent[m]]
  OBVIOUS
<1>3. UNCHANGED <<branch, replies > 0>>
  OBVIOUS
<1>4. Abstract!Copy
  BY <1>1, <1>2, <1>3 DEF Abstract!Copy
<1>5. QED
  BY <1>4 DEF Abstract!Next

LEMMA ReplyStep ==
    ASSUME BInv, branch = {}, NEW s \in Supervisors, SendReply(s), UNCHANGED <<parent, branch>>
    PROVE  [Abstract!Next]_Abstract!vars
<1>1. CASE replies' = replies
  BY <1>1 DEF Abstract!vars
<1>2. CASE replies' = replies + 1
  <2>1. replies' > 0
    BY <1>2 DEF BInv, TypeOK
  <2>2. (replies > 0)' = TRUE
    BY <2>1
  <2>3. Abstract!Reply
    BY <2>2 DEF Abstract!Reply
  <2>4. QED
    BY <2>3 DEF Abstract!Next
<1>3. QED
  BY <1>1, <1>2 DEF SendReply

LEMMA StepImplements ==
    ASSUME BInv, [Next]_vars
    PROVE  [Abstract!Next]_Abstract!vars
<1> USE DEF disk, At
<1>1. ASSUME UNCHANGED <<parent, branch, replies>>
      PROVE  [Abstract!Next]_Abstract!vars
  BY <1>1 DEF Abstract!vars
<1>2. ASSUME NEW s \in Supervisors, Append(s)
      PROVE  [Abstract!Next]_Abstract!vars
  <2>1. missing[s] \in SUBSET Messages /\ \A m \in missing[s] : m \in branch /\ parent[m] = 0
    BY <1>2 DEF Append, BInv, TypeOK, LoadedIsFresh, MissingFromParent
  <2>2. Abstract!Next
    BY <1>2, <2>1, CopyStep DEF Append
  <2>3. QED
    BY <2>2
<1>3. ASSUME NEW s \in Supervisors, Crash(s)
      PROVE  [Abstract!Next]_Abstract!vars
  <2>1. CASE pc[s] = "locked"
    <3>1. missing[s] \in SUBSET Messages /\ \A m \in missing[s] : m \in branch /\ parent[m] = 0
      BY <2>1 DEF BInv, TypeOK, LoadedIsFresh, MissingFromParent
    <3>2. PICK torn \in SUBSET missing[s] :
             parent' = [m \in Messages |-> IF m \in torn THEN parent[m] + 1 ELSE parent[m]]
      BY <1>3, <2>1 DEF Crash
    <3>3. Abstract!Next
      BY <1>3, <3>1, <3>2, CopyStep DEF Crash
    <3>4. QED
      BY <3>3
  <2>2. CASE pc[s] # "locked"
    BY <1>1, <1>3, <2>2 DEF Crash
  <2>3. QED
    BY <2>1, <2>2
<1>4. ASSUME NEW s \in Supervisors, Purge(s)
      PROVE  [Abstract!Next]_Abstract!vars
  <2>1. \A m \in branch : parent[m] = 1
    BY <1>4 DEF Purge, BInv, AppendedIsAll
  <2>2. Abstract!Drop
    BY <1>4, <2>1 DEF Purge, Abstract!Drop
  <2>3. QED
    BY <2>2 DEF Abstract!Next
<1>5. ASSUME NEW s \in Supervisors, FencedSend(s) \/ PlainSend(s)
      PROVE  [Abstract!Next]_Abstract!vars
  <2>1. branch = {}
    BY <1>5 DEF FencedSend, PlainSend, BInv, MergedIsPurged, Merged
  <2>2. QED
    BY <1>5, <2>1, ReplyStep DEF FencedSend, PlainSend
<1>6. CASE UNCHANGED vars
  BY <1>1, <1>6 DEF vars
<1>7. CASE Next
  <2>1. ASSUME NEW s \in Supervisors, Work(s)
        PROVE  [Abstract!Next]_Abstract!vars
    <3>1. \/ Append(s) \/ Purge(s) \/ FencedSend(s) \/ PlainSend(s)
          \/ UNCHANGED <<parent, branch, replies>>
      BY <2>1 DEF Work, Begin, Claim, Load, CommitIndexes, PersistReceipt, FencedComplete, PlainRouted,
                  Raises, FenceLost, RouteRaises, FailClaim, PrepareRaises, ClaimRaises, FailRaises
    <3>2. QED
      BY <1>1, <1>2, <1>4, <1>5, <3>1
  <2>2. ASSUME NEW s \in Supervisors, Push(s) \/ Heartbeat(s) \/ Boot(s) \/ LeaseLapses
        PROVE  [Abstract!Next]_Abstract!vars
    BY <1>1, <2>2 DEF Push, Heartbeat, Boot, LeaseLapses
  <2>3. CASE LeaseLapses
    BY <1>1, <2>3 DEF LeaseLapses
  <2>4. QED
    BY <1>3, <1>7, <2>1, <2>2, <2>3 DEF Next
<1>8. QED
  BY <1>6, <1>7

(* The claims, fences and locks implement BranchMerge: copy, then delete, then *)
(* reply.                                                                      *)
THEOREM Refinement == Spec => ImplementsBranchMerge
<1>1. Init => Abstract!Init
  <2>1. Init => ((replies > 0) = FALSE)
    BY DEF Init
  <2>2. QED
    BY <2>1 DEF Init, Abstract!Init
<1>2. BInv /\ [Next]_vars => [Abstract!Next]_Abstract!vars
  BY StepImplements
<1>3. QED
  BY <1>1, <1>2, BranchInvariant, PTL DEF Spec, ImplementsBranchMerge, Abstract!Spec

-----------------------------------------------------------------------------
(* Every reply was sent by a process that knows it from then on, and a restart *)
(* finds a reply that was sent.                                                *)
Knowing == {s \in Supervisors : seen[s]}
RepliesAreKnown == replies <= Cardinality(Knowing) /\ (Knowing # {} => replies > 0)

LEMMA KnowingIsFinite ==
    /\ IsFiniteSet(Knowing) /\ Cardinality(Knowing) \in Nat
    /\ Cardinality(Knowing) <= Cardinality(Supervisors)
BY SupervisorsAssumption, FS_Subset, FS_CardinalityType DEF Knowing

(* One more process knows of a reply. *)
LEMMA LearnOne ==
    ASSUME TypeOK, NEW s \in Supervisors, seen' = [seen EXCEPT ![s] = TRUE]
    PROVE  /\ Knowing' = Knowing \union {s}
           /\ Cardinality(Knowing') = IF seen[s] THEN Cardinality(Knowing) ELSE Cardinality(Knowing) + 1
<1>1. Knowing' = Knowing \union {s}
  BY DEF Knowing, TypeOK
<1>2. s \in Knowing <=> seen[s]
  BY DEF Knowing
<1> QED
  BY <1>1, <1>2, KnowingIsFinite, FS_AddElement

LEMMA SendKeepsKnown ==
    ASSUME TypeOK, RepliesAreKnown, NEW s \in Supervisors, SendReply(s)
    PROVE  RepliesAreKnown'
<1>1. replies \in Nat /\ replies' \in Nat
  BY DEF TypeOK, SendReply
<1>2. /\ Knowing' = Knowing \union {s}
      /\ Cardinality(Knowing') = IF seen[s] THEN Cardinality(Knowing) ELSE Cardinality(Knowing) + 1
  BY LearnOne DEF SendReply
<1>3. replies' = IF seen[s] THEN replies ELSE replies + 1
  BY DEF SendReply
<1>4. seen[s] => Knowing # {}
  BY DEF Knowing
<1> QED
  BY <1>1, <1>2, <1>3, <1>4, KnowingIsFinite DEF RepliesAreKnown

LEMMA BootKeepsKnown ==
    ASSUME TypeOK, RepliesAreKnown, NEW s \in Supervisors, Boot(s)
    PROVE  RepliesAreKnown'
<1>1. replies' = replies /\ replies \in Nat /\ seen' = [seen EXCEPT ![s] = replies > 0]
  BY DEF Boot, TypeOK
<1>2. CASE replies > 0
  <2>1. (replies > 0) = TRUE
    BY <1>2
  <2>2. seen' = [seen EXCEPT ![s] = TRUE]
    BY <1>1, <2>1, Zenon
  <2>3. Cardinality(Knowing') \in {Cardinality(Knowing), Cardinality(Knowing) + 1}
    BY <2>2, LearnOne
  <2>4. replies <= Cardinality(Knowing) /\ Cardinality(Knowing) \in Nat
    BY KnowingIsFinite DEF RepliesAreKnown
  <2>5. replies' <= Cardinality(Knowing') /\ replies' > 0
    BY <1>1, <1>2, <2>3, <2>4
  <2> QED
    BY <2>5 DEF RepliesAreKnown
<1>3. CASE ~(replies > 0)
  <2>1. Knowing = {}
    BY <1>3 DEF RepliesAreKnown
  <2>2. Knowing' = {}
    BY <1>1, <1>3, <2>1 DEF Knowing, TypeOK
  <2>3. Cardinality(Knowing') \in Nat /\ Cardinality(Knowing') = 0
    BY <2>2, FS_EmptySet
  <2> QED
    BY <1>1, <1>3, <2>2, <2>3 DEF RepliesAreKnown
<1> QED
  BY <1>2, <1>3

(* However often routes are pushed, raise, stall and are tried again after a   *)
(* restart, a supervisor sends the reply of a completion at most once.         *)
THEOREM RepliesAreBounded == Spec => []OneReplyEach
<1>1. Init => RepliesAreKnown
  <2>1. Init => replies = 0 /\ Knowing = {}
    BY DEF Init, Knowing
  <2> QED
    BY <2>1, FS_EmptySet DEF RepliesAreKnown
<1>2. BInv /\ RepliesAreKnown /\ [Next]_vars => RepliesAreKnown'
  <2> SUFFICES ASSUME TypeOK, RepliesAreKnown, [Next]_vars
               PROVE  RepliesAreKnown'
    BY DEF BInv
  <2>1. CASE UNCHANGED <<replies, seen>>
    BY <2>1 DEF RepliesAreKnown, Knowing
  <2>2. ASSUME NEW s \in Supervisors, SendReply(s) PROVE RepliesAreKnown'
    BY <2>2, SendKeepsKnown
  <2>3. ASSUME NEW s \in Supervisors, Boot(s) PROVE RepliesAreKnown'
    BY <2>3, BootKeepsKnown
  <2>4. ASSUME NEW s \in Supervisors, Work(s)
        PROVE  SendReply(s) \/ UNCHANGED <<replies, seen>>
    BY <2>4 DEF Work, Begin, Claim, Load, Append, Purge, CommitIndexes, PersistReceipt, FencedSend,
                FencedComplete, PlainSend, PlainRouted, Raises, FenceLost, RouteRaises, FailClaim,
                PrepareRaises, ClaimRaises, FailRaises
  <2>5. CASE Next
    <3>1. ASSUME NEW s \in Supervisors, Push(s) \/ Heartbeat(s) \/ Crash(s)
          PROVE  UNCHANGED <<replies, seen>>
      BY <3>1 DEF Push, Heartbeat, Crash
    <3>2. LeaseLapses => UNCHANGED <<replies, seen>>
      BY DEF LeaseLapses
    <3> QED
      BY <2>1, <2>2, <2>3, <2>4, <2>5, <3>1, <3>2 DEF Next
  <2>6. CASE UNCHANGED vars
    BY <2>1, <2>6 DEF vars
  <2> QED
    BY <2>5, <2>6
<1>3. BInv /\ RepliesAreKnown => OneReplyEach
  BY KnowingIsFinite, FS_CardinalityType, SupervisorsAssumption
     DEF RepliesAreKnown, OneReplyEach, BInv, TypeOK
<1> QED
  BY <1>1, <1>2, <1>3, BranchInvariant, PTL DEF Spec

-----------------------------------------------------------------------------
(* As long as no route was cut off or went without a claim, a reply was sent   *)
(* inside a fence, which is still held or has completed the row.               *)
Clean == gaps \intersect {"unfinished", "unclaimed"} = {}

SentOnce ==
    /\ replies <= 1
    /\ replies = 1 => row.status = "completed" \/ \E s \in Supervisors : pc[s] = "sent"

OneInv == FenceInv /\ (Clean => SentOnce)

(* A step that sends nothing and lets whoever sends go on sending. *)
LEMMA QuietKeepsOne ==
    ASSUME OneInv, [Next]_vars, replies' = replies, gaps \subseteq gaps',
           \A t \in Supervisors : pc[t] = "sent" => pc'[t] = "sent"
    PROVE  Clean' => SentOnce'
<1>1. Clean' => Clean
  BY DEF Clean
<1>2. row.status = "completed" => row'.status = "completed"
  BY RowStep DEF OneInv
<1>3. QED
  BY <1>1, <1>2 DEF OneInv, SentOnce

LEMMA SendKeepsOne ==
    ASSUME OneInv, NEW s \in Supervisors, FencedSend(s)
    PROVE  Clean' => SentOnce'
<1>1. row.status = "started" /\ writer = NoOne /\ gaps' = gaps
  BY DEF FencedSend, IsOwner, counters
<1>2. \A t \in Supervisors : pc[t] # "sent"
  BY <1>1, NobodySends DEF OneInv
<1>3. Clean => replies = 0
  BY <1>1, <1>2 DEF OneInv, FenceInv, TypeOK, SentOnce
<1>4. pc'[s] = "sent"
  BY DEF FencedSend, Goes, OneInv, FenceInv, TypeOK
<1>5. replies' \in {replies, replies + 1}
  BY DEF FencedSend, SendReply
<1>6. Clean' => Clean
  BY <1>1 DEF Clean
<1>7. QED
  BY <1>3, <1>4, <1>5, <1>6 DEF SentOnce

LEMMA OneKept ==
    ASSUME OneInv, [Next]_vars
    PROVE  OneInv'
<1> USE DEF disk, counters, runs, At
<1>1. FenceInv'
  BY FenceKept DEF OneInv
<1> SUFFICES Clean' => SentOnce'
  BY <1>1 DEF OneInv
<1>2. ASSUME NEW s \in Supervisors, NEW place, Goes(s, place), pc[s] # "sent",
             replies' = replies, gaps \subseteq gaps'
      PROVE  Clean' => SentOnce'
  <2>1. \A t \in Supervisors : pc[t] = "sent" => pc'[t] = "sent"
    BY <1>2 DEF Goes, OneInv, FenceInv, TypeOK
  <2>2. QED
    BY <1>2, <2>1, QuietKeepsOne
<1>3. ASSUME UNCHANGED <<replies, pc, gaps>> PROVE Clean' => SentOnce'
  BY <1>3, QuietKeepsOne
<1>4. ASSUME NEW s \in Supervisors, pc[s] = "sent", gaps' = gaps \union {"unfinished"}
      PROVE  Clean' => SentOnce'
  BY <1>4 DEF Clean
<1>5. ASSUME NEW s \in Supervisors, FencedComplete(s) PROVE Clean' => SentOnce'
  <2>1. row'.status = "completed" /\ UNCHANGED <<replies, gaps>>
    BY <1>5 DEF FencedComplete, OneInv, FenceInv, TypeOK
  <2>2. QED
    BY <2>1 DEF OneInv, Clean, SentOnce
<1>6. ASSUME NEW s \in Supervisors, PlainSend(s) PROVE Clean' => SentOnce'
  <2>1. CASE seen[s]
    BY <1>2, <1>6, <2>1 DEF PlainSend, SendReply
  <2>2. CASE ~seen[s]
    BY <1>6, <2>2 DEF PlainSend, Clean
  <2>3. QED
    BY <2>1, <2>2
<1>7. ASSUME NEW s \in Supervisors, RouteRaises(s) PROVE Clean' => SentOnce'
  <2>1. CASE pc[s] = "sent"
    BY <1>4, <1>7, <2>1 DEF RouteRaises
  <2>2. CASE pc[s] # "sent"
    <3>1. PICK place \in {"routeRaise", "idle"} : Goes(s, place)
      BY <1>7 DEF RouteRaises
    <3>2. replies' = replies /\ gaps \subseteq gaps'
      BY <1>7 DEF RouteRaises
    <3>3. QED
      BY <1>2, <2>2, <3>1, <3>2
  <2>3. QED
    BY <2>1, <2>2
<1>8. ASSUME NEW s \in Supervisors, Crash(s) PROVE Clean' => SentOnce'
  <2>1. CASE pc[s] = "sent"
    BY <1>4, <1>8, <2>1 DEF Crash
  <2>2. CASE pc[s] # "sent"
    BY <1>2, <1>8, <2>2 DEF Crash
  <2>3. QED
    BY <2>1, <2>2
<1>9. ASSUME NEW s \in Supervisors,
             \/ Push(s) \/ Boot(s) \/ Begin(s) \/ Load(s) \/ Append(s) \/ Purge(s) \/ CommitIndexes(s)
             \/ PersistReceipt(s) \/ PlainRouted(s) \/ Raises(s) \/ FenceLost(s) \/ FailClaim(s)
             \/ PrepareRaises(s) \/ ClaimRaises(s) \/ FailRaises(s)
      PROVE  Clean' => SentOnce'
  <2>1. PICK place : Goes(s, place)
    BY <1>9 DEF Push, Boot, Begin, Load, Append, Purge, CommitIndexes, PersistReceipt, PlainRouted,
                Raises, FenceLost, FailClaim, PrepareRaises, ClaimRaises, FailRaises
  <2>2. pc[s] # "sent"
    BY <1>9 DEF Push, Boot, Begin, Load, Append, Purge, CommitIndexes, PersistReceipt, PlainRouted,
                Raises, FenceLost, FailClaim, PrepareRaises, ClaimRaises, FailRaises
  <2>3. replies' = replies /\ gaps \subseteq gaps'
    BY <1>9 DEF Push, Boot, Begin, Load, Append, Purge, CommitIndexes, PersistReceipt, PlainRouted,
                Raises, FenceLost, FailClaim, PrepareRaises, ClaimRaises, FailRaises
  <2>4. QED
    BY <1>2, <2>1, <2>2, <2>3
<1>10. ASSUME NEW s \in Supervisors, Claim(s) PROVE Clean' => SentOnce'
  <2>1. PICK place \in {"owned", "idle"} : Goes(s, place)
    BY <1>10 DEF Claim
  <2>2. pc[s] # "sent" /\ replies' = replies /\ gaps \subseteq gaps'
    BY <1>10 DEF Claim
  <2>3. QED
    BY <1>2, <2>1, <2>2
<1>11. ASSUME NEW s \in Supervisors, Heartbeat(s) \/ LeaseLapses PROVE Clean' => SentOnce'
  BY <1>3, <1>11 DEF Heartbeat, LeaseLapses
<1>12. CASE LeaseLapses
  BY <1>3, <1>12 DEF LeaseLapses
<1>13. CASE UNCHANGED vars
  BY <1>3, <1>13 DEF vars
<1>14. QED
  BY <1>5, <1>6, <1>7, <1>8, <1>9, <1>10, <1>11, <1>12, <1>13, SendKeepsOne DEF Next, Work

(* One supervisor sends the reply, for any number of them, of stalls, takeovers *)
(* and crashes, unless a route was cut off between its reply and its record or   *)
(* took no claim.                                                               *)
THEOREM RepliesOnce == Spec => []OneReplyUnlessCut
<1>1. Init => OneInv
  <2>1. Init => FenceInv
    BY InitHolds DEF Init, BInv, FenceInv, RouteInsideFence, At
  <2>2. Init => replies = 0
    BY DEF Init
  <2>3. QED
    BY <2>1, <2>2 DEF OneInv, SentOnce
<1>2. OneInv /\ [Next]_vars => OneInv'
  BY OneKept
<1>3. OneInv => OneReplyUnlessCut
  BY DEF OneInv, SentOnce, Clean, OneReplyUnlessCut, OneReply
<1>4. QED
  BY <1>1, <1>2, <1>3, PTL DEF Spec
=============================================================================
