------------------------------- MODULE FileEdits -------------------------------
(***************************************************************************)
(* Who may edit a file, and against which version of it.                   *)
(*                                                                         *)
(* The supervisor keeps a ledger (supervisor/file_claims.py): which tasks  *)
(* have claimed the file, and which version of it every task and every     *)
(* session has seen (toolbox/file_state.py, StampBook).  An editing tool   *)
(* running in an engine process first asks the supervisor to begin the     *)
(* edit, then reads, compares and replaces the file under a cross-process  *)
(* lock, then records the version it wrote.  Programs that know nothing of *)
(* the ledger write the same file whenever they like.                      *)
(*                                                                         *)
(* One path is modelled: claims, stamps and locks of different paths do    *)
(* not touch each other.  A version of the file is named by whoever wrote  *)
(* it: comparing hashes is comparing versions.  The life of a task is that *)
(* of DispatchTree and TaskClaims, reduced to what the ledger asks about.  *)
(***************************************************************************)
EXTENDS Naturals

CONSTANTS Tasks,      \* tasks that may be created
          Calls,      \* calls of read_file or an editing tool, each made once
          Outsiders,  \* writes by programs outside the ledger, one each
          Sessions,   \* keys of the session layer of the stamp book
          SessionOf,  \* the session a task reads and writes stamps under
          NoTask, NoCall, Original, Absent, Nothing

Versions == Calls \cup Outsiders \cup {Original, Absent}

ASSUME SessionsAssumption == SessionOf \in [Tasks -> Sessions]

ASSUME DistinctAssumption ==
  /\ NoTask \notin Tasks /\ NoCall \notin Calls /\ Nothing \notin Versions
  /\ Calls \cap Outsiders = {}
  /\ Original \notin Calls \cup Outsiders /\ Absent \notin Calls \cup Outsiders
  /\ Original # Absent

VARIABLES status,     \* the ending the ledger asks about, per task
          caller,     \* caller_task_id: who waits for the task
          created, ended,
          since,      \* when the task took its claim on the file, 0: no claim
          stamp,      \* the task layer of the stamp book
          shared,     \* its session layer
          call,       \* the calls
          lock,       \* who holds edit_lock
          file, outsiders,
          now,
          recorded,   \* every version ever recorded under a task
          inherited   \* versions its session had recorded before it began

tasks == <<status, caller, created, ended, inherited>>
ledger == <<since, stamp, shared, recorded>>
disk == <<lock, file, outsiders>>
vars == <<status, caller, created, ended, since, stamp, shared, call, lock,
          file, outsiders, now, recorded, inherited>>

NoStamp == [version |-> Nothing, seen |-> 0]
NoShared == [version |-> Nothing, seen |-> 0, merged |-> 0]
NoGrant == [task |-> NoTask, phase |-> "idle", entry |-> Nothing,
            foreign |-> FALSE, fresh |-> FALSE, base |-> Nothing]

Status == {"unborn", "running", "handing", "suspended", "stopping", "over"}
Phases == {"idle", "reading", "granted", "holding", "replacing", "written", "failing", "done"}

\* Every variable holds what it should, and edit_lock is with the one call that
\* is between its snapshot and its write.
TypeOK ==
  /\ status \in [Tasks -> Status]
  /\ caller \in [Tasks -> Tasks \cup {NoTask}]
  /\ created \in [Tasks -> Nat] /\ ended \in [Tasks -> Nat]
  /\ since \in [Tasks -> Nat]
  /\ stamp \in [Tasks -> [version : Versions \cup {Nothing}, seen : Nat]]
  /\ shared \in [Sessions -> [version : Versions \cup {Nothing}, seen : Nat, merged : Nat]]
  /\ call \in [Calls -> [task : Tasks \cup {NoTask}, phase : Phases,
                         entry : Versions \cup {Nothing}, foreign : BOOLEAN,
                         fresh : BOOLEAN, base : Versions \cup {Nothing}]]
  /\ lock \in Calls \cup {NoCall}
  /\ \A c \in Calls : call[c].phase \in {"holding", "replacing"} <=> lock = c
  /\ file \in Versions
  /\ outsiders \subseteq Outsiders
  /\ now \in Nat
  /\ recorded \in [Tasks -> SUBSET Versions]
  /\ inherited \in [Tasks -> SUBSET Versions]

Init ==
  /\ status = [t \in Tasks |-> "unborn"]
  /\ caller = [t \in Tasks |-> NoTask]
  /\ created = [t \in Tasks |-> 0] /\ ended = [t \in Tasks |-> 0]
  /\ since = [t \in Tasks |-> 0]
  /\ stamp = [t \in Tasks |-> NoStamp]
  /\ shared = [s \in Sessions |-> NoShared]
  /\ call = [c \in Calls |-> NoGrant]
  /\ lock = NoCall
  /\ file = Original
  /\ outsiders = Outsiders
  /\ now = 0
  /\ recorded = [t \in Tasks |-> {}]
  /\ inherited = [t \in Tasks |-> {}]

--------------------------------------------------------------------------------
(* Tasks, as the ledger sees them.                                           *)

\* still_writing: the task goes on, or its worker has not stopped yet.
StillWriting(t) == status[t] \notin {"unborn", "over"}

\* The tasks whose outcome is decided.
Decided == {t \in Tasks : status[t] \in {"stopping", "over"}}

\* Edits between the grant of the supervisor and the end of the tool.
Open(c) == call[c].phase \in {"granted", "holding", "replacing", "written", "failing"}

\* Tools of one task run one after the other; only reads run side by side.
Busy(c) == call[c].phase \notin {"idle", "done"}
Idle(t) == \A c \in Calls : call[c].task = t => ~Busy(c)

\* What the session of t can tell a task that begins now.
Told(t) == UNION {recorded[u] : u \in {v \in Decided : SessionOf[v] = SessionOf[t]}}

Create(new, parent) ==
  /\ caller' = [t \in Tasks |-> IF t \in new THEN parent ELSE caller[t]]
  /\ created' = [t \in Tasks |-> IF t \in new THEN now' ELSE created[t]]
  /\ inherited' = [t \in Tasks |-> IF t \in new THEN Told(t) ELSE inherited[t]]

\* A task somebody asked for: nobody waits for it.
Start(t) ==
  /\ status[t] = "unborn"
  /\ now' = now + 1
  /\ status' = [status EXCEPT ![t] = "running"]
  /\ Create({t}, NoTask)
  /\ UNCHANGED <<ended, ledger, call, disk>>

\* The worker hands back a dispatch; the task is completed until it is routed.
HandBack(t) ==
  /\ status[t] = "running" /\ Idle(t)
  /\ status' = [status EXCEPT ![t] = "handing"]
  /\ UNCHANGED <<caller, created, ended, inherited, ledger, call, disk, now>>

\* The dispatch is routed: the children are created and the caller suspended
\* under one hold of the state lock.
Dispatch(t, kids) ==
  /\ status[t] = "handing"
  /\ \A k \in kids : status[k] = "unborn"
  /\ now' = now + 1
  /\ status' = [u \in Tasks |-> IF u = t THEN "suspended"
                                ELSE IF u \in kids THEN "running" ELSE status[u]]
  /\ Create(kids, t)
  /\ UNCHANGED <<ended, ledger, call, disk>>

\* The outcomes of all children have been handed to the caller.  A child whose
\* worker has not stopped does not hold it up when a leftover thread routes it.
Resume(t) ==
  /\ status[t] = "suspended"
  /\ \A k \in Tasks : caller[k] = t => k \in Decided
  /\ status' = [status EXCEPT ![t] = "running"]
  /\ UNCHANGED <<caller, created, ended, inherited, ledger, call, disk, now>>

Ends(t, to) ==
  /\ now' = now + 1
  /\ status' = [status EXCEPT ![t] = to]
  /\ ended' = [ended EXCEPT ![t] = now']
  /\ UNCHANGED <<caller, created, inherited, ledger, call, disk>>

\* The worker reports the end of the task, also one it was asked to cancel.
Finish(t) == status[t] = "running" /\ Idle(t) /\ Ends(t, "over")

\* Failed by the supervisor.  With a live lease the worker is given time to
\* stop; without one it counts as gone, whatever it is really doing.
Fail(t) == status[t] = "running" /\ \E to \in {"stopping", "over"} : Ends(t, to)

\* Cancelled or failed where no worker has it.
CalledOff(t) == status[t] \in {"handing", "suspended"} /\ Ends(t, "over")

\* The worker reports that it stopped, or STOP_GRACE passes without a report.
StopEnds(t) ==
  /\ status[t] = "stopping"
  /\ status' = [status EXCEPT ![t] = "over"]
  /\ UNCHANGED <<caller, created, ended, inherited, ledger, call, disk, now>>

\* The engine process that runs t dies: so do its calls, and the operating
\* system takes back the lock.
Crash(t) ==
  /\ ~Idle(t)
  /\ call' = [c \in Calls |-> IF call[c].task = t /\ Busy(c)
                              THEN [call[c] EXCEPT !.phase = "done"] ELSE call[c]]
  /\ lock' = IF lock # NoCall /\ call[lock].task = t THEN NoCall ELSE lock
  /\ UNCHANGED <<tasks, ledger, file, outsiders, now>>

--------------------------------------------------------------------------------
(* The ledger: claims.                                                       *)

\* The list of holders of the path, outermost first, is the holders in the
\* order of "since".
Holders == {t \in Tasks : since[t] # 0 /\ StillWriting(t)}
Deepest(t) == t \in Holders /\ \A u \in Holders : since[u] <= since[t]

\* Up the chain of callers of t one comes to "a", through live tasks only.
\* (The walk gives up after 32 steps, far above the depth of any dispatch.)
WaitsFor(t, a) ==
  /\ caller[t] \in Tasks
  /\ \A S \in SUBSET Tasks :
       (/\ caller[t] \in S
        /\ \A p \in S : StillWriting(p) /\ caller[p] \in Tasks => caller[p] \in S)
       => a \in S

\* The task already is the deepest holder.
Holds(t) == Deepest(t)

(* Mutant: the holder need not be suspended. *)
MayClaimFromCaller(t) ==
  \/ Holders = {}
  \/ t \notin Holders /\ \E h \in Tasks : Deepest(h) /\ WaitsFor(t, h)

\* The path is free, or its deepest holder is suspended and waits for t.
MayClaim(t) ==
  \/ Holders = {}
  \/ /\ t \notin Holders
     /\ \E h \in Tasks : Deepest(h) /\ status[h] = "suspended" /\ WaitsFor(t, h)

--------------------------------------------------------------------------------
(* The ledger: stamps.                                                       *)

(* Mutant: as if no record could come after the end of its task. *)
MergedAtEnd(t, at) == at

\* When a layer is merged: not before its records were made.
MergedAt(t, at) == IF at < stamp[t].seen THEN stamp[t].seen ELSE at

\* The layers of the tasks "gone" go into the session layer, which keeps the
\* version that was seen last; at[t] is when t ended.
MergedInto(s, gone, at) ==
  LET layers == {t \in gone : SessionOf[t] = s /\ stamp[t] # NoStamp}
      newest == {t \in layers : /\ \A u \in layers : stamp[u].seen <= stamp[t].seen
                                /\ shared[s].seen <= stamp[t].seen}
      last == CHOOSE t \in newest : TRUE
  IN IF newest = {} THEN shared[s]
     ELSE [version |-> stamp[last].version, seen |-> stamp[last].seen,
           merged |-> MergedAt(last, at[last])]

Merged(gone, at) == [s \in Sessions |-> MergedInto(s, gone, at)]

Unlayered(gone) == [t \in Tasks |-> IF t \in gone THEN NoStamp ELSE stamp[t]]

\* Claims and layers of ended tasks that no hook has collected.
Over == {t \in Tasks : status[t] = "over"}
Sweep ==
  /\ shared' = Merged(Over, ended)
  /\ stamp' = Unlayered(Over)

\* release_if_ended: the hook that runs where an outcome is routed, a task is
\* reaped or a cancel settled.
Release(t) ==
  /\ status[t] = "over"
  /\ since[t] # 0 \/ stamp[t] # NoStamp
  /\ now' = now + 1
  /\ since' = [since EXCEPT ![t] = 0]
  /\ shared' = Merged({t}, [u \in Tasks |-> now'])
  /\ stamp' = Unlayered({t})
  /\ UNCHANGED <<tasks, recorded, call, disk>>

\* The stamp a call is given to compare with: the task's own, or else the one
\* its session has, which is foreign when it came in after the task began.
Entry(t) == IF stamp[t] # NoStamp THEN stamp[t].version
            ELSE shared'[SessionOf[t]].version
Foreign(t) == stamp[t] = NoStamp /\ shared'[SessionOf[t]].merged > created[t]

Record(t, v) ==
  /\ now' = now + 1
  /\ stamp' = [stamp EXCEPT ![t] = [version |-> v, seen |-> now']]
  /\ recorded' = [recorded EXCEPT ![t] = @ \cup {v}]
  /\ UNCHANGED <<since, shared>>

--------------------------------------------------------------------------------
(* An editing tool.                                                          *)

Moves(c, phase) == call' = [call EXCEPT ![c].phase = phase]

\* POST /v1/file_edits/begin is granted.  (When the answer is lost the claim
\* stays with the task, as it does when abandon_edit fails.)
Begin(c, t) ==
  /\ call[c].phase = "idle" /\ Idle(t) /\ status[t] \in {"running", "stopping"}
  /\ Sweep
  /\ now' = now + 1
  /\ \/ /\ Holds(t)
        /\ since' = [u \in Tasks |-> IF u \in Over THEN 0 ELSE since[u]]
     \/ /\ ~Holds(t) /\ MayClaim(t)
        /\ since' = [u \in Tasks |-> IF u = t THEN now'
                                     ELSE IF u \in Over THEN 0 ELSE since[u]]
  /\ call' = [call EXCEPT ![c] = [task |-> t, phase |-> "granted", entry |-> Entry(t),
                                  foreign |-> Foreign(t), fresh |-> ~Holds(t),
                                  base |-> Nothing]]
  /\ UNCHANGED <<tasks, recorded, disk>>

\* A begin that is refused (the file is claimed, the task has ended or is not
\* known) has only swept; so has a request of a writer without a task.
BeginRefused ==
  /\ \E t \in Over : since[t] # 0 \/ stamp[t] # NoStamp
  /\ Sweep
  /\ since' = [u \in Tasks |-> IF u \in Over THEN 0 ELSE since[u]]
  /\ UNCHANGED <<tasks, recorded, call, disk, now>>

\* The approval is denied, the file is not one the tool can edit.
GiveUp(c) ==
  /\ call[c].phase = "granted"
  /\ Moves(c, "failing")
  /\ UNCHANGED <<tasks, ledger, disk, now>>

\* gate_of: what the call was told it knows against what is on the disk.
Stale(c) ==
  /\ call[c].entry # Nothing /\ file # Absent
  /\ call[c].foreign \/ file # call[c].entry

\* In edit_lock: take_snapshot and the gate.
Lock(c) ==
  /\ call[c].phase = "granted" /\ lock = NoCall
  /\ \/ Stale(c) /\ Moves(c, "failing") /\ UNCHANGED lock
     \/ /\ ~Stale(c)
        /\ call' = [call EXCEPT ![c].phase = "holding", ![c].base = file]
        /\ lock' = c
  /\ UNCHANGED <<tasks, ledger, file, outsiders, now>>

\* commit_locked reads the file again ...
Compare(c) ==
  /\ call[c].phase = "holding"
  /\ \/ file = call[c].base /\ Moves(c, "replacing") /\ UNCHANGED lock
     \/ file # call[c].base /\ Moves(c, "failing") /\ lock' = NoCall
  /\ UNCHANGED <<tasks, ledger, file, outsiders, now>>

\* ... and replaces it, in a second step: other programs do not take the lock.
Replace(c) ==
  /\ call[c].phase = "replacing"
  /\ Moves(c, "written")
  /\ file' = c
  /\ lock' = NoCall
  /\ UNCHANGED <<tasks, ledger, outsiders, now>>

\* The text to replace is not found or does not change, the pre-image cannot be
\* journalled or the file not be written.
DiskError(c) ==
  /\ call[c].phase \in {"holding", "replacing"}
  /\ Moves(c, "failing")
  /\ lock' = NoCall
  /\ UNCHANGED <<tasks, ledger, file, outsiders, now>>

(* Mutant: the claim is returned with the edit. *)
FinishEditReleases(c) ==
  /\ call[c].phase = "written"
  /\ Moves(c, "done")
  /\ now' = now + 1
  /\ since' = [since EXCEPT ![call[c].task] = 0]
  /\ stamp' = [stamp EXCEPT ![call[c].task] = [version |-> c, seen |-> now']]
  /\ recorded' = [recorded EXCEPT ![call[c].task] = @ \cup {c}]
  /\ UNCHANGED <<tasks, shared, disk>>

\* finish_edit: the claim stays, the new version is recorded or the request fails.
FinishEdit(c) ==
  /\ call[c].phase = "written"
  /\ Moves(c, "done")
  /\ \/ Record(call[c].task, c)
     \/ UNCHANGED <<ledger, now>>
  /\ UNCHANGED <<tasks, disk>>

\* abandon_edit: a claim taken for this call is returned, or the request fails.
AbandonEdit(c) ==
  /\ call[c].phase = "failing"
  /\ Moves(c, "done")
  /\ \/ call[c].fresh /\ since' = [since EXCEPT ![call[c].task] = 0]
     \/ UNCHANGED since
  /\ UNCHANGED <<tasks, stamp, shared, recorded, disk, now>>

--------------------------------------------------------------------------------
(* Readers and programs outside the ledger.                                  *)

ReadFile(c, t) ==
  /\ call[c].phase = "idle" /\ Idle(t) /\ status[t] \in {"running", "stopping"}
  /\ file # Absent
  /\ call' = [call EXCEPT ![c] = [NoGrant EXCEPT !.task = t, !.phase = "reading", !.base = file]]
  /\ UNCHANGED <<tasks, ledger, disk, now>>

\* record_stamp comes after the read; when it fails the read stands.
RecordRead(c) ==
  /\ call[c].phase = "reading"
  /\ Moves(c, "done")
  /\ \/ Record(call[c].task, call[c].base)
     \/ UNCHANGED <<ledger, now>>
  /\ UNCHANGED <<tasks, disk>>

\* A user's editor or a script writes or deletes the file.
WriteOutside(o) ==
  /\ o \in outsiders
  /\ outsiders' = outsiders \ {o}
  /\ file' \in {o, Absent}
  /\ UNCHANGED <<tasks, ledger, call, lock, now>>

--------------------------------------------------------------------------------
Next ==
  \/ \E t \in Tasks : \/ Start(t) \/ HandBack(t) \/ Resume(t) \/ Finish(t)
                      \/ Fail(t) \/ CalledOff(t) \/ StopEnds(t) \/ Crash(t)
                      \/ Release(t)
  \/ \E t \in Tasks, kids \in SUBSET Tasks : kids # {} /\ Dispatch(t, kids)
  \/ \E c \in Calls, t \in Tasks : Begin(c, t) \/ ReadFile(c, t)
  \/ BeginRefused
  \/ \E c \in Calls : \/ GiveUp(c) \/ Lock(c) \/ Compare(c) \/ Replace(c)
                      \/ DiskError(c) \/ FinishEdit(c) \/ AbandonEdit(c)
                      \/ RecordRead(c)
  \/ \E o \in Outsiders : WriteOutside(o)

Spec == Init /\ [][Next]_vars

--------------------------------------------------------------------------------
(* Properties.                                                               *)

\* Claims (FileClaimBook.acquire): two tasks that may still write never have the
\* file open for editing at the same time, across sessions, dispatches,
\* failures, late workers and claims handed from a suspended caller to the tasks
\* it waits for.
ExclusiveEditing ==
  \A c, d \in Calls :
    /\ Open(c) /\ StillWriting(call[c].task)
    /\ Open(d) /\ StillWriting(call[d].task)
    => call[c].task = call[d].task

\* What t or its session, before t began, had on record of the file.
Known(t) == recorded[t] \cup inherited[t]

\* Stamps (Gate.stale, commit_locked): a tool that edits against one replaces a
\* version its task knows: nothing another task wrote since is lost, whoever
\* holds the claim and however late the worker is.  What may be lost is a write
\* by a program outside the ledger between the last comparison and the
\* replacement.
NoBlindOverwrite ==
  \A c \in Calls :
    /\ call[c].phase = "replacing"
    /\ call[c].entry # Nothing /\ call[c].base # Absent
    => /\ call[c].base \in Known(call[c].task)
       /\ file \in {call[c].base, Absent} \cup Outsiders

\* t was dispatched by u, or by a task u dispatched, and so on.
Under(t, u) ==
  /\ caller[t] \in Tasks
  /\ \A S \in SUBSET Tasks :
       caller[t] \in S /\ (\A p \in S : caller[p] \in Tasks => caller[p] \in S) => u \in S

\* Also without having read the file, a task never replaces what another task
\* wrote while that one may still write, unless that one dispatched it: a claim
\* lasts from the first edit to the end of the task.
LiveWorkIsKept ==
  \A c, d \in Calls :
    LET t == call[c].task
        u == call[d].task
    IN /\ call[c].phase = "replacing" /\ StillWriting(t)
       /\ file = d /\ StillWriting(u)
       => t = u \/ Under(t, u)

================================================================================
