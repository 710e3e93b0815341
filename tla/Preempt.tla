------------------------------- MODULE Preempt -------------------------------
(* A message that arrives while its conversation is being worked on: the      *)
(* adapter offers it to the running tasks of the session and starts a new one *)
(* when none takes it (adapters/onebot/napcat/queueing.py); the task store    *)
(* keeps one message per task, with a revision (supervisor/task_store.py); the *)
(* engine's inference loop looks for it at fixed places, writes it to the     *)
(* conversation and then acknowledges it (engine/builtin/preempt.py,          *)
(* engine/inference/ai_step.py, llm_call.py). Models send each other's tasks  *)
(* such messages too (engine/inference/pseudo_handlers.py).                   *)
(*                                                                            *)
(* The requests between the three can fail: the engine's are swallowed by     *)
(* engine/context.py, the adapter goes on to the next candidate. A process    *)
(* executes a task alone (TaskClaims!SingleExecution).                        *)
EXTENDS Naturals, Sequences

CONSTANTS
    Users,      \* messages users send to the conversation
    Notes,      \* calls of preempt_task by models
    Quiet,      \* those of Notes that carry no text: stop softly
    NoText,     \* an empty message
    NTasks,     \* bound: entry tasks the conversation may start
    MaxFaults   \* bound: failed requests, failed writes and crashes

ASSUME PreemptAssumption ==
    /\ Users \cap Notes = {}
    /\ Quiet \subseteq Notes
    /\ NoText \notin Users \cup Notes
    /\ NTasks \in Nat
    /\ MaxFaults \in Nat

Tasks == 1 .. NTasks
Messages == Users \cup Notes
Text(m) == IF m \in Quiet THEN NoText ELSE m

(* What is_task_preempted returns, and preempt_inject_info keeps. *)
Infos == [message : Messages \cup {NoText}, revision : Nat]
NoInfo == [message |-> NoText, revision |-> 0]

VARIABLES
    task,       \* status, cancel request and the preempt fields of each task
    run,        \* the engine's inference loop of each task
    talk,       \* messages written to the task's conversation
    sender,     \* the adapter's handling of each message
    taken,      \* history: what each task accepted, by revision
    origin,     \* history: the message a task was created for
    lost,       \* history: revisions that were accepted and will not be written
    unsure,     \* history: revisions whose acknowledgement may be missing
    twice,      \* history: messages whose acceptance the adapter did not hear of
    faults

vars == <<task, run, talk, sender, taken, origin, lost, unsure, twice, faults>>

(***************************************************************************)
(* State                                                                   *)
(***************************************************************************)
NoTask == [status |-> "none", cancel |-> FALSE,
           requested |-> FALSE, message |-> NoText, revision |-> 0]
Idle == [at |-> "off", info |-> NoInfo, soft |-> FALSE, result |-> "none",
         mark |-> 0, blind |-> FALSE]

Init ==
    /\ task = [t \in Tasks |-> NoTask]
    /\ run = [t \in Tasks |-> Idle]
    /\ talk = [t \in Tasks |-> <<>>]
    /\ sender = [m \in Messages |-> [at |-> "new", left |-> {}]]
    /\ taken = [t \in Tasks |-> <<>>]
    /\ origin = [t \in Tasks |-> NoText]
    /\ lost = [t \in Tasks |-> {}]
    /\ unsure = [t \in Tasks |-> {}]
    /\ twice = {}
    /\ faults = 0

Live(t) == task[t].status \in {"pending", "running"}
Waiting(t) == task[t].requested /\ task[t].message # NoText
Fault == faults < MaxFaults /\ faults' = faults + 1

(* Revisions a process of t has read and takes with it when it stops; the    *)
(* slot still holds them unless a later message replaced them.               *)
InHand(t) == IF run[t].info = NoInfo \/ run[t].at = "wrote" THEN {} ELSE {run[t].info.revision}
Written(t) == {talk[t][k].revision : k \in 1 .. Len(talk[t])}
InSlot(t) == IF Waiting(t) THEN {task[t].revision} ELSE {}

(***************************************************************************)
(* Supervisor                                                              *)
(***************************************************************************)
(* preempt_task: the new message takes the place of the one that waits. *)
Overwrite(t, m) ==
    /\ task' = [task EXCEPT ![t].requested = TRUE, ![t].message = Text(m),
                            ![t].revision = @ + 1]
    /\ taken' = [taken EXCEPT ![t] = Append(@, m)]
    /\ lost' = [lost EXCEPT ![t] = @ \cup (InSlot(t) \ (InHand(t) \cup Written(t)))]

(* Mutant: whatever is in the slot is cleared. *)
ConsumedAny(r, revision) == [r EXCEPT !.requested = FALSE, !.message = NoText]

(* consume_preempt_message: only what was read is cleared. *)
Consumed(r, revision) ==
    IF revision # r.revision THEN r
    ELSE [r EXCEPT !.requested = FALSE, !.message = NoText]

Claim(t) ==
    /\ task[t].status = "pending"
    /\ task' = [task EXCEPT ![t].status = "running"]
    /\ run' = [run EXCEPT ![t] = [Idle EXCEPT !.at = "top"]]
    /\ UNCHANGED <<talk, sender, taken, origin, lost, unsure, twice, faults>>

(* A caller that suspended waits for its children, then is queued again. *)
Resume(t) ==
    /\ task[t].status = "suspended"
    /\ task' = [task EXCEPT ![t].status = "pending"]
    /\ UNCHANGED <<run, talk, sender, taken, origin, lost, unsure, twice, faults>>

Cancel(t) ==
    /\ task[t].status \in {"pending", "running", "suspended"}
    /\ ~task[t].cancel
    /\ task' = [task EXCEPT ![t].cancel = TRUE,
                            ![t].status = IF @ = "running" THEN @ ELSE "over"]
    /\ UNCHANGED <<run, talk, sender, taken, origin, lost, unsure, twice, faults>>

(* The reaper gives the task up; its process goes on until it notices. *)
Reap(t) ==
    /\ Live(t)
    /\ task' = [task EXCEPT ![t].status = "over"]
    /\ UNCHANGED <<run, talk, sender, taken, origin, lost, unsure, twice, faults>>

(* The process dies: the task is queued once more, or failed. *)
Crash(t) ==
    /\ run[t].at # "off"
    /\ Fault
    /\ \E status \in IF task[t].status = "running" /\ ~task[t].cancel
                     THEN {"pending", "over"} ELSE {"over"} :
          task' = [task EXCEPT ![t].status = status]
    /\ run' = [run EXCEPT ![t] = Idle]
    /\ lost' = [lost EXCEPT ![t] = @ \cup (InHand(t) \ InSlot(t))]
    /\ unsure' = [unsure EXCEPT ![t] =
          @ \cup (IF run[t].at = "wrote" THEN {run[t].info.revision} ELSE {})]
    /\ UNCHANGED <<talk, sender, taken, origin, twice>>

(* The report of a run: a dispatch suspends the task, everything else ends   *)
(* it. What waits in the slot of an ended task is not looked at again.       *)
Report(t) ==
    /\ run[t].at = "done"
    /\ task' = [task EXCEPT ![t].status =
          IF @ = "running" /\ run[t].result \in {"dispatch", "compact"} /\ ~task[t].cancel
          THEN "suspended" ELSE "over"]
    /\ run' = [run EXCEPT ![t] = Idle]
    /\ lost' = [lost EXCEPT ![t] = @ \cup (InHand(t) \ InSlot(t))]
    /\ UNCHANGED <<talk, sender, taken, origin, unsure, twice, faults>>

(***************************************************************************)
(* Engine: one step of the loop is look, write, acknowledge, think, answer  *)
(***************************************************************************)
(* The step is over: the next one starts, or it was the last and the task   *)
(* fails ("max_steps reached"), whatever has been read by then.             *)
End(r, result) == [r EXCEPT !.at = "done", !.result = result]
Continue(r) == {[r EXCEPT !.at = "top", !.mark = 0, !.blind = FALSE], End(r, "fail")}

(* check_preempted, if nothing was read before. *)
Sees(r, t) ==
    IF r.soft \/ r.info # NoInfo \/ ~task[t].requested THEN r
    ELSE IF task[t].message = NoText THEN [r EXCEPT !.soft = TRUE]
    ELSE [r EXCEPT !.info = [message |-> task[t].message, revision |-> task[t].revision]]

(* ... and the request may fail, which looks like "no message". *)
Blind(r) == [r EXCEPT !.blind = TRUE]
Looks(t, n) ==
    \/ n = Sees(run[t], t) /\ UNCHANGED faults
    \/ n = Blind(run[t]) /\ ~run[t].soft /\ run[t].info = NoInfo /\ Fault
Views(t) == {Sees(run[t], t), Blind(run[t])}

(* What the loop does to its own state; the supervisor's side stays. *)
Goes(t, n) ==
    /\ run' = [run EXCEPT ![t] = n]
    /\ UNCHANGED <<task, talk, sender, taken, origin, lost, unsure, twice>>

(* Cancels are looked for at the top, while the model answers, between tools *)
(* and before a suspension.                                                  *)
NoticeCancel(t) ==
    /\ task[t].cancel
    /\ run[t].at \in {"top", "think", "text", "tools", "wait"}
    /\ Goes(t, End(run[t], "cancelled"))
    /\ UNCHANGED faults

(* PreemptChecker.handle *)
LookAtTop(t) ==
    /\ run[t].at = "top"
    /\ \E n \in Views(t) :
          /\ Looks(t, n)
          /\ Goes(t, [n EXCEPT !.at = IF n.info = NoInfo THEN "think" ELSE "inject",
                               !.blind = FALSE])

(* _inject_preempt_message: the message is on disk before it is acknowledged. *)
(* A write that fails after its retries is reported and the task goes on.     *)
Inject(t) ==
    /\ run[t].at = "inject"
    /\ \/ /\ talk' = [talk EXCEPT ![t] = Append(@, run[t].info)]
          /\ UNCHANGED <<lost, faults>>
       \/ /\ lost' = [lost EXCEPT ![t] = @ \cup {run[t].info.revision}]
          /\ Fault
          /\ UNCHANGED talk
    /\ run' = [run EXCEPT ![t].at = "wrote"]
    /\ UNCHANGED <<task, sender, taken, origin, unsure, twice>>

(* Mutant: the loop does not forget what it wrote. *)
AcknowledgeUncleared(t) ==
    /\ run[t].at = "wrote"
    /\ task' = [task EXCEPT ![t] = Consumed(@, run[t].info.revision)]
    /\ run' = [run EXCEPT ![t].at = "think"]
    /\ UNCHANGED <<talk, sender, taken, origin, lost, unsure, twice, faults>>

(* consume_preempt: its errors are swallowed. *)
Acknowledge(t) ==
    /\ run[t].at = "wrote"
    /\ \/ /\ task' = [task EXCEPT ![t] = Consumed(@, run[t].info.revision)]
          /\ UNCHANGED <<unsure, faults>>
       \/ /\ unsure' = [unsure EXCEPT ![t] = @ \cup {run[t].info.revision}]
          /\ Fault
          /\ UNCHANGED task
    /\ run' = [run EXCEPT ![t].at = "think", ![t].info = NoInfo]
    /\ UNCHANGED <<talk, sender, taken, origin, lost, twice>>

(* poll_preempt, while the provider is at work: a message that comes while   *)
(* the model still thinks breaks the answer off, one that comes while it     *)
(* writes (or a provider that does not stream answers) is kept.              *)
Poll(t) ==
    /\ run[t].at \in {"think", "text"}
    /\ run[t].info = NoInfo /\ ~run[t].soft /\ task[t].requested
    /\ \E n \in IF run[t].at = "think" /\ Waiting(t)
                THEN Continue(Sees(run[t], t)) ELSE {Sees(run[t], t)} : Goes(t, n)
    /\ UNCHANGED faults

StartText(t) ==
    /\ run[t].at = "think"
    /\ Goes(t, [run[t] EXCEPT !.at = "text"])
    /\ UNCHANGED faults

(* The answer is there: tool calls, finish or ask, stay_silent, a dispatch   *)
(* to wait for, plain text, or only calls of tools the node does not have.   *)
(* Or there is none, and the task fails or has its conversation compacted.   *)
Answer(t) ==
    /\ run[t].at \in {"think", "text"}
    /\ \/ \E kind \in {"tools", "finish", "silent", "wait", "plain", "refused"} :
             Goes(t, [run[t] EXCEPT !.at = kind, !.mark = task[t].revision])
       \/ \E result \in {"fail", "compact"} : Goes(t, End(run[t], result))
    /\ UNCHANGED faults

(* _handle_tool_calls after the tools: a soft stop ends the task if a real   *)
(* tool ran. On the last step none runs and what was said so far is delivered *)
(* (_step_limit_wrapup) unless a message waits. switch_node ends the task at  *)
(* once, compact_context dispatches.                                          *)
ToolsDone(t) ==
    /\ run[t].at = "tools"
    /\ \/ \E n \in Continue(run[t]) : Goes(t, n)
       \/ run[t].soft /\ Goes(t, End(run[t], "preempted"))
       \/ \E result \in {"implicit", "compact"} : Goes(t, End(run[t], result))
    /\ UNCHANGED faults

(* Mutant: the finish does not look for messages. *)
FinishUnseeing(t) ==
    /\ run[t].at = "finish"
    /\ \E n \in IF run[t].info # NoInfo THEN Continue(run[t])
                ELSE IF run[t].soft THEN {End(run[t], "preempted")}
                ELSE Continue(run[t]) \cup {End(run[t], x) : x \in {"finish", "implicit"}} :
          Goes(t, n)
    /\ UNCHANGED faults

(* finish and ask: intercepted by a message; or sent back for a better text, *)
(* which on the last step delivers what the tools did.                        *)
Finish(t) ==
    /\ run[t].at = "finish"
    /\ \E v \in Views(t) :
          /\ Looks(t, v)
          /\ \E n \in IF v.info # NoInfo THEN Continue(v)
                      ELSE IF v.soft THEN {End(v, "preempted")}
                      ELSE Continue(v) \cup {End(v, x) : x \in {"finish", "implicit"}} :
                Goes(t, n)

(* _handle_pseudo_stay_silent: refused when a message came, deaf to a stop. *)
StaySilent(t) ==
    /\ run[t].at = "silent"
    /\ \E v \in Views(t) :
          /\ Looks(t, v)
          /\ \E n \in IF v.info # NoInfo THEN Continue(v) ELSE {End(v, "silent")} : Goes(t, n)

(* A dispatch to wait for: the last look before the task is suspended. *)
Suspend(t) ==
    /\ run[t].at = "wait"
    /\ \E v \in Views(t) :
          /\ Looks(t, v)
          /\ \E n \in IF v.info # NoInfo THEN Continue(v)
                      ELSE {End(v, IF v.soft THEN "preempted" ELSE "dispatch")} : Goes(t, n)

(* PlaintextRetryHandler: a text is delivered as the result, or the model is *)
(* asked again, as it is for an empty or a cut one; nobody looks for a message. *)
PlainText(t) ==
    /\ run[t].at = "plain"
    /\ \E n \in Continue(run[t]) \cup
                {End(run[t], IF run[t].soft THEN "preempted" ELSE "implicit")} : Goes(t, n)
    /\ UNCHANGED faults

(* A node without tools that calls some: its text is delivered, or it fails. *)
Refused(t) ==
    /\ run[t].at = "refused"
    /\ \E result \in {"implicit", "fail"} : Goes(t, End(run[t], result))
    /\ UNCHANGED faults

(***************************************************************************)
(* Adapter and models                                                      *)
(***************************************************************************)
(* get_running_tasks and preempt_candidates: tasks of other senders or for   *)
(* other purposes are left out; so are all when the request fails.           *)
ListTasks(m) ==
    /\ m \in Users /\ sender[m].at = "new"
    /\ \E left \in SUBSET {t \in Tasks : Live(t)} :
          sender' = [sender EXCEPT ![m] = [at |-> "asking", left |-> left]]
    /\ UNCHANGED <<task, run, talk, taken, origin, lost, unsure, twice, faults>>

Acceptance(m) == [sender EXCEPT ![m] = [at |-> "done", left |-> {}]]
Refusal(m, t) == [sender EXCEPT ![m].left = @ \ {t}]

(* The oldest candidate is asked, and takes the message if it still runs. A  *)
(* request that raises counts as a refusal, whether it was carried out or not. *)
Offer(m, t) ==
    /\ sender[m].at = "asking"
    /\ t \in sender[m].left /\ \A u \in sender[m].left : t <= u
    /\ \/ /\ Live(t)
          /\ Overwrite(t, m)
          /\ \/ sender' = Acceptance(m) /\ UNCHANGED <<twice, faults>>
             \/ sender' = Refusal(m, t) /\ Fault /\ twice' = twice \cup {m}
       \/ /\ ~Live(t)
          /\ sender' = Refusal(m, t)
          /\ UNCHANGED <<task, taken, lost, twice, faults>>
       \/ /\ Live(t)
          /\ sender' = Refusal(m, t)
          /\ Fault
          /\ UNCHANGED <<task, taken, lost, twice>>
    /\ UNCHANGED <<run, talk, origin, unsure>>

(* submit_inbound: nobody took it, a task of its own starts. *)
Submit(m) ==
    /\ sender[m].at = "asking" /\ sender[m].left = {}
    /\ \E t \in Tasks :
          /\ task[t].status = "none"
          /\ \A u \in 1 .. t - 1 : task[u].status # "none"
          /\ task' = [task EXCEPT ![t].status = "pending"]
          /\ origin' = [origin EXCEPT ![t] = m]
    /\ sender' = Acceptance(m)
    /\ UNCHANGED <<run, talk, taken, lost, unsure, twice, faults>>

(* preempt_task of a model: one attempt, from a task that runs tools. *)
Steer(m, t) ==
    /\ m \in Notes /\ sender[m].at = "new"
    /\ Live(t)
    /\ \E caller \in Tasks \ {t} : Live(caller) /\ run[caller].at = "tools"
    /\ Overwrite(t, m)
    /\ sender' = Acceptance(m)
    /\ UNCHANGED <<run, talk, origin, unsure, twice, faults>>

Next ==
    \/ \E t \in Tasks :
          \/ Claim(t) \/ Resume(t) \/ Cancel(t) \/ Reap(t) \/ Crash(t) \/ Report(t)
          \/ NoticeCancel(t) \/ LookAtTop(t) \/ Inject(t) \/ Acknowledge(t)
          \/ Poll(t) \/ StartText(t) \/ Answer(t) \/ ToolsDone(t) \/ Finish(t)
          \/ StaySilent(t) \/ Suspend(t) \/ PlainText(t) \/ Refused(t)
    \/ \E m \in Messages : ListTasks(m) \/ Submit(m)
    \/ \E m \in Messages, t \in Tasks : Offer(m, t) \/ Steer(m, t)

Spec == Init /\ [][Next]_vars

(***************************************************************************)
(* Properties                                                              *)
(***************************************************************************)
Runs == [at : {"off", "top", "inject", "wrote", "think", "text", "tools", "finish",
               "silent", "wait", "plain", "refused", "done"},
         info : Infos, soft : BOOLEAN, mark : Nat, blind : BOOLEAN,
         result : {"none", "finish", "silent", "dispatch", "compact", "implicit",
                   "preempted", "fail", "cancelled"}]
TaskRecords == [status : {"none", "pending", "running", "suspended", "over"},
                cancel : BOOLEAN, requested : BOOLEAN,
                message : Messages \cup {NoText}, revision : Nat]

TypeOK ==
    /\ task \in [Tasks -> TaskRecords]
    /\ run \in [Tasks -> Runs]
    /\ talk \in [Tasks -> Seq(Infos)]
    /\ sender \in [Messages -> [at : {"new", "asking", "done"}, left : SUBSET Tasks]]
    /\ taken \in [Tasks -> Seq(Messages)]
    /\ origin \in [Tasks -> Messages \cup {NoText}]
    /\ lost \in [Tasks -> SUBSET Nat]
    /\ unsure \in [Tasks -> SUBSET Nat]
    /\ twice \subseteq Messages
    /\ faults \in Nat

(* NothingVanishes: a message a task accepted is in its conversation, still in *)
(* the slot, or in the hands of the process that read it. It is lost only when *)
(* a later one replaced it before anybody read it, its write failed, or the    *)
(* process that held it stopped after the slot had moved on. In particular an  *)
(* acknowledgement never clears a message that came after the one it is about. *)
Accounted(t) ==
    \A i \in 1 .. Len(taken[t]) : taken[t][i] \notin Quiet =>
        i \in Written(t) \cup InSlot(t) \cup InHand(t) \cup lost[t]

NothingVanishes == \A t \in Tasks : Accounted(t)

(* LastLookCounts: a task that ends with finish, ask or stay_silent, or        *)
(* suspends itself, leaves no message behind that was there when the model's   *)
(* answer was complete, unless the request for it failed. (Plain text and the  *)
(* last step deliver without looking.)                                         *)
EndsInformed(t) ==
    /\ run[t].at = "done"
    /\ run[t].result \in {"finish", "silent", "dispatch"}
    /\ ~run[t].soft /\ ~run[t].blind
    => InHand(t) = {} /\ \A i \in InSlot(t) : i > run[t].mark

LastLookCounts == \A t \in Tasks : EndsInformed(t)

(* WrittenOnceInOrder: a conversation gets the messages in the order they were *)
(* accepted, each once, unless an acknowledgement was lost or the process died *)
(* before it; and a user's message goes to one task, unless the adapter did    *)
(* not hear that one had taken it.                                             *)
TookIt(t, m) == origin[t] = m \/ \E i \in 1 .. Len(taken[t]) : taken[t][i] = m

Follows(t, x, y) ==
    \/ x.revision < y.revision
    \/ x = y /\ y.revision \in unsure[t]

InOrder(t) ==
    \A j \in 1 .. Len(talk[t]) : \A k \in 1 .. j - 1 : Follows(t, talk[t][k], talk[t][j])

WrittenOnceInOrder ==
    /\ \A t \in Tasks : InOrder(t)
    /\ \A m \in Users \ twice : \A t, u \in Tasks : TookIt(t, m) /\ TookIt(u, m) => t = u
=============================================================================
