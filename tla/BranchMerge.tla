----------------------------- MODULE BranchMerge -----------------------------
(***************************************************************************)
(* What finalizing an entry branch promises: the messages of the branch are *)
(* copied to the parent conversation, each once; the branch is deleted only *)
(* when all of them are there; the user gets the reply after that.          *)
(* BranchFinalize implements it with claims, fences, locks and crashes.     *)
(***************************************************************************)
EXTENDS Naturals

CONSTANT Messages   \* what the branch wrote after it was forked

VARIABLES
    parent,     \* how often the parent conversation holds each message
    branch,     \* the messages in the branch's own file
    replied     \* the completion has been routed to the user

vars == <<parent, branch, replied>>

Init ==
    /\ parent = [m \in Messages |-> 0]
    /\ branch = Messages
    /\ replied = FALSE

(* Some of the messages that are still missing are appended. *)
Copy ==
    /\ \E some \in SUBSET {m \in branch : parent[m] = 0} :
           parent' = [m \in Messages |-> IF m \in some THEN 1 ELSE parent[m]]
    /\ UNCHANGED <<branch, replied>>

Drop ==
    /\ \A m \in branch : parent[m] = 1
    /\ branch' = {}
    /\ UNCHANGED <<parent, replied>>

Reply ==
    /\ branch = {}
    /\ replied' = TRUE
    /\ UNCHANGED <<parent, branch>>

Next == Copy \/ Drop \/ Reply

Spec == Init /\ [][Next]_vars
=============================================================================
