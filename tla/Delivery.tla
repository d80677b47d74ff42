------------------------------ MODULE Delivery ------------------------------
(***************************************************************************)
(* What the queue workers promise whoever queues a job: it is done only    *)
(* after its mail went out, and what is done or given up stays so.  How    *)
(* often the mail goes out, who sends it and what fails is not said.       *)
(***************************************************************************)
EXTENDS Naturals

CONSTANTS Jobs

VARIABLES
    outcome,   \* what became of a job
    mails      \* how often its mail went out

vars == <<outcome, mails>>

Init ==
    /\ outcome = [j \in Jobs |-> "none"]
    /\ mails = [j \in Jobs |-> 0]

Accept(j) ==
    /\ outcome[j] = "none"
    /\ outcome' = [outcome EXCEPT ![j] = "pending"]
    /\ UNCHANGED mails

Mail(j) ==
    /\ outcome[j] # "none"
    /\ mails' = [mails EXCEPT ![j] = @ + 1]
    /\ UNCHANGED outcome

Complete(j) ==
    /\ outcome[j] = "pending" /\ mails[j] > 0
    /\ outcome' = [outcome EXCEPT ![j] = "completed"]
    /\ UNCHANGED mails

GiveUp(j) ==
    /\ outcome[j] = "pending"
    /\ outcome' = [outcome EXCEPT ![j] = "failed"]
    /\ UNCHANGED mails

Next == \E j \in Jobs : Accept(j) \/ Mail(j) \/ Complete(j) \/ GiveUp(j)

Spec == Init /\ [][Next]_vars
=============================================================================
