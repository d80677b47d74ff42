------------------------------ MODULE MailJobs ------------------------------
(***************************************************************************)
(* The workers of the payment queue and of the invoice queue, with the PDF *)
(* each makes and the mail it sends, over BullMQ's delivery of jobs.       *)
(*                                                                         *)
(* The queues share nothing: the module is one of the two.  An instance is *)
(* a process with one worker of the queue; an action is the code between   *)
(* two awaits with the call the first of them waits for.  BullMQ, which is *)
(* external, takes a job back from a worker whose lock has lapsed, so that *)
(* two workers may run one job.                                            *)
(***************************************************************************)
EXTENDS Naturals, FiniteSets

CONSTANTS
    Queues,      \* the queues considered
    Jobs,
    Instances,
    MaxFaults,   \* bounds on the faults that hit each job
    None

ASSUME MailJobsAssumption ==
    /\ Queues \subseteq {"payment", "invoice"}
    /\ IsFiniteSet(Jobs) /\ IsFiniteSet(Instances)
    /\ MaxFaults \in [Jobs -> Nat]
    /\ None \notin Jobs \cup Instances

VARIABLES
    queue,     \* the queue of this behaviour
    state,     \* BullMQ: the state of a job
    attempts,  \* BullMQ: attempts that ended in an error
    stalls,    \* BullMQ: how often the job was taken back
    lock,      \* BullMQ: the instance that holds the job's lock
    run,       \* the job an instance runs, and the await it stands at
    browsers,  \* Chromium processes an instance has open
    mails,     \* how often the mail of a job went out
    faults     \* faults that hit a job

bullVars == <<state, attempts, stalls, lock>>
vars == <<queue, bullVars, run, browsers, mails, faults>>

\* Mutant: jobs are queued without options.
AttemptsByDefault == [payment |-> 1, invoice |-> 1]

Attempts == [payment |-> 5, invoice |-> 3]

\* External: maxStalledCount, which no code sets.
MaxStalls == 1

First == [payment |-> "launch", invoice |-> "findInvoice"]

Unsent == {"findInvoice", "launch", "render", "close", "send"}
Sent == {"resolve"}
Idle == [job |-> None, at |-> "idle"]
Run == {Idle} \cup [job : Jobs, at : Unsent \cup Sent \cup {"reject"}]

Ended == {"completed", "failed"}

TypeOK ==
    /\ queue \in Queues
    /\ state \in [Jobs -> {"none", "waiting", "active", "delayed"} \cup Ended]
    /\ attempts \in [Jobs -> 0..Attempts[queue]]
    /\ stalls \in [Jobs -> 0..MaxStalls]
    /\ lock \in [Jobs -> Instances \cup {None}]
    /\ run \in [Instances -> Run]
    /\ browsers \in [Instances -> Nat]
    /\ mails \in [Jobs -> Nat]
    /\ faults \in [Jobs -> Nat] /\ \A j \in Jobs : faults[j] <= MaxFaults[j]

Init ==
    /\ queue \in Queues
    /\ state = [j \in Jobs |-> "none"]
    /\ attempts = [j \in Jobs |-> 0] /\ stalls = [j \in Jobs |-> 0]
    /\ lock = [j \in Jobs |-> None]
    /\ run = [i \in Instances |-> Idle]
    /\ browsers = [i \in Instances |-> 0]
    /\ mails = [j \in Jobs |-> 0]
    /\ faults = [j \in Jobs |-> 0]

-----------------------------------------------------------------------------
(* The queue                                                               *)

\* queueReceiptEmail, or the add of createInvoice.
Add(j) ==
    /\ state[j] = "none"
    /\ state' = [state EXCEPT ![j] = "waiting"]
    /\ UNCHANGED <<queue, attempts, stalls, lock, run, browsers, mails, faults>>

\* process: the name of a job is the one its queue is given.
Take(i, j) ==
    /\ run[i] = Idle /\ state[j] = "waiting"
    /\ state' = [state EXCEPT ![j] = "active"]
    /\ lock' = [lock EXCEPT ![j] = i]
    /\ run' = [run EXCEPT ![i] = [job |-> j, at |-> First[queue]]]
    /\ UNCHANGED <<queue, attempts, stalls, browsers, mails, faults>>

Hit(j) ==
    /\ faults[j] < MaxFaults[j]
    /\ faults' = [faults EXCEPT ![j] = @ + 1]

\* A job whose lock the worker no longer holds is not its to end.
Leave(i, j, status) ==
    /\ IF lock[j] = i
         THEN /\ state' = [state EXCEPT ![j] = status]
              /\ lock' = [lock EXCEPT ![j] = None]
         ELSE UNCHANGED <<state, lock>>
    /\ run' = [run EXCEPT ![i] = Idle]

\* process has returned.
Resolve(i) ==
    /\ run[i].at = "resolve"
    /\ Leave(i, run[i].job, "completed")
    /\ UNCHANGED <<queue, attempts, stalls, browsers, mails, faults>>

\* process has thrown.
Reject(i) ==
    LET j == run[i].job
    IN  /\ run[i].at = "reject"
        /\ Leave(i, j, IF attempts[j] + 1 < Attempts[queue] THEN "delayed" ELSE "failed")
        /\ attempts' = IF lock[j] = i THEN [attempts EXCEPT ![j] = @ + 1] ELSE attempts
        /\ UNCHANGED <<queue, stalls, browsers, mails, faults>>

\* External: the delay of the exponential backoff is over.
BackoffEnds(j) ==
    /\ state[j] = "delayed"
    /\ state' = [state EXCEPT ![j] = "waiting"]
    /\ UNCHANGED <<queue, attempts, stalls, lock, run, browsers, mails, faults>>

Holds(i, j) == lock[j] = i /\ run[i].job = j

\* External: the lock of a worker that died is not renewed.
LockLapses(j) ==
    /\ lock[j] # None /\ ~Holds(lock[j], j)
    /\ lock' = [lock EXCEPT ![j] = None]
    /\ UNCHANGED <<queue, state, attempts, stalls, run, browsers, mails, faults>>

\* External: a worker that still runs did not get to renew its lock in time.
LoseLock(j) ==
    /\ lock[j] # None /\ Holds(lock[j], j)
    /\ Hit(j)
    /\ lock' = [lock EXCEPT ![j] = None]
    /\ UNCHANGED <<queue, state, attempts, stalls, run, browsers, mails>>

\* External: an active job without a lock has stalled.
TakeBack(j) ==
    /\ state[j] = "active" /\ lock[j] = None
    /\ \/ /\ stalls[j] < MaxStalls
          /\ stalls' = [stalls EXCEPT ![j] = @ + 1]
          /\ state' = [state EXCEPT ![j] = "waiting"]
       \/ /\ stalls[j] = MaxStalls
          /\ state' = [state EXCEPT ![j] = "failed"]
          /\ UNCHANGED stalls
    /\ UNCHANGED <<queue, attempts, lock, run, browsers, mails, faults>>

-----------------------------------------------------------------------------
(* A run of a job                                                          *)

Goto(i, label) == run' = [run EXCEPT ![i].at = label]

\* The invoice of a job is there: no code deletes one.
FindInvoice(i) ==
    /\ run[i].at = "findInvoice"
    /\ Goto(i, "launch")
    /\ UNCHANGED <<queue, bullVars, browsers, mails, faults>>

LaunchBrowser(i) ==
    /\ run[i].at = "launch"
    /\ browsers' = [browsers EXCEPT ![i] = @ + 1]
    /\ Goto(i, "render")
    /\ UNCHANGED <<queue, bullVars, mails, faults>>

\* Mutant: a page that never finishes loading.
RenderHangs(i) ==
    /\ run[i].at = "render"
    /\ UNCHANGED vars

Render(i) ==
    /\ run[i].at = "render"
    /\ Goto(i, "close")
    /\ UNCHANGED <<queue, bullVars, browsers, mails, faults>>

\* Mutant: a browser that is already closed is closed again.
CloseBrowserTwice(i) ==
    /\ run[i].at = "close"
    /\ browsers' = [browsers EXCEPT ![i] = @ - 2]
    /\ Goto(i, "send")
    /\ UNCHANGED <<queue, bullVars, mails, faults>>

\* Mutant: the browser is never closed.
CloseNoBrowser(i) ==
    /\ run[i].at = "close"
    /\ Goto(i, "send")
    /\ UNCHANGED <<queue, bullVars, browsers, mails, faults>>

CloseBrowser(i) ==
    /\ run[i].at = "close"
    /\ browsers' = [browsers EXCEPT ![i] = @ - 1]
    /\ Goto(i, "send")
    /\ UNCHANGED <<queue, bullVars, mails, faults>>

\* Mutant: the mail is sent again when the first one is out.
SendMailAgain(i) ==
    /\ run[i].at = "send"
    /\ mails' = [mails EXCEPT ![run[i].job] = @ + 1]
    /\ \/ Goto(i, "resolve")
       \/ UNCHANGED run
    /\ UNCHANGED <<queue, bullVars, browsers, faults>>

SendMail(i) ==
    /\ run[i].at = "send"
    /\ mails' = [mails EXCEPT ![run[i].job] = @ + 1]
    /\ Goto(i, "resolve")
    /\ UNCHANGED <<queue, bullVars, browsers, faults>>

\* Mutant: the error is logged and not thrown on.
CallFailsQuietly(i) ==
    /\ run[i].at \in Unsent
    /\ Hit(run[i].job)
    /\ Goto(i, "resolve")
    /\ UNCHANGED <<queue, bullVars, browsers, mails>>

\* The call the run waits for is rejected, and the error thrown on.  A browser
\* that is open stays so; a mail may have left all the same.
CallFails(i) ==
    LET j == run[i].job
    IN  /\ run[i].at \in Unsent
        /\ Hit(j)
        /\ \/ UNCHANGED mails
           \/ run[i].at = "send" /\ mails' = [mails EXCEPT ![j] = @ + 1]
        /\ Goto(i, "reject")
        /\ UNCHANGED <<queue, bullVars, browsers>>

\* The process dies, its browsers with it, and is started again.
Die(i) ==
    /\ run[i] # Idle
    /\ Hit(run[i].job)
    /\ run' = [run EXCEPT ![i] = Idle]
    /\ browsers' = [browsers EXCEPT ![i] = 0]
    /\ UNCHANGED <<queue, bullVars, mails>>

-----------------------------------------------------------------------------
RunStep(i) ==
    \/ FindInvoice(i) \/ LaunchBrowser(i) \/ Render(i) \/ CloseBrowser(i)
    \/ SendMail(i) \/ Resolve(i) \/ Reject(i)

QueueStep(j) == BackoffEnds(j) \/ LockLapses(j) \/ TakeBack(j)

Next ==
    \/ \E j \in Jobs : Add(j) \/ QueueStep(j) \/ LoseLock(j)
    \/ \E i \in Instances, j \in Jobs : Take(i, j)
    \/ \E i \in Instances : RunStep(i) \/ CallFails(i) \/ Die(i)

\* BullMQ hands a waiting job to an idle worker, ends delays, lapses locks and
\* takes stalled jobs back; every call of a run is answered or times out.
Fairness ==
    /\ \A j \in Jobs : WF_vars(\E i \in Instances : Take(i, j)) /\ WF_vars(QueueStep(j))
    /\ \A i \in Instances : WF_vars(RunStep(i))

Spec == Init /\ [][Next]_vars
FairSpec == Spec /\ Fairness

-----------------------------------------------------------------------------
(* Properties                                                              *)

Outcome(s) ==
    CASE s = "none" -> "none" [] s \in Ended -> s [] OTHER -> "pending"

D == INSTANCE Delivery WITH outcome <- [j \in Jobs |-> Outcome(state[j])]

\* "Let BullMQ retry": a job is done only when its mail went out, and what is
\* done or given up is not run into another end by a worker that lost its lock.
ImplementsDelivery == D!Spec

\* A mail is sent again only for a fault: the number of receipts a customer gets
\* is bounded by the faults that hit the job, however two workers of it overlap.
MailsAreAccounted == \A j \in Jobs : mails[j] <= 1 + faults[j]

\* "attempts": no job is given up for a single fault.
OneFaultIsSurvived == \A j \in Jobs : state[j] = "failed" => faults[j] > 1

Rendering == {i \in Instances : run[i].at \in {"render", "close"}}

\* What a function counts, one by one.
Units(count) == UNION {{x} \X (1..count[x]) : x \in DOMAIN count}

\* Between the launch and browser.close() there is no try: a fault may leave a
\* browser open, but over all processes one at most, and nothing else leaves any.
BrowsersAreAccounted ==
    Cardinality(Units(browsers)) <= Cardinality(Rendering) + Cardinality(Units(faults))

\* Every job that was queued is done or given up in the end.
EveryJobEnds == \A j \in Jobs : state[j] # "none" ~> state[j] \in Ended
=============================================================================
