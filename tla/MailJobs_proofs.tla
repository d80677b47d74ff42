-------------------------- MODULE MailJobs_proofs --------------------------
(***************************************************************************)
(* Theorems about MailJobs, for every number of jobs, instances and        *)
(* faults: types, what bounds the mails of a job and when it is given up,  *)
(* what bounds the browsers left open, and that the workers over BullMQ    *)
(* implement Delivery.                                                     *)
(***************************************************************************)
EXTENDS MailJobs, FiniteSetTheorems, TLAPS

-----------------------------------------------------------------------------
(* Types.  A browser that is rendering is open, a run that resolves has     *)
(* sent its mail, a job that is run was queued, a lock is on an active job, *)
(* and a job that has not ended has attempts left.                          *)

Structure ==
    /\ \A i \in Instances : run[i].at \in {"render", "close"} => browsers[i] > 0
    /\ \A i \in Instances : run[i].at = "resolve" => mails[run[i].job] > 0
    /\ \A i \in Instances : run[i].job # None => state[run[i].job] # "none"
    /\ \A j \in Jobs : lock[j] # None => state[j] = "active"
    /\ \A j \in Jobs : state[j] \notin Ended => attempts[j] < Attempts[queue]

TypeInv == TypeOK /\ Structure

\* There are at least three attempts.
LEMMA AttemptsType ==
    ASSUME NEW q \in Queues
    PROVE  Attempts[q] \in Nat /\ Attempts[q] > 2
BY MailJobsAssumption DEF Attempts

LEMMA FirstType ==
    ASSUME NEW q \in Queues
    PROVE  First[q] \in {"launch", "findInvoice"}
BY MailJobsAssumption DEF First

LEMMA JobOfRun ==
    ASSUME TypeOK, NEW i \in Instances
    PROVE  run[i].job \in Jobs \cup {None} /\ (run[i].at # "idle" => run[i].job \in Jobs)
<1>1. run[i] \in Run
  BY DEF TypeOK
<1>2. QED
  BY <1>1 DEF Run, Idle

\* A worker that is not idle runs a job, and goes on with the same.
LEMMA GotoRun ==
    ASSUME TypeOK, NEW i \in Instances, run[i].at # "idle",
           NEW label \in Unsent \cup Sent \cup {"reject"}, Goto(i, label)
    PROVE  /\ run[i].job \in Jobs
           /\ [job |-> run[i].job, at |-> label] \in Run
           /\ run' = [run EXCEPT ![i] = [job |-> run[i].job, at |-> label]]
<1>1. run[i] \in Run
  BY DEF TypeOK
<1>2. run[i] \in [job : Jobs, at : Unsent \cup Sent \cup {"reject"}]
  BY <1>1 DEF Run, Idle
<1>3. [run[i] EXCEPT !.at = label] = [job |-> run[i].job, at |-> label]
  BY <1>2
<1>4. QED
  BY <1>2, <1>3 DEF Goto, Run

LEMMA InitType == Init => TypeInv
<1>1. Idle \in Run /\ Idle.at = "idle" /\ Idle.job = None
  BY DEF Run, Idle
<1> SUFFICES ASSUME Init
             PROVE  TypeInv
  OBVIOUS
<1>2. Attempts[queue] \in Nat /\ Attempts[queue] > 2
  BY AttemptsType DEF Init
<1>3. TypeOK
  BY <1>1, <1>2, MailJobsAssumption DEF Init, TypeOK, MaxStalls
<1>4. Structure
  BY <1>1, <1>2 DEF Init, Structure
<1>5. QED
  BY <1>3, <1>4 DEF TypeInv

\* What BullMQ does to a job.
LEMMA QueueType ==
    ASSUME TypeInv, NEW j \in Jobs, Add(j) \/ QueueStep(j) \/ LoseLock(j)
    PROVE  TypeInv'
<1>1. queue' = queue /\ run' = run /\ browsers' = browsers /\ mails' = mails
  BY DEF Add, QueueStep, BackoffEnds, LockLapses, TakeBack, LoseLock
<1>2. CASE Add(j) \/ BackoffEnds(j)
  <2>1. TypeOK'
    BY <1>1, <1>2 DEF TypeInv, TypeOK, Add, BackoffEnds
  <2>2. /\ state[j] \in {"none", "delayed"} /\ state' = [state EXCEPT ![j] = "waiting"]
        /\ attempts' = attempts /\ lock' = lock
    BY <1>2 DEF Add, BackoffEnds
  <2>3. \A k \in Jobs : k # j => state'[k] = state[k]
    BY <2>2 DEF TypeInv, TypeOK
  <2>4. state'[j] = "waiting" /\ lock[j] = None
    BY <2>2 DEF TypeInv, TypeOK, Structure
  <2>5. \A i \in Instances : run'[i].job # None => state'[run'[i].job] # "none"
    <3>1. \A i \in Instances : run[i].job \in Jobs \cup {None}
      BY JobOfRun DEF TypeInv
    <3>2. QED
      BY <1>1, <2>3, <2>4, <3>1 DEF TypeInv, Structure
  <2>6. Structure'
    BY <1>1, <2>2, <2>3, <2>4, <2>5 DEF TypeInv, Structure, Ended
  <2>7. QED
    BY <2>1, <2>6 DEF TypeInv
<1>3. CASE LockLapses(j) \/ LoseLock(j)
  <2>1. TypeOK'
    BY <1>1, <1>3, MailJobsAssumption DEF TypeInv, TypeOK, LockLapses, LoseLock, Hit
  <2>2. Structure'
    BY <1>1, <1>3 DEF TypeInv, TypeOK, Structure, LockLapses, LoseLock
  <2>3. QED
    BY <2>1, <2>2 DEF TypeInv
<1>4. CASE TakeBack(j)
  <2>1. TypeOK'
    BY <1>1, <1>4 DEF TypeInv, TypeOK, TakeBack, Ended, MaxStalls
  <2>2. Structure'
    <3>1. PICK s \in {"waiting", "failed"} : state' = [state EXCEPT ![j] = s]
      BY <1>4 DEF TakeBack
    <3>2. /\ state[j] = "active" /\ lock[j] = None /\ lock' = lock /\ attempts' = attempts
      BY <1>4 DEF TakeBack
    <3>3. \A k \in Jobs : state'[k] = "none" => state[k] = "none"
      BY <3>1 DEF TypeInv, TypeOK
    <3>4. \A i \in Instances : run[i].job \in Jobs \cup {None}
      BY JobOfRun DEF TypeInv
    <3>5. QED
      BY <1>1, <3>1, <3>2, <3>3, <3>4 DEF TypeInv, TypeOK, Structure, Ended
  <2>3. QED
    BY <2>1, <2>2 DEF TypeInv
<1>5. QED
  BY <1>2, <1>3, <1>4 DEF QueueStep

\* A worker takes a job.
LEMMA TakeType ==
    ASSUME TypeInv, NEW i \in Instances, NEW j \in Jobs, Take(i, j)
    PROVE  TypeInv'
<1> DEFINE r == [job |-> j, at |-> First[queue]]
<1>1. r \in Run /\ r.job = j /\ r.at \in {"launch", "findInvoice"}
  BY FirstType DEF TypeInv, TypeOK, Run, Unsent
<1> HIDE DEF r
<1>2. /\ run' = [run EXCEPT ![i] = r] /\ state' = [state EXCEPT ![j] = "active"]
      /\ lock' = [lock EXCEPT ![j] = i] /\ state[j] = "waiting"
      /\ UNCHANGED <<queue, attempts, stalls, browsers, mails, faults>>
  BY DEF Take, r
<1>3. TypeOK'
  BY <1>1, <1>2 DEF TypeInv, TypeOK
<1>4. Structure'
  BY <1>1, <1>2 DEF TypeInv, TypeOK, Structure, Ended
<1>5. QED
  BY <1>3, <1>4 DEF TypeInv

\* A run that goes from one call to the next.
LEMMA CallType ==
    ASSUME TypeInv, NEW i \in Instances,
           \/ FindInvoice(i) \/ LaunchBrowser(i) \/ Render(i) \/ CloseBrowser(i)
           \/ SendMail(i) \/ CallFails(i)
    PROVE  TypeInv'
<1>1. PICK label \in {"launch", "render", "close", "send", "resolve", "reject"} :
        /\ Goto(i, label) /\ run[i].at \in Unsent
        /\ label = "render" => run[i].at = "launch" /\ browsers' = [browsers EXCEPT ![i] = @ + 1]
        /\ label = "close" => run[i].at = "render" /\ browsers' = browsers
        /\ label = "resolve" => mails' = [mails EXCEPT ![run[i].job] = @ + 1]
        /\ \/ browsers' = browsers
           \/ browsers' = [browsers EXCEPT ![i] = @ + 1]
           \/ run[i].at = "close" /\ browsers' = [browsers EXCEPT ![i] = @ - 1]
        /\ mails' = mails \/ mails' = [mails EXCEPT ![run[i].job] = @ + 1]
        /\ faults' = faults \/ Hit(run[i].job)
        /\ UNCHANGED <<queue, bullVars>>
  BY DEF FindInvoice, LaunchBrowser, Render, CloseBrowser, SendMail, CallFails, Unsent
<1> DEFINE j == run[i].job
           r == [job |-> j, at |-> label]
<1>2. j \in Jobs /\ r \in Run /\ run' = [run EXCEPT ![i] = r]
  BY <1>1, GotoRun DEF TypeInv, Unsent, Sent
<1>3. r.job = j /\ r.at = label
  OBVIOUS
<1>4. browsers' \in [Instances -> Nat]
  BY <1>1 DEF TypeInv, TypeOK, Structure
<1>5. mails' \in [Jobs -> Nat] /\ \A k \in Jobs : mails'[k] >= mails[k]
  BY <1>1, <1>2 DEF TypeInv, TypeOK
<1>6. faults' \in [Jobs -> Nat] /\ \A k \in Jobs : faults'[k] <= MaxFaults[k]
  BY <1>1, <1>2, MailJobsAssumption DEF TypeInv, TypeOK, Hit
<1> HIDE DEF r
<1>7. TypeOK'
  BY <1>1, <1>2, <1>4, <1>5, <1>6 DEF TypeInv, TypeOK, bullVars
<1>8. Structure'
  <2>1. ASSUME NEW g \in Instances, run'[g].at \in {"render", "close"}
        PROVE  browsers'[g] > 0
    BY <1>1, <1>2, <1>3, <2>1 DEF TypeInv, TypeOK, Structure
  <2>2. ASSUME NEW g \in Instances, run'[g].at = "resolve"
        PROVE  mails'[run'[g].job] > 0
    <3>1. CASE g = i
      BY <1>1, <1>2, <1>3, <2>2, <3>1 DEF TypeInv, TypeOK
    <3>2. CASE g # i
      <4>1. run'[g] = run[g] /\ run[g] \in Run
        BY <1>2, <3>2 DEF TypeInv, TypeOK
      <4>2. run[g].job \in Jobs
        BY <2>2, <4>1 DEF Run, Idle
      <4>3. QED
        BY <1>5, <2>2, <4>1, <4>2 DEF TypeInv, TypeOK, Structure
    <3>3. QED
      BY <3>1, <3>2
  <2>3. \A g \in Instances : run'[g].job # None => state'[run'[g].job] # "none"
    <3>1. j # None
      BY <1>2, MailJobsAssumption
    <3>2. QED
      BY <1>1, <1>2, <1>3, <3>1 DEF TypeInv, TypeOK, Structure, bullVars
  <2>4. QED
    BY <1>1, <2>1, <2>2, <2>3 DEF TypeInv, Structure, bullVars
<1>9. QED
  BY <1>7, <1>8 DEF TypeInv

\* A run that ends, one way or the other.
LEMMA EndType ==
    ASSUME TypeInv, NEW i \in Instances, Resolve(i) \/ Reject(i) \/ Die(i)
    PROVE  TypeInv'
<1> DEFINE j == run[i].job
<1>1. Idle \in Run /\ Idle.at = "idle" /\ Idle.job = None
  BY DEF Run, Idle
<1>2. j \in Jobs
  <2>1. run[i] # Idle /\ run[i] \in Run
    BY DEF Resolve, Reject, Die, Idle, TypeInv, TypeOK
  <2>2. QED
    BY <2>1 DEF Run
<1>3. run' = [run EXCEPT ![i] = Idle] /\ queue' = queue /\ stalls' = stalls /\ mails' = mails
  BY DEF Resolve, Reject, Die, Leave, bullVars
<1>4. browsers' \in [Instances -> Nat] /\ \A g \in Instances : g # i => browsers'[g] = browsers[g]
  BY DEF Resolve, Reject, Die, TypeInv, TypeOK
<1>5. faults' \in [Jobs -> Nat] /\ \A k \in Jobs : faults'[k] <= MaxFaults[k]
  BY <1>2, MailJobsAssumption DEF Resolve, Reject, Die, Hit, TypeInv, TypeOK
<1>6. \/ UNCHANGED <<state, lock, attempts>>
      \/ /\ lock[j] = i /\ lock' = [lock EXCEPT ![j] = None]
         /\ \/ state' = [state EXCEPT ![j] = "completed"] /\ attempts' = attempts
            \/ /\ state' = [state EXCEPT ![j] = "delayed"]
               /\ attempts[j] + 1 < Attempts[queue]
               /\ attempts' = [attempts EXCEPT ![j] = @ + 1]
            \/ /\ state' = [state EXCEPT ![j] = "failed"]
               /\ attempts' = [attempts EXCEPT ![j] = @ + 1]
  BY DEF Resolve, Reject, Die, Leave, bullVars
<1>7. i # None
  BY MailJobsAssumption
<1>8. attempts' \in [Jobs -> 0..Attempts[queue]]
  <2>1. Attempts[queue] \in Nat
    BY AttemptsType DEF TypeInv, TypeOK
  <2>2. lock[j] = i => attempts[j] < Attempts[queue]
    BY <1>2, <1>7 DEF TypeInv, TypeOK, Structure, Ended
  <2>3. QED
    BY <1>2, <1>6, <2>1, <2>2 DEF TypeInv, TypeOK
<1>9. TypeOK'
  BY <1>1, <1>3, <1>4, <1>5, <1>6, <1>8 DEF TypeInv, TypeOK, Ended
<1>10. Structure'
  <2>1. \A g \in Instances : g # i => run'[g] = run[g]
    BY <1>3 DEF TypeInv, TypeOK
  <2>2. run'[i] = Idle
    BY <1>3 DEF TypeInv, TypeOK
  <2>3. \A k \in Jobs : state[k] # "none" => state'[k] # "none"
    BY <1>2, <1>6 DEF TypeInv, TypeOK
  <2>4. \A g \in Instances : run[g].job \in Jobs \cup {None}
    BY JobOfRun DEF TypeInv
  <2>5. \A k \in Jobs : state'[k] \notin Ended => attempts'[k] < Attempts[queue]
    <3>1. Attempts[queue] \in Nat
      BY AttemptsType DEF TypeInv, TypeOK
    <3>2. QED
      BY <1>2, <1>6, <3>1 DEF TypeInv, TypeOK, Structure, Ended
  <2>6. \A k \in Jobs : lock'[k] # None => state'[k] = "active"
    BY <1>2, <1>6 DEF TypeInv, TypeOK, Structure
  <2>7. QED
    BY <1>1, <1>3, <1>4, <2>1, <2>2, <2>3, <2>4, <2>5, <2>6 DEF TypeInv, Structure
<1>11. QED
  BY <1>9, <1>10 DEF TypeInv

LEMMA NextType == TypeInv /\ [Next]_vars => TypeInv'
<1> SUFFICES ASSUME TypeInv, [Next]_vars
             PROVE  TypeInv'
  OBVIOUS
<1>1. CASE UNCHANGED vars
  BY <1>1 DEF vars, bullVars, TypeInv, TypeOK, Structure
<1>2. CASE Next
  BY <1>2, QueueType, TakeType, CallType, EndType DEF Next, RunStep
<1>3. QED
  BY <1>1, <1>2

LEMMA TypeInductive == Spec => []TypeInv
BY InitType, NextType, PTL DEF Spec

\* Every reachable state of the queue and its workers is well typed: no count
\* of browsers goes below zero, and attempts and stalls stay within their limits.
THEOREM TypeCorrect == Spec => []TypeOK
<1>1. TypeInv => TypeOK
  BY DEF TypeInv
<1>2. QED
  BY TypeInductive, <1>1, PTL

-----------------------------------------------------------------------------
(* Mails.  A run that has not sent its mail may send one, and costs a mail  *)
(* or a fault.  A job that will be run again has a fault for every mail; so *)
(* has one whose run is lost: nobody holds its lock, or its holder is gone  *)
(* or has an error to report.  Attempts and stalls cost faults as well.     *)

Going(j) == {i \in Instances : run[i].job = j /\ run[i].at \in Unsent}
Due(j) == mails[j] + Cardinality(Going(j))

Lost(j) ==
    /\ state[j] = "active"
    /\ lock[j] # None /\ Holds(lock[j], j) => run[lock[j]].at = "reject"

Accounted(j) ==
    /\ Due(j) <= 1 + faults[j]
    /\ attempts[j] + stalls[j] <= faults[j]
    /\ state[j] \in {"none", "waiting", "delayed"} => Due(j) <= faults[j]
    /\ Lost(j) => Due(j) <= faults[j] /\ attempts[j] + stalls[j] < faults[j]
    /\ state[j] = "failed" => faults[j] > 1

MailInv == \A j \in Jobs : Accounted(j)

IInv == TypeInv /\ MailInv

LEMMA GoingType ==
    ASSUME NEW k
    PROVE  Cardinality(Going(k)) \in Nat
<1>1. Going(k) \subseteq Instances
  BY DEF Going
<1>2. QED
  BY <1>1, MailJobsAssumption, FS_Subset, FS_CardinalityType

\* A set of instances that changes with one of them.
LEMMA CountStep ==
    ASSUME NEW A \in SUBSET Instances, NEW B \in SUBSET Instances, NEW i \in Instances,
           \A g \in Instances : g # i => (g \in A <=> g \in B)
    PROVE  /\ Cardinality(A) \in Nat /\ Cardinality(B) \in Nat
           /\ (i \in A <=> i \in B) => Cardinality(B) = Cardinality(A)
           /\ i \in A /\ i \notin B => Cardinality(B) = Cardinality(A) - 1
           /\ i \notin A /\ i \in B => Cardinality(B) = Cardinality(A) + 1
<1>1. IsFiniteSet(A) /\ IsFiniteSet(B)
  BY MailJobsAssumption, FS_Subset
<1>2. Cardinality(A) \in Nat /\ Cardinality(B) \in Nat
  BY <1>1, FS_CardinalityType
<1>3. (i \in A <=> i \in B) => A = B
  OBVIOUS
<1>4. ASSUME i \in A, i \notin B
      PROVE  Cardinality(B) = Cardinality(A) - 1
  <2>1. B = A \ {i}
    BY <1>4
  <2>2. QED
    BY <1>1, <1>4, <2>1, FS_RemoveElement
<1>5. ASSUME i \notin A, i \in B
      PROVE  Cardinality(B) = Cardinality(A) + 1
  <2>1. B = A \cup {i}
    BY <1>5
  <2>2. QED
    BY <1>1, <1>5, <2>1, FS_AddElement
<1>6. QED
  BY <1>2, <1>3, <1>4, <1>5

\* How many runs of a job are about to send changes with one run.
LEMMA GoingStep ==
    ASSUME NEW k, NEW i \in Instances, \A g \in Instances : g # i => run'[g] = run[g]
    PROVE  /\ Cardinality(Going(k)) \in Nat /\ Cardinality(Going(k)') \in Nat
           /\ (i \in Going(k) <=> i \in Going(k)') => Cardinality(Going(k)') = Cardinality(Going(k))
           /\ i \in Going(k) /\ i \notin Going(k)' => Cardinality(Going(k)') = Cardinality(Going(k)) - 1
           /\ i \notin Going(k) /\ i \in Going(k)' => Cardinality(Going(k)') = Cardinality(Going(k)) + 1
<1> DEFINE A == Going(k)
           B == Going(k)'
<1>1. A \in SUBSET Instances /\ B \in SUBSET Instances
  BY DEF Going
<1>2. \A g \in Instances : g # i => (g \in A <=> g \in B)
  BY DEF Going
<1> HIDE DEF A, B
<1>3. /\ Cardinality(A) \in Nat /\ Cardinality(B) \in Nat
      /\ (i \in A <=> i \in B) => Cardinality(B) = Cardinality(A)
      /\ i \in A /\ i \notin B => Cardinality(B) = Cardinality(A) - 1
      /\ i \notin A /\ i \in B => Cardinality(B) = Cardinality(A) + 1
  BY <1>1, <1>2, CountStep
<1>4. QED
  BY <1>3 DEF A, B

LEMMA InitMail == Init => MailInv
<1> SUFFICES ASSUME Init, NEW j \in Jobs
             PROVE  Accounted(j)
  BY DEF MailInv
<1>1. Going(j) = {}
  BY DEF Init, Going, Idle, Unsent
<1>2. Cardinality(Going(j)) = 0
  BY <1>1, FS_EmptySet
<1>3. QED
  BY <1>2 DEF Init, Accounted, Due, Lost

\* What is counted is a number.
LEMMA Numbers ==
    ASSUME TypeInv, NEW k \in Jobs
    PROVE  /\ mails[k] \in Nat /\ faults[k] \in Nat /\ attempts[k] \in Nat /\ stalls[k] \in Nat
           /\ Attempts[queue] \in Nat /\ Attempts[queue] > 2
BY AttemptsType DEF TypeInv, TypeOK, MaxStalls

\* A step of one instance leaves the jobs it does not run as they were.
LEMMA OtherJob ==
    ASSUME TypeInv, NEW k \in Jobs, Accounted(k), NEW i \in Instances,
           \A g \in Instances : g # i => run'[g] = run[g],
           run[i].job # k, run'[i].job # k,
           state'[k] = state[k], lock'[k] = lock[k], attempts'[k] = attempts[k],
           stalls'[k] = stalls[k], mails'[k] = mails[k], faults'[k] = faults[k]
    PROVE  Accounted(k)'
<1>1. i \notin Going(k) /\ i \notin Going(k)'
  BY DEF Going
<1>2. Cardinality(Going(k)') = Cardinality(Going(k))
  BY <1>1, GoingStep
<1>3. Due(k)' = Due(k)
  BY <1>2 DEF Due
<1>4. Lost(k)' => Lost(k)
  <2>1. lock[k] \in Instances \cup {None}
    BY DEF TypeInv, TypeOK
  <2>2. QED
    BY <2>1 DEF Lost, Holds
<1>5. QED
  BY <1>3, <1>4 DEF Accounted

LEMMA QueueMail ==
    ASSUME IInv, NEW j \in Jobs, Add(j) \/ QueueStep(j) \/ LoseLock(j), NEW k \in Jobs
    PROVE  Accounted(k)'
<1>1. run' = run /\ mails' = mails
  BY DEF Add, QueueStep, BackoffEnds, LockLapses, TakeBack, LoseLock
<1>2. Due(k)' = Due(k)
  BY <1>1 DEF Due, Going
<1>3. Accounted(k)
  BY DEF IInv, MailInv
<1>4. /\ mails[k] \in Nat /\ faults[k] \in Nat /\ attempts[k] \in Nat /\ stalls[k] \in Nat
      /\ Cardinality(Going(k)) \in Nat
  BY Numbers, GoingType DEF IInv
<1>5. Due(k) \in Nat
  BY <1>4 DEF Due
<1>6. CASE k # j
  <2>1. /\ state'[k] = state[k] /\ lock'[k] = lock[k] /\ attempts'[k] = attempts[k]
        /\ stalls'[k] = stalls[k] /\ faults'[k] = faults[k]
    BY <1>6 DEF Add, QueueStep, BackoffEnds, LockLapses, TakeBack, LoseLock, Hit, IInv, TypeInv,
       TypeOK
  <2>2. Lost(k)' => Lost(k)
    BY <1>1, <2>1 DEF Lost, Holds
  <2>3. QED
    BY <1>2, <1>3, <2>1, <2>2 DEF Accounted
<1>7. CASE k = j /\ (Add(j) \/ BackoffEnds(j))
  <2>1. /\ state[k] \in {"none", "delayed"} /\ state'[k] = "waiting"
        /\ attempts' = attempts /\ stalls' = stalls /\ faults' = faults
    BY <1>7 DEF Add, BackoffEnds, IInv, TypeInv, TypeOK
  <2>2. QED
    BY <1>2, <1>3, <1>4, <1>5, <2>1 DEF Accounted, Lost
<1>8. CASE k = j /\ LockLapses(j)
  <2>1. state[k] = "active" /\ Lost(k)
    BY <1>8 DEF LockLapses, Lost, IInv, TypeInv, Structure
  <2>2. UNCHANGED <<state, attempts, stalls, faults>>
    BY <1>8 DEF LockLapses
  <2>3. QED
    BY <1>2, <1>3, <2>1, <2>2 DEF Accounted
<1>9. CASE k = j /\ LoseLock(j)
  <2>1. faults'[k] = faults[k] + 1
    BY <1>9 DEF LoseLock, Hit, IInv, TypeInv, TypeOK
  <2>2. state[k] = "active" /\ UNCHANGED <<state, attempts, stalls>>
    BY <1>9 DEF LoseLock, IInv, TypeInv, Structure
  <2>3. QED
    BY <1>2, <1>3, <1>4, <1>5, <2>1, <2>2 DEF Accounted
<1>10. CASE k = j /\ TakeBack(j)
  <2>1. Lost(k) /\ faults' = faults /\ attempts' = attempts
    BY <1>10 DEF TakeBack, Lost
  <2>2. \/ state'[k] = "waiting" /\ stalls'[k] = stalls[k] + 1
        \/ state'[k] = "failed" /\ stalls' = stalls /\ stalls[k] = 1
    BY <1>10 DEF TakeBack, MaxStalls, IInv, TypeInv, TypeOK
  <2>3. ~Lost(k)'
    BY <2>2 DEF Lost
  <2>4. QED
    BY <1>2, <1>3, <1>4, <1>5, <2>1, <2>2, <2>3 DEF Accounted
<1>11. QED
  BY <1>6, <1>7, <1>8, <1>9, <1>10 DEF QueueStep

LEMMA TakeMail ==
    ASSUME IInv, NEW i \in Instances, NEW j \in Jobs, Take(i, j), NEW k \in Jobs
    PROVE  Accounted(k)'
<1> DEFINE r == [job |-> j, at |-> First[queue]]
<1>1. r.job = j /\ r.at \in {"launch", "findInvoice"}
  BY FirstType DEF IInv, TypeInv, TypeOK
<1> HIDE DEF r
<1>2. /\ run[i] = Idle /\ run' = [run EXCEPT ![i] = r]
      /\ state[j] = "waiting" /\ state' = [state EXCEPT ![j] = "active"]
      /\ lock' = [lock EXCEPT ![j] = i]
      /\ UNCHANGED <<attempts, stalls, mails, faults>>
  BY DEF Take, r
<1>3. run'[i] = r /\ \A g \in Instances : g # i => run'[g] = run[g]
  BY <1>2 DEF IInv, TypeInv, TypeOK
<1>4. run[i].job = None /\ run[i].at = "idle" /\ None \notin Jobs
  BY <1>2, MailJobsAssumption DEF Idle
<1>5. Accounted(k)
  BY DEF IInv, MailInv
<1>6. CASE k # j
  <2>1. state'[k] = state[k] /\ lock'[k] = lock[k]
    BY <1>2, <1>6 DEF IInv, TypeInv, TypeOK
  <2>2. run[i].job # k /\ run'[i].job # k
    BY <1>1, <1>3, <1>4, <1>6
  <2>3. QED
    BY <1>2, <1>3, <1>5, <2>1, <2>2, OtherJob DEF IInv
<1>7. CASE k = j
  <2>1. i \notin Going(k) /\ i \in Going(k)'
    BY <1>1, <1>3, <1>4, <1>7 DEF Going, Unsent
  <2>2. /\ Cardinality(Going(k)') = Cardinality(Going(k)) + 1
        /\ Cardinality(Going(k)) \in Nat
    BY <1>3, <2>1, GoingStep
  <2>3. /\ mails[k] \in Nat /\ faults[k] \in Nat /\ attempts[k] \in Nat /\ stalls[k] \in Nat
    BY Numbers DEF IInv
  <2>4. Due(k)' = Due(k) + 1 /\ Due(k) \in Nat /\ Due(k) <= faults[k]
    BY <1>2, <1>5, <1>7, <2>2, <2>3 DEF Due, Accounted
  <2>5. lock'[k] = i /\ i # None /\ state'[k] = "active"
    BY <1>2, <1>7, MailJobsAssumption DEF IInv, TypeInv, TypeOK
  <2>6. ~Lost(k)'
    BY <1>1, <1>3, <1>7, <2>5 DEF Lost, Holds
  <2>7. QED
    BY <1>2, <1>5, <2>3, <2>4, <2>5, <2>6 DEF Accounted
<1>8. QED
  BY <1>6, <1>7

LEMMA CallMail ==
    ASSUME IInv, NEW i \in Instances, NEW k \in Jobs,
           \/ FindInvoice(i) \/ LaunchBrowser(i) \/ Render(i) \/ CloseBrowser(i)
           \/ SendMail(i) \/ CallFails(i)
    PROVE  Accounted(k)'
<1> DEFINE j == run[i].job
<1>1. PICK label \in {"launch", "render", "close", "send", "resolve", "reject"} :
        /\ Goto(i, label) /\ run[i].at \in Unsent
        /\ label \in Unsent => mails' = mails /\ faults' = faults
        /\ label = "resolve" => mails' = [mails EXCEPT ![j] = @ + 1] /\ faults' = faults
        /\ label = "reject" => Hit(j)
        /\ label = "reject" => mails' = mails \/ mails' = [mails EXCEPT ![j] = @ + 1]
        /\ UNCHANGED bullVars
  BY DEF FindInvoice, LaunchBrowser, Render, CloseBrowser, SendMail, CallFails, Unsent
<1> DEFINE r == [job |-> j, at |-> label]
<1>2. j \in Jobs /\ run' = [run EXCEPT ![i] = r]
  BY <1>1, GotoRun DEF IInv, TypeInv, Unsent, Sent
<1>3. r.job = j /\ r.at = label
  OBVIOUS
<1> HIDE DEF r
<1>4. run'[i] = r /\ \A g \in Instances : g # i => run'[g] = run[g]
  BY <1>2 DEF IInv, TypeInv, TypeOK
<1>5. Accounted(k)
  BY DEF IInv, MailInv
<1>6. CASE k # j
  <2>1. mails'[k] = mails[k] /\ faults'[k] = faults[k]
    BY <1>1, <1>2, <1>6 DEF Hit, Unsent, IInv, TypeInv, TypeOK
  <2>2. run[i].job # k /\ run'[i].job # k
    BY <1>3, <1>4, <1>6
  <2>3. QED
    BY <1>1, <1>4, <1>5, <2>1, <2>2, OtherJob DEF IInv, bullVars
<1>7. CASE k = j
  <2>1. /\ mails[k] \in Nat /\ faults[k] \in Nat /\ attempts[k] \in Nat /\ stalls[k] \in Nat
    BY Numbers DEF IInv
  <2>2. i \in Going(k)
    BY <1>1, <1>7 DEF Going
  <2>3. i \in Going(k)' <=> label \in Unsent
    BY <1>3, <1>4, <1>7 DEF Going
  <2>4. /\ Cardinality(Going(k)) \in Nat
        /\ Cardinality(Going(k)') = IF label \in Unsent THEN Cardinality(Going(k))
                                                      ELSE Cardinality(Going(k)) - 1
    BY <1>4, <2>2, <2>3, GoingStep
  <2>5. \/ mails'[k] = mails[k]
        \/ label \notin Unsent /\ mails'[k] = mails[k] + 1
    BY <1>1, <1>7 DEF Unsent, IInv, TypeInv, TypeOK
  <2>6. Due(k)' <= Due(k) /\ Due(k)' \in Int /\ Due(k) \in Nat
    BY <2>1, <2>4, <2>5 DEF Due
  <2>7. CASE label = "reject"
    <3>1. faults'[k] = faults[k] + 1
      BY <1>1, <1>7, <2>7 DEF Hit, IInv, TypeInv, TypeOK
    <3>2. QED
      BY <1>1, <1>5, <2>1, <2>6, <3>1 DEF Accounted, bullVars
  <2>8. CASE label # "reject"
    <3>1. faults' = faults
      BY <1>1, <2>8 DEF Unsent
    <3>2. Lost(k)' => Lost(k)
      BY <1>1, <1>3, <1>4, <2>8 DEF Lost, Holds, bullVars, IInv, TypeInv, TypeOK
    <3>3. QED
      BY <1>1, <1>5, <2>1, <2>6, <3>1, <3>2 DEF Accounted, bullVars
  <2>9. QED
    BY <2>7, <2>8
<1>8. QED
  BY <1>6, <1>7

\* A run that ends.  One that reports an error to a job it holds has a fault to
\* spend on the attempt.
LEMMA EndMail ==
    ASSUME IInv, NEW i \in Instances, Resolve(i) \/ Reject(i) \/ Die(i), NEW k \in Jobs
    PROVE  Accounted(k)'
<1> DEFINE j == run[i].job
<1>1. j \in Jobs /\ i # None
  <2>1. run[i].at # "idle"
    <3>1. run[i] \in Run
      BY DEF IInv, TypeInv, TypeOK
    <3>2. QED
      BY <3>1 DEF Resolve, Reject, Die, Run, Idle, Unsent, Sent
  <2>2. QED
    BY <2>1, JobOfRun, MailJobsAssumption DEF IInv, TypeInv
<1>2. run' = [run EXCEPT ![i] = Idle] /\ queue' = queue /\ stalls' = stalls /\ mails' = mails
  BY DEF Resolve, Reject, Die, Leave, bullVars
<1>3. run'[i] = Idle /\ \A g \in Instances : g # i => run'[g] = run[g]
  BY <1>2 DEF IInv, TypeInv, TypeOK
<1>4. i \notin Going(k)'
  BY <1>3 DEF Going, Idle, Unsent
<1>5. Accounted(k)
  BY DEF IInv, MailInv
<1>6. CASE k # j
  <2>1. /\ state'[k] = state[k] /\ lock'[k] = lock[k] /\ attempts'[k] = attempts[k]
        /\ faults'[k] = faults[k]
    BY <1>1, <1>6 DEF Resolve, Reject, Die, Leave, Hit, bullVars, IInv, TypeInv, TypeOK
  <2>2. run'[i].job # k
    BY <1>3, MailJobsAssumption DEF Idle
  <2>3. QED
    BY <1>2, <1>3, <1>5, <1>6, <2>1, <2>2, OtherJob DEF IInv
<1>7. CASE k = j
  <2>1. /\ mails[k] \in Nat /\ faults[k] \in Nat /\ attempts[k] \in Nat /\ stalls[k] \in Nat
        /\ Attempts[queue] \in Nat /\ Attempts[queue] > 2
    BY Numbers DEF IInv
  <2>2. /\ Cardinality(Going(k)) \in Nat /\ Cardinality(Going(k)') \in Nat
        /\ Cardinality(Going(k)') <= Cardinality(Going(k))
    BY <1>3, <1>4, GoingStep
  <2>3. Due(k)' <= Due(k) /\ Due(k)' \in Nat /\ Due(k) \in Nat
    BY <1>2, <2>1, <2>2 DEF Due
  <2>4. CASE Die(i)
    <3>1. faults'[k] = faults[k] + 1 /\ UNCHANGED <<state, attempts, lock>>
      BY <1>7, <2>4 DEF Die, Hit, bullVars, IInv, TypeInv, TypeOK
    <3>2. QED
      BY <1>2, <1>5, <2>1, <2>3, <3>1 DEF Accounted
  <2>5. CASE (Resolve(i) \/ Reject(i)) /\ lock[k] # i
    <3>1. UNCHANGED <<state, attempts, lock, faults>>
      BY <1>7, <2>5 DEF Resolve, Reject, Leave
    <3>2. lock[k] \in Instances \cup {None}
      BY DEF IInv, TypeInv, TypeOK
    <3>3. Lost(k)' => Lost(k)
      BY <1>3, <2>5, <3>1, <3>2 DEF Lost, Holds
    <3>4. QED
      BY <1>2, <1>5, <2>1, <2>3, <3>1, <3>3 DEF Accounted
  <2>6. CASE Resolve(i) /\ lock[k] = i
    <3>1. state'[k] = "completed" /\ UNCHANGED <<attempts, faults>>
      BY <1>7, <2>6 DEF Resolve, Leave, IInv, TypeInv, TypeOK
    <3>2. QED
      BY <1>2, <1>5, <2>1, <2>3, <3>1 DEF Accounted, Lost
  <2>7. CASE Reject(i) /\ lock[k] = i
    <3>1. Lost(k)
      BY <1>1, <1>7, <2>7 DEF Reject, Lost, IInv, TypeInv, Structure
    <3>2. Due(k) <= faults[k] /\ attempts[k] + stalls[k] < faults[k]
      BY <1>5, <3>1 DEF Accounted
    <3>3. /\ attempts'[k] = attempts[k] + 1 /\ faults' = faults
          /\ \/ state'[k] = "delayed"
             \/ state'[k] = "failed" /\ attempts[k] + 1 >= Attempts[queue]
      BY <1>7, <2>1, <2>7 DEF Reject, Leave, IInv, TypeInv, TypeOK
    <3>4. QED
      BY <1>2, <2>1, <2>3, <3>2, <3>3 DEF Accounted, Lost
  <2>8. QED
    BY <2>4, <2>5, <2>6, <2>7
<1>8. QED
  BY <1>6, <1>7

LEMMA NextMail == IInv /\ [Next]_vars => MailInv'
<1> SUFFICES ASSUME IInv, [Next]_vars, NEW k \in Jobs
             PROVE  Accounted(k)'
  BY DEF MailInv
<1>1. CASE UNCHANGED vars
  BY <1>1 DEF vars, bullVars, IInv, MailInv, Accounted, Due, Going, Lost, Holds
<1>2. CASE Next
  BY <1>2, QueueMail, TakeMail, CallMail, EndMail DEF Next, RunStep
<1>3. QED
  BY <1>1, <1>2

LEMMA Inductive == Spec => []IInv
<1>1. Init => IInv
  BY InitType, InitMail DEF IInv
<1>2. IInv /\ [Next]_vars => IInv'
  BY NextType, NextMail DEF IInv
<1>3. QED
  BY <1>1, <1>2, PTL DEF Spec

\* However workers fail, lose their locks and overlap, a customer is sent at most
\* one mail for the job and one for each fault that hit it.
THEOREM MailsAreBounded == Spec => []MailsAreAccounted
<1>1. IInv => MailsAreAccounted
  <2> SUFFICES ASSUME IInv, NEW j \in Jobs
               PROVE  mails[j] <= 1 + faults[j]
    BY DEF MailsAreAccounted
  <2>1. mails[j] \in Nat /\ faults[j] \in Nat /\ Cardinality(Going(j)) \in Nat
    BY Numbers, GoingType DEF IInv
  <2>2. QED
    BY <2>1 DEF IInv, MailInv, Accounted, Due
<1>2. QED
  BY Inductive, <1>1, PTL

\* No job is given up for a single fault: neither the attempts nor the one stall
\* BullMQ forgives run out before the second.
THEOREM OneFaultSurvives == Spec => []OneFaultIsSurvived
<1>1. IInv => OneFaultIsSurvived
  BY DEF IInv, MailInv, Accounted, OneFaultIsSurvived
<1>2. QED
  BY Inductive, <1>1, PTL

-----------------------------------------------------------------------------
(* Browsers.  What a function counts is taken as the set of its units, which *)
(* a step extends by one, reduces by one, or empties for one instance.       *)

UnitsOf(x, n) == {x} \X (1..n)

LEMMA FiniteUnitsOf ==
    ASSUME NEW x, NEW n \in Nat
    PROVE  IsFiniteSet(UnitsOf(x, n))
<1>1. IsFiniteSet(1..n)
  <2>1. 1 \in Int /\ n \in Int
    OBVIOUS
  <2>2. QED
    BY <2>1, FS_Interval
<1>2. IsFiniteSet({x})
  BY FS_Singleton
<1>3. QED
  BY <1>1, <1>2, FS_Product DEF UnitsOf

\* A finite function counts finitely much.
LEMMA FiniteUnits ==
    ASSUME NEW S, IsFiniteSet(S), NEW count \in [S -> Nat]
    PROVE  IsFiniteSet(Units(count)) /\ Cardinality(Units(count)) \in Nat
<1> DEFINE all == {UnitsOf(x, count[x]) : x \in S}
           f == [x \in S |-> UnitsOf(x, count[x])]
<1>1. IsFiniteSet(all)
  <2>1. f \in Surjection(S, all)
    BY DEF Surjection
  <2> HIDE DEF f, all
  <2>2. QED
    BY <2>1, FS_Surjection
<1>2. \A part \in all : IsFiniteSet(part)
  BY FiniteUnitsOf
<1>3. IsFiniteSet(UNION all)
  <2> HIDE DEF all
  <2>1. QED
    BY <1>1, <1>2, FS_UNION
<1>4. Units(count) = UNION all
  BY DEF Units, UnitsOf
<1>5. QED
  BY <1>3, <1>4, FS_CardinalityType

\* One more of something is one unit more.
LEMMA OneMoreUnit ==
    ASSUME NEW S, IsFiniteSet(S), NEW count \in [S -> Nat], NEW x \in S
    PROVE  Cardinality(Units([count EXCEPT ![x] = @ + 1])) = Cardinality(Units(count)) + 1
<1> DEFINE more == [count EXCEPT ![x] = @ + 1]
           unit == <<x, count[x] + 1>>
<1>1. /\ more \in [S -> Nat] /\ more[x] = count[x] + 1
      /\ \A y \in S : y # x => more[y] = count[y]
  OBVIOUS
<1>2. Units(more) = Units(count) \cup {unit}
  <2>1. ASSUME NEW e
        PROVE  e \in Units(more) <=> \E y \in S : \E n \in 1..more[y] : e = <<y, n>>
    BY <1>1 DEF Units
  <2>2. ASSUME NEW e
        PROVE  e \in Units(count) <=> \E y \in S : \E n \in 1..count[y] : e = <<y, n>>
    BY DEF Units
  <2>3. \A n : n \in 1..(count[x] + 1) <=> n \in 1..count[x] \/ n = count[x] + 1
    BY count[x] \in Nat
  <2> HIDE DEF more
  <2>4. QED
    BY <1>1, <2>1, <2>2, <2>3
<1>3. unit \notin Units(count)
  BY DEF Units
<1>4. IsFiniteSet(Units(count))
  BY FiniteUnits
<1> HIDE DEF unit
<1>5. QED
  BY <1>2, <1>3, <1>4, FS_AddElement

\* One less of something there is some of is one unit less.
LEMMA OneUnitLess ==
    ASSUME NEW S, IsFiniteSet(S), NEW count \in [S -> Nat], NEW x \in S, count[x] > 0
    PROVE  Cardinality(Units([count EXCEPT ![x] = @ - 1])) = Cardinality(Units(count)) - 1
<1> DEFINE less == [count EXCEPT ![x] = @ - 1]
<1>1. less \in [S -> Nat] /\ less[x] + 1 = count[x]
  OBVIOUS
<1>2. count = [less EXCEPT ![x] = @ + 1]
  BY <1>1
<1> HIDE DEF less
<1>3. Cardinality(Units(count)) = Cardinality(Units(less)) + 1
  BY <1>1, <1>2, OneMoreUnit
<1>4. Cardinality(Units(less)) \in Nat
  BY <1>1, FiniteUnits
<1>5. QED
  BY <1>3, <1>4 DEF less

\* None of something is no unit more.
LEMMA NoUnitMore ==
    ASSUME NEW S, IsFiniteSet(S), NEW count \in [S -> Nat], NEW x \in S
    PROVE  Cardinality(Units([count EXCEPT ![x] = 0])) <= Cardinality(Units(count))
<1>1. Units([count EXCEPT ![x] = 0]) \in SUBSET Units(count)
  BY DEF Units
<1>2. QED
  BY <1>1, FiniteUnits, FS_Subset

LEMMA RenderingStep ==
    ASSUME NEW i \in Instances, \A g \in Instances : g # i => run'[g] = run[g]
    PROVE  /\ Cardinality(Rendering) \in Nat /\ Cardinality(Rendering') \in Nat
           /\ (i \in Rendering <=> i \in Rendering') =>
                Cardinality(Rendering') = Cardinality(Rendering)
           /\ i \in Rendering /\ i \notin Rendering' =>
                Cardinality(Rendering') = Cardinality(Rendering) - 1
           /\ i \notin Rendering /\ i \in Rendering' =>
                Cardinality(Rendering') = Cardinality(Rendering) + 1
<1> DEFINE A == Rendering
           B == Rendering'
<1>1. A \in SUBSET Instances /\ B \in SUBSET Instances
  BY DEF Rendering
<1>2. \A g \in Instances : g # i => (g \in A <=> g \in B)
  BY DEF Rendering
<1> HIDE DEF A, B
<1>3. /\ Cardinality(A) \in Nat /\ Cardinality(B) \in Nat
      /\ (i \in A <=> i \in B) => Cardinality(B) = Cardinality(A)
      /\ i \in A /\ i \notin B => Cardinality(B) = Cardinality(A) - 1
      /\ i \notin A /\ i \in B => Cardinality(B) = Cardinality(A) + 1
  BY <1>1, <1>2, CountStep
<1>4. QED
  BY <1>3 DEF A, B

\* What is compared are numbers, also after a step.
LEMMA CountsType ==
    ASSUME TypeOK
    PROVE  /\ Cardinality(Units(browsers)) \in Nat
           /\ Cardinality(Units(faults)) \in Nat
           /\ Cardinality(Rendering) \in Nat
<1>1. browsers \in [Instances -> Nat] /\ faults \in [Jobs -> Nat]
  BY DEF TypeOK
<1>2. Rendering \in SUBSET Instances
  BY DEF Rendering
<1>3. IsFiniteSet(Rendering)
  BY <1>2, MailJobsAssumption, FS_Subset
<1>4. QED
  BY <1>1, <1>3, MailJobsAssumption, FiniteUnits, FS_CardinalityType

LEMMA GotoAt ==
    ASSUME TypeOK, NEW i \in Instances, run[i].at # "idle",
           NEW label \in Unsent \cup Sent \cup {"reject"}, Goto(i, label)
    PROVE  run'[i].at = label
<1>1. run' = [run EXCEPT ![i] = [job |-> run[i].job, at |-> label]]
  BY GotoRun
<1>2. run'[i] = [job |-> run[i].job, at |-> label]
  BY <1>1 DEF TypeOK
<1>3. QED
  BY <1>2

\* A fault is one unit of faults more.
LEMMA HitUnit ==
    ASSUME TypeOK, NEW j \in Jobs, Hit(j)
    PROVE  Cardinality(Units(faults')) = Cardinality(Units(faults)) + 1
<1>1. faults \in [Jobs -> Nat] /\ faults' = [faults EXCEPT ![j] = @ + 1]
  BY DEF TypeOK, Hit
<1>2. QED
  BY <1>1, MailJobsAssumption, OneMoreUnit

LEMMA InitBrowsers == Init => BrowsersAreAccounted
<1> SUFFICES ASSUME Init PROVE BrowsersAreAccounted
  OBVIOUS
<1>1. Units(browsers) = {}
  BY DEF Init, Units
<1>2. Cardinality(Units(browsers)) = 0
  BY <1>1, FS_EmptySet
<1>3. TypeOK
  BY InitType DEF TypeInv
<1>4. QED
  BY <1>2, <1>3, CountsType DEF BrowsersAreAccounted

\* A step that neither opens nor closes a browser, and starts or ends no
\* rendering.
LEMMA NoBrowserStep ==
    ASSUME TypeInv, BrowsersAreAccounted, browsers' = browsers, Rendering' = Rendering,
           faults' = faults \/ \E j \in Jobs : Hit(j)
    PROVE  BrowsersAreAccounted'
<1>1. TypeOK
  BY DEF TypeInv
<1>2. Cardinality(Units(faults)) <= Cardinality(Units(faults'))
  <2>1. CASE faults' = faults
    BY <1>1, <2>1, CountsType
  <2>2. CASE \E j \in Jobs : Hit(j)
    BY <1>1, <2>2, HitUnit, CountsType
  <2>3. QED
    BY <2>1, <2>2
<1>3. Cardinality(Units(faults')) \in Nat
  BY <1>1, CountsType, HitUnit
<1>4. Cardinality(Units(browsers)) <= Cardinality(Rendering) + Cardinality(Units(faults'))
  BY <1>1, <1>2, <1>3, CountsType DEF BrowsersAreAccounted
<1>5. QED
  BY <1>4 DEF BrowsersAreAccounted, Units

\* A worker that renders holds the browser it opened; one that fails leaves it
\* and a fault; one that dies takes all its browsers along.
LEMMA RunBrowsers ==
    ASSUME TypeInv, TypeInv', BrowsersAreAccounted, NEW i \in Instances,
           RunStep(i) \/ CallFails(i) \/ Die(i)
    PROVE  BrowsersAreAccounted'
<1>1. TypeOK /\ run[i] \in Run /\ browsers \in [Instances -> Nat]
  BY DEF TypeInv, TypeOK
<1>2. \A g \in Instances : g # i => run'[g] = run[g]
  BY <1>1 DEF RunStep, FindInvoice, LaunchBrowser, Render, CloseBrowser, SendMail, CallFails,
     Resolve, Reject, Leave, Die, Goto, TypeOK
<1>3. /\ Cardinality(Rendering) \in Nat /\ Cardinality(Rendering') \in Nat
      /\ (i \in Rendering <=> i \in Rendering') =>
           Cardinality(Rendering') = Cardinality(Rendering)
      /\ i \in Rendering /\ i \notin Rendering' =>
           Cardinality(Rendering') = Cardinality(Rendering) - 1
      /\ i \notin Rendering /\ i \in Rendering' =>
           Cardinality(Rendering') = Cardinality(Rendering) + 1
  BY <1>2, RenderingStep
<1>4. /\ Cardinality(Units(browsers)) \in Nat /\ Cardinality(Units(faults)) \in Nat
  BY <1>1, CountsType
<1>5. Cardinality(Units(browsers')) <= Cardinality(Rendering') + Cardinality(Units(faults'))
  <2>1. CASE LaunchBrowser(i)
    <3>1. Cardinality(Units(browsers')) = Cardinality(Units(browsers)) + 1
      BY <1>1, <2>1, OneMoreUnit, MailJobsAssumption DEF LaunchBrowser
    <3>2. i \notin Rendering /\ i \in Rendering'
      BY <1>1, <2>1, GotoAt DEF LaunchBrowser, Rendering, Unsent
    <3>3. faults' = faults
      BY <2>1 DEF LaunchBrowser
    <3>4. QED
      BY <1>3, <1>4, <3>1, <3>2, <3>3 DEF BrowsersAreAccounted
  <2>2. CASE CloseBrowser(i)
    <3>1. browsers[i] > 0
      BY <2>2 DEF CloseBrowser, TypeInv, Structure
    <3>2. Cardinality(Units(browsers')) = Cardinality(Units(browsers)) - 1
      BY <1>1, <2>2, <3>1, OneUnitLess, MailJobsAssumption DEF CloseBrowser
    <3>3. i \in Rendering /\ i \notin Rendering'
      BY <1>1, <2>2, GotoAt DEF CloseBrowser, Rendering, Unsent
    <3>4. faults' = faults
      BY <2>2 DEF CloseBrowser
    <3>5. QED
      BY <1>3, <1>4, <3>2, <3>3, <3>4 DEF BrowsersAreAccounted
  <2>3. CASE FindInvoice(i) \/ Render(i) \/ SendMail(i)
    <3>1. i \in Rendering <=> i \in Rendering'
      BY <1>1, <2>3, GotoAt DEF FindInvoice, Render, SendMail, Rendering, Unsent, Sent
    <3>2. browsers' = browsers /\ faults' = faults
      BY <2>3 DEF FindInvoice, Render, SendMail
    <3>3. QED
      BY <1>3, <1>4, <3>1, <3>2 DEF BrowsersAreAccounted
  <2>4. CASE Resolve(i) \/ Reject(i)
    <3>1. run'[i] = Idle
      BY <1>1, <2>4 DEF Resolve, Reject, Leave, TypeOK
    <3>2. i \notin Rendering /\ i \notin Rendering'
      BY <2>4, <3>1 DEF Resolve, Reject, Rendering, Idle
    <3>3. browsers' = browsers /\ faults' = faults
      BY <2>4 DEF Resolve, Reject
    <3>4. QED
      BY <1>3, <1>4, <3>2, <3>3 DEF BrowsersAreAccounted
  <2>5. CASE CallFails(i) \/ Die(i)
    <3>1. run[i].job \in Jobs /\ Hit(run[i].job)
      <4>1. run[i] # Idle
        BY <2>5 DEF CallFails, Die, Idle, Unsent
      <4>2. QED
        BY <1>1, <2>5, <4>1 DEF CallFails, Die, Run
    <3>2. Cardinality(Units(faults')) = Cardinality(Units(faults)) + 1
      BY <1>1, <3>1, HitUnit
    <3>3. Cardinality(Units(browsers')) <= Cardinality(Units(browsers))
      <4>1. CASE CallFails(i)
        BY <1>4, <4>1 DEF CallFails
      <4>2. CASE Die(i)
        BY <1>1, <4>2, NoUnitMore, MailJobsAssumption DEF Die
      <4>3. QED
        BY <2>5, <4>1, <4>2
    <3>4. Cardinality(Units(browsers')) \in Nat
      <4>1. browsers' \in [Instances -> Nat]
        BY DEF TypeInv, TypeOK
      <4>2. QED
        BY <4>1, FiniteUnits, MailJobsAssumption
    <3>5. Cardinality(Rendering') + 1 >= Cardinality(Rendering)
      BY <1>3
    <3>6. QED
      BY <1>3, <1>4, <3>2, <3>3, <3>4, <3>5 DEF BrowsersAreAccounted
  <2>6. QED
    BY <2>1, <2>2, <2>3, <2>4, <2>5 DEF RunStep
<1>6. QED
  BY <1>5 DEF BrowsersAreAccounted, Units, Rendering

LEMMA NextBrowsers ==
    TypeInv /\ TypeInv' /\ BrowsersAreAccounted /\ [Next]_vars => BrowsersAreAccounted'
<1> SUFFICES ASSUME TypeInv, TypeInv', BrowsersAreAccounted, [Next]_vars
             PROVE  BrowsersAreAccounted'
  OBVIOUS
<1>1. CASE UNCHANGED vars
  BY <1>1, NoBrowserStep DEF vars, Rendering
<1>2. ASSUME NEW j \in Jobs, Add(j) \/ QueueStep(j) \/ LoseLock(j)
      PROVE  BrowsersAreAccounted'
  BY <1>2, NoBrowserStep
     DEF Add, QueueStep, BackoffEnds, LockLapses, TakeBack, LoseLock, Rendering
<1>3. ASSUME NEW i \in Instances, NEW j \in Jobs, Take(i, j)
      PROVE  BrowsersAreAccounted'
  <2>1. run[i] = Idle /\ run'[i].at \in {"launch", "findInvoice"}
    BY <1>3, FirstType DEF Take, TypeInv, TypeOK
  <2>2. \A g \in Instances : g # i => run'[g] = run[g]
    BY <1>3 DEF Take, TypeInv, TypeOK
  <2>3. Rendering' = Rendering
    BY <2>1, <2>2 DEF Rendering, Idle
  <2>4. QED
    BY <1>3, <2>3, NoBrowserStep DEF Take
<1>4. QED
  BY <1>1, <1>2, <1>3, RunBrowsers DEF Next

\* However runs fail, workers die and jobs are run twice, there are over all
\* processes no more open browsers than rendering runs and faults together.
THEOREM BrowsersAreBounded == Spec => []BrowsersAreAccounted
BY InitBrowsers, NextBrowsers, TypeInductive, PTL DEF Spec

-----------------------------------------------------------------------------
(* Refinement: the workers over BullMQ implement Delivery.                  *)

Outcomes == [j \in Jobs |-> Outcome(state[j])]

LEMMA OutcomeValues ==
    /\ Outcome("none") = "none"
    /\ Outcome("waiting") = "pending" /\ Outcome("active") = "pending"
    /\ Outcome("delayed") = "pending"
    /\ Outcome("completed") = "completed" /\ Outcome("failed") = "failed"
BY DEF Outcome, Ended

LEMMA InitDelivery == Init => D!Init
BY OutcomeValues DEF Init, D!Init

\* What becomes of the state of one job becomes of its outcome.
LEMMA OutcomeStep ==
    ASSUME TypeOK, NEW j \in Jobs, NEW s, state' = [state EXCEPT ![j] = s]
    PROVE  Outcomes' = [Outcomes EXCEPT ![j] = Outcome(s)]
BY DEF TypeOK, Outcomes

\* Queuing a job is Delivery's Accept, taking it back for good its GiveUp.
LEMMA QueueDelivery ==
    ASSUME IInv, NEW j \in Jobs, Add(j) \/ QueueStep(j) \/ LoseLock(j)
    PROVE  [D!Next]_D!vars
<1>1. mails' = mails
  BY DEF Add, QueueStep, BackoffEnds, LockLapses, TakeBack, LoseLock
<1>2. Outcomes[j] = Outcome(state[j])
  BY DEF Outcomes
<1>3. TypeOK
  BY DEF IInv, TypeInv
<1>4. CASE Add(j)
  <2>1. Outcomes' = [Outcomes EXCEPT ![j] = "pending"] /\ Outcomes[j] = "none"
    BY <1>2, <1>3, <1>4, OutcomeStep, OutcomeValues DEF Add
  <2>2. D!Accept(j)
    BY <1>1, <2>1 DEF D!Accept, Outcomes
  <2>3. QED
    BY <2>2 DEF D!Next
<1>5. CASE BackoffEnds(j) \/ (TakeBack(j) /\ state' = [state EXCEPT ![j] = "waiting"])
  <2>1. Outcomes' = [Outcomes EXCEPT ![j] = "pending"] /\ Outcomes[j] = "pending"
    BY <1>2, <1>3, <1>5, OutcomeStep, OutcomeValues DEF BackoffEnds, TakeBack
  <2>2. Outcomes' = Outcomes
    BY <2>1 DEF Outcomes
  <2>3. QED
    BY <1>1, <2>2 DEF D!vars, Outcomes
<1>6. CASE TakeBack(j) /\ state' = [state EXCEPT ![j] = "failed"]
  <2>1. Outcomes[j] = "pending"
    BY <1>2, <1>6, OutcomeValues DEF TakeBack
  <2>2. Outcomes' = [Outcomes EXCEPT ![j] = "failed"]
    BY <1>3, <1>6, OutcomeStep, OutcomeValues
  <2>3. D!GiveUp(j)
    BY <1>1, <2>1, <2>2 DEF D!GiveUp, Outcomes
  <2>4. QED
    BY <2>3 DEF D!Next
<1>7. CASE LockLapses(j) \/ LoseLock(j)
  BY <1>1, <1>7 DEF LockLapses, LoseLock, D!vars
<1>8. QED
  BY <1>4, <1>5, <1>6, <1>7 DEF QueueStep, TakeBack

\* A mail that goes out is Delivery's Mail, whatever becomes of the run.
LEMMA RunDelivery ==
    ASSUME IInv, NEW i \in Instances,
           \/ FindInvoice(i) \/ LaunchBrowser(i) \/ Render(i) \/ CloseBrowser(i)
           \/ SendMail(i) \/ CallFails(i) \/ Die(i)
    PROVE  [D!Next]_D!vars
<1> DEFINE j == run[i].job
<1>1. state' = state
  BY DEF FindInvoice, LaunchBrowser, Render, CloseBrowser, SendMail, CallFails, Die, bullVars
<1>2. Outcomes' = Outcomes
  BY <1>1 DEF Outcomes
<1>3. CASE mails' = mails
  BY <1>2, <1>3 DEF D!vars, Outcomes
<1>4. CASE mails' = [mails EXCEPT ![j] = @ + 1] /\ run[i].at = "send"
  <2>1. j \in Jobs
    BY <1>4, JobOfRun DEF IInv, TypeInv
  <2>2. state[j] \in {"none", "waiting", "active", "delayed"} \cup Ended /\ state[j] # "none"
    BY <2>1, MailJobsAssumption DEF IInv, TypeInv, TypeOK, Structure
  <2>3. Outcomes[j] # "none"
    BY <2>1, <2>2, OutcomeValues DEF Outcomes, Ended
  <2>4. D!Mail(j)
    BY <1>2, <1>4, <2>3 DEF D!Mail, Outcomes
  <2>5. QED
    BY <2>1, <2>4 DEF D!Next
<1>5. QED
  BY <1>3, <1>4 DEF FindInvoice, LaunchBrowser, Render, CloseBrowser, SendMail, CallFails, Die

\* A run that holds its job ends it, by Complete or by GiveUp; another changes
\* nothing that Delivery sees.
LEMMA EndDelivery ==
    ASSUME IInv, NEW i \in Instances, Resolve(i) \/ Reject(i)
    PROVE  [D!Next]_D!vars
<1> DEFINE j == run[i].job
<1>1. j \in Jobs
  BY JobOfRun DEF IInv, TypeInv, Resolve, Reject
<1>2. mails' = mails
  BY DEF Resolve, Reject
<1>3. TypeOK /\ i # None
  BY MailJobsAssumption DEF IInv, TypeInv
<1>4. CASE lock[j] # i
  BY <1>2, <1>4 DEF Resolve, Reject, Leave, D!vars
<1>5. CASE lock[j] = i
  <2>1. Outcomes[j] = "pending"
    BY <1>1, <1>3, <1>5, OutcomeValues DEF Outcomes, IInv, TypeInv, Structure
  <2>2. CASE Resolve(i)
    <3>1. mails[j] > 0
      BY <2>2 DEF Resolve, IInv, TypeInv, Structure
    <3>2. Outcomes' = [Outcomes EXCEPT ![j] = "completed"]
      BY <1>1, <1>3, <1>5, <2>2, OutcomeStep, OutcomeValues DEF Resolve, Leave
    <3>3. D!Complete(j)
      BY <1>2, <2>1, <3>1, <3>2 DEF D!Complete, Outcomes
    <3>4. QED
      BY <1>1, <3>3 DEF D!Next
  <2>3. CASE Reject(i) /\ state' = [state EXCEPT ![j] = "delayed"]
    <3>1. Outcomes' = [Outcomes EXCEPT ![j] = "pending"]
      BY <1>1, <1>3, <2>3, OutcomeStep, OutcomeValues
    <3>2. Outcomes' = Outcomes
      BY <2>1, <3>1 DEF Outcomes
    <3>3. QED
      BY <1>2, <3>2 DEF D!vars, Outcomes
  <2>4. CASE Reject(i) /\ state' = [state EXCEPT ![j] = "failed"]
    <3>1. Outcomes' = [Outcomes EXCEPT ![j] = "failed"]
      BY <1>1, <1>3, <2>4, OutcomeStep, OutcomeValues
    <3>2. D!GiveUp(j)
      BY <1>2, <2>1, <3>1 DEF D!GiveUp, Outcomes
    <3>3. QED
      BY <1>1, <3>2 DEF D!Next
  <2>5. QED
    BY <1>5, <2>2, <2>3, <2>4 DEF Reject, Leave
<1>6. QED
  BY <1>4, <1>5

LEMMA NextDelivery == IInv /\ [Next]_vars => [D!Next]_D!vars
<1> SUFFICES ASSUME IInv, [Next]_vars
             PROVE  [D!Next]_D!vars
  OBVIOUS
<1>1. CASE UNCHANGED vars
  BY <1>1 DEF vars, bullVars, D!vars
<1>2. ASSUME NEW i \in Instances, NEW j \in Jobs, Take(i, j)
      PROVE  [D!Next]_D!vars
  <2>1. state[j] = "waiting" /\ state' = [state EXCEPT ![j] = "active"] /\ mails' = mails
    BY <1>2 DEF Take
  <2>2. Outcomes' = [Outcomes EXCEPT ![j] = "pending"] /\ Outcomes[j] = "pending"
    BY <2>1, OutcomeStep, OutcomeValues DEF Outcomes, IInv, TypeInv
  <2>3. Outcomes' = Outcomes
    BY <2>2 DEF Outcomes
  <2>4. QED
    BY <2>1, <2>3 DEF D!vars, Outcomes
<1>3. CASE Next
  BY <1>2, <1>3, QueueDelivery, RunDelivery, EndDelivery DEF Next, RunStep
<1>4. QED
  BY <1>1, <1>3

\* The queue workers implement Delivery: a job is done only after its mail went
\* out, and neither a retry nor a worker that lost its lock undoes an end.
THEOREM WorkersImplementDelivery == Spec => ImplementsDelivery
BY InitDelivery, NextDelivery, Inductive, PTL DEF Spec, ImplementsDelivery, D!Spec

-----------------------------------------------------------------------------
(* The safety half of EveryJobEnds: a job no fault has hit is not stranded. *)

Alone(j) ==
    /\ state[j] = "active" => \E i \in Instances : Holds(i, j)
    /\ \A i \in Instances : run[i].job = j => state[j] = "active" /\ lock[j] = i

\* While no fault has hit it, a job that is active has a worker that holds its
\* lock, and no second one, and a job that is not has none.
UnhitRunAlone == \A j \in Jobs : faults[j] = 0 => Alone(j)

\* What a worker at an await does to its run is to its own job's.
LEMMA AloneAtAwait ==
    ASSUME TypeInv, UNCHANGED <<state, lock>>, NEW i \in Instances, run[i].at # "idle",
           NEW label \in Unsent \cup Sent \cup {"reject"}, Goto(i, label),
           NEW j \in Jobs, Alone(j)
    PROVE  Alone(j)'
<1>1. run \in [Instances -> Run] /\ run' = [run EXCEPT ![i] = [job |-> run[i].job, at |-> label]]
  BY GotoRun DEF TypeInv, TypeOK
<1>2. \A g \in Instances : run'[g].job = run[g].job
  BY <1>1
<1>3. QED
  BY <1>2 DEF Alone, Holds

\* A worker leaves a job that is its own.
LEMMA AloneAfterLeave ==
    ASSUME TypeInv, NEW i \in Instances, run[i].job \in Jobs,
           NEW status, status # "active", Leave(i, run[i].job, status),
           NEW j \in Jobs, Alone(j)
    PROVE  Alone(j)'
<1>1. /\ run \in [Instances -> Run] /\ run' = [run EXCEPT ![i] = Idle]
      /\ state \in [Jobs -> {"none", "waiting", "active", "delayed"} \cup Ended]
      /\ lock \in [Jobs -> Instances \cup {None}]
  BY DEF TypeInv, TypeOK, Leave
<1>2. /\ run'[i].job = None /\ j # None
      /\ \A g \in Instances \ {i} : run'[g].job = run[g].job
  BY <1>1, MailJobsAssumption DEF Idle
<1>3. CASE run[i].job = j
  <2>1. lock[j] = i /\ state' = [state EXCEPT ![j] = status]
    BY <1>3 DEF Alone, Leave
  <2>2. state'[j] # "active"
    BY <1>1, <2>1
  <2>3. \A g \in Instances : run'[g].job # j
    BY <1>2, <2>1 DEF Alone
  <2>4. QED  BY <2>2, <2>3 DEF Alone
<1>4. CASE run[i].job # j
  <2>1. state'[j] = state[j] /\ lock'[j] = lock[j]
    BY <1>1, <1>4 DEF Leave
  <2>2. \A g \in Instances : Holds(g, j) => Holds(g, j)'
    BY <1>2, <1>4, <2>1 DEF Holds
  <2>3. QED  BY <1>2, <2>1, <2>2 DEF Alone
<1>5. QED  BY <1>3, <1>4

\* The queue does nothing to a job whose worker holds its lock.
LEMMA AloneInQueue ==
    ASSUME TypeInv, NEW j \in Jobs, Alone(j), NEW k \in Jobs,
           Add(k) \/ QueueStep(k) \/ (LoseLock(k) /\ k # j)
    PROVE  Alone(j)'
<1>1. /\ state \in [Jobs -> {"none", "waiting", "active", "delayed"} \cup Ended]
      /\ lock \in [Jobs -> Instances \cup {None}] /\ run' = run
      /\ lock[j] # None => state[j] = "active"
      /\ None \notin Instances
  BY MailJobsAssumption DEF TypeInv, TypeOK, Structure, Add, QueueStep, BackoffEnds, LockLapses,
     TakeBack, LoseLock
<1>2. CASE k # j
  <2>1. state'[j] = state[j] /\ lock'[j] = lock[j]
    BY <1>1, <1>2 DEF Add, QueueStep, BackoffEnds, LockLapses, TakeBack, LoseLock
  <2>2. QED  BY <1>1, <2>1 DEF Alone, Holds
<1>3. CASE k = j
  <2>1. ~LockLapses(j) /\ ~TakeBack(j)
    <3>1. ASSUME state[j] = "active"
          PROVE  lock[j] # None /\ Holds(lock[j], j)
      BY <1>1, <3>1 DEF Alone, Holds
    <3>2. QED  BY <1>1, <3>1 DEF LockLapses, TakeBack
  <2>2. state[j] # "active" /\ state'[j] # "active" /\ lock' = lock
    BY <1>1, <1>3, <2>1 DEF Add, QueueStep, BackoffEnds
  <2>3. QED  BY <1>1, <2>2 DEF Alone
<1>4. QED  BY <1>2, <1>3

\* A job that waits has no worker yet.
LEMMA AloneWhenTaken ==
    ASSUME TypeInv, NEW j \in Jobs, Alone(j), NEW i \in Instances, NEW k \in Jobs, Take(i, k)
    PROVE  Alone(j)'
<1>1. /\ state \in [Jobs -> {"none", "waiting", "active", "delayed"} \cup Ended]
      /\ lock \in [Jobs -> Instances \cup {None}] /\ run \in [Instances -> Run]
  BY DEF TypeInv, TypeOK
<1>2. /\ state[k] = "waiting" /\ run[i].job = None /\ run'[i].job = k /\ j # None
      /\ \A g \in Instances \ {i} : run'[g].job = run[g].job
  BY <1>1, MailJobsAssumption DEF Take, Idle
<1>3. CASE k = j
  <2>1. state'[j] = "active" /\ lock'[j] = i
    BY <1>1, <1>3 DEF Take
  <2>2. \A g \in Instances : run'[g].job = j => g = i
    BY <1>2, <1>3 DEF Alone
  <2>3. QED  BY <1>2, <1>3, <2>1, <2>2 DEF Alone, Holds
<1>4. CASE k # j
  <2>1. state'[j] = state[j] /\ lock'[j] = lock[j]
    BY <1>1, <1>4 DEF Take
  <2>2. \A g \in Instances : run'[g].job = j <=> run[g].job = j
    BY <1>2, <1>4
  <2>3. QED  BY <2>1, <2>2 DEF Alone, Holds
<1>5. QED  BY <1>3, <1>4

\* A worker that dies leaves every job but its own as it was.
LEMMA AloneAfterDeath ==
    ASSUME TypeInv, NEW j \in Jobs, Alone(j), NEW i \in Instances, Die(i), run[i].job # j
    PROVE  Alone(j)'
<1>1. run \in [Instances -> Run] /\ run' = [run EXCEPT ![i] = Idle] /\ UNCHANGED <<state, lock>>
  BY DEF TypeInv, TypeOK, Die, bullVars
<1>2. \A g \in Instances : run'[g].job = j <=> run[g].job = j
  BY <1>1, MailJobsAssumption DEF Idle
<1>3. QED  BY <1>1, <1>2 DEF Alone, Holds

LEMMA NextAlone == TypeInv /\ UnhitRunAlone /\ [Next]_vars => UnhitRunAlone'
<1> SUFFICES ASSUME TypeInv, UnhitRunAlone, [Next]_vars, NEW j \in Jobs, faults'[j] = 0
             PROVE  Alone(j)'
  BY DEF UnhitRunAlone
<1>1. faults \in [Jobs -> Nat] /\ \A i \in Instances : run[i] \in Run
  BY DEF TypeInv, TypeOK
<1>2. ASSUME NEW k \in Jobs, Hit(k)
      PROVE  k # j /\ faults[j] = 0
  BY <1>1, <1>2 DEF Hit
<1>3. ASSUME faults[j] = 0
      PROVE  Alone(j)
  BY <1>3 DEF UnhitRunAlone
<1>4. ASSUME NEW k \in Jobs, Add(k) \/ QueueStep(k) \/ LoseLock(k)
      PROVE  Alone(j)'
  <2>1. faults' = faults \/ Hit(k)
    BY <1>4 DEF Add, QueueStep, BackoffEnds, LockLapses, TakeBack, LoseLock
  <2>2. Alone(j) /\ (LoseLock(k) => k # j)
    BY <1>2, <1>3, <2>1 DEF LoseLock
  <2>3. QED  BY <1>4, <2>2, AloneInQueue
<1>5. ASSUME NEW i \in Instances, NEW k \in Jobs, Take(i, k)
      PROVE  Alone(j)'
  <2>1. Alone(j)
    BY <1>3, <1>5 DEF Take
  <2>2. QED  BY <1>5, <2>1, AloneWhenTaken
<1>6. ASSUME NEW i \in Instances, Resolve(i) \/ Reject(i)
      PROVE  Alone(j)'
  <2>1. Alone(j) /\ run[i].job \in Jobs
    BY <1>3, <1>6, JobOfRun DEF Resolve, Reject, TypeInv
  <2>2. \E status \in {"completed", "delayed", "failed"} : Leave(i, run[i].job, status)
    BY <1>6 DEF Resolve, Reject
  <2>3. QED  BY <2>1, <2>2, AloneAfterLeave
<1>7. ASSUME NEW i \in Instances,
             \/ FindInvoice(i) \/ LaunchBrowser(i) \/ Render(i) \/ CloseBrowser(i)
             \/ SendMail(i) \/ CallFails(i)
      PROVE  Alone(j)'
  <2>1. run[i].at # "idle" /\ UNCHANGED <<state, lock>>
    BY <1>7 DEF FindInvoice, LaunchBrowser, Render, CloseBrowser, SendMail, CallFails, Unsent,
       bullVars
  <2>2. \E label \in Unsent \cup Sent \cup {"reject"} : Goto(i, label)
    BY <1>7 DEF FindInvoice, LaunchBrowser, Render, CloseBrowser, SendMail, CallFails, Unsent,
       Sent
  <2>3. faults' = faults \/ Hit(run[i].job)
    BY <1>7 DEF FindInvoice, LaunchBrowser, Render, CloseBrowser, SendMail, CallFails
  <2>4. Alone(j)
    BY <1>2, <1>3, <2>1, <2>3, JobOfRun DEF TypeInv
  <2>5. QED  BY <2>1, <2>2, <2>4, AloneAtAwait
<1>8. ASSUME NEW i \in Instances, Die(i)
      PROVE  Alone(j)'
  <2>1. run[i].job \in Jobs
    <3>1. run[i].at # "idle"
      BY <1>1, <1>8 DEF Die, Run, Unsent, Sent
    <3>2. QED  BY <3>1, JobOfRun DEF TypeInv
  <2>2. run[i].job # j /\ Alone(j)
    BY <1>2, <1>3, <1>8, <2>1 DEF Die
  <2>3. QED  BY <1>8, <2>2, AloneAfterDeath
<1>9. CASE UNCHANGED vars
  <2>1. Alone(j)
    BY <1>3, <1>9 DEF vars
  <2>2. QED  BY <1>9, <2>1 DEF vars, bullVars, Alone, Holds
<1>10. QED
  BY <1>4, <1>5, <1>6, <1>7, <1>8, <1>9 DEF Next, RunStep

\* However many workers and jobs there are, and whatever hits the other jobs, a job
\* no fault has hit is run by one worker that holds its lock and can go on, or waits
\* for one: no queue leaves it behind, and two workers on a job take a fault of it.
THEOREM UnhitJobsRunAlone == Spec => []UnhitRunAlone
<1>1. Init => UnhitRunAlone
  BY MailJobsAssumption DEF Init, UnhitRunAlone, Alone, Idle
<1>2. QED
  BY <1>1, NextAlone, TypeInductive, PTL DEF Spec
=============================================================================
