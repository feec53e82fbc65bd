------------------------------- MODULE JobQueue -------------------------------
(***************************************************************************)
(* The Mongo-leased job queue of the Kotlin backend: JobService (the jobs  *)
(* collection) and the JobRunner of every process that polls it.           *)
(*                                                                         *)
(* A Worker is one incarnation of the process: JobRunner draws a fresh     *)
(* workerId at start-up, so a restarted process is another Worker.  Its    *)
(* Threads share that one workerId, and a semaphore with one permit per    *)
(* thread bounds the jobs in flight.                                       *)
(*                                                                         *)
(* Time is kept relative to the clock: avail[j] is availableAt - now and   *)
(* lease[j] is leaseExpiresAt - now, in ticks, so that one Tick moves      *)
(* every deadline closer.  What a handler does is left to the modules that *)
(* build on this one: here it ends with any outcome after any delay.       *)
(***************************************************************************)
EXTENDS Integers, FiniteSets

CONSTANTS
    Job,          \* jobs, one per idempotency key
    Worker,       \* incarnations of the process that runs a JobRunner
    Thread,       \* the executor's threads (tableplan.jobs.concurrency of them)
    NoWorker,     \* leaseOwner = null
    Idle,         \* a thread that runs no job
    MaxAttempts,  \* 5: the attempt at which a retryable failure becomes final
    LeaseTime,    \* 2 minutes, in ticks
    BackoffBase,  \* 5 seconds, in ticks
    BackoffCap,   \* 900 seconds, in ticks
    AgeBound,     \* bound: how far in the past an availableAt is remembered
    FaultBound,   \* bound: slow handlers and failed database calls
    ReplayBound   \* bound: operator replays of dead jobs

ASSUME ThreadAssumption == IsFiniteSet(Thread)
ASSUME TimeAssumption ==
    /\ MaxAttempts \in Nat \ {0}
    /\ LeaseTime \in Nat \ {0}
    /\ BackoffBase \in Nat
    /\ BackoffCap \in Nat
    /\ AgeBound \in Nat
    /\ FaultBound \in Nat
    /\ ReplayBound \in Nat

VARIABLES
    status,     \* status[j], "absent" while there is no document
    attempts,   \* attempts[j]
    avail,      \* availableAt - now, no lower than -AgeBound
    owner,      \* leaseOwner
    lease,      \* leaseExpiresAt - now, 0 once expired, NoLease for null
    mode,       \* mode[w]: the life of a process
    permits,    \* permits[w]: what is left of the semaphore "capacity"
    task,       \* task[w][t]: the LeasedJob a thread is running
    faults,     \* faults so far, at most FaultBound
    replays     \* replays so far, at most ReplayBound

document == <<status, attempts, avail, owner, lease>>
runner   == <<mode, permits, task>>
budget   == <<faults, replays>>
vars     == <<document, runner, budget>>

NoLease == -1
Status  == {"absent", "queued", "retry", "running", "completed", "dead"}
Task    == [job : Job, attempts : Nat \ {0}]
Outcome == {"ok", "retryable", "fatal"}

ASSUME NullAssumption == NoWorker \notin Worker /\ Idle \notin Task

TypeOK ==
    /\ status \in [Job -> Status]
    /\ attempts \in [Job -> Nat]
    /\ avail \in [Job -> Int]
    /\ owner \in [Job -> Worker \cup {NoWorker}]
    /\ lease \in [Job -> NoLease .. LeaseTime]
    /\ mode \in [Worker -> {"off", "up", "stopping", "gone"}]
    /\ permits \in [Worker -> Nat]
    /\ task \in [Worker -> [Thread -> Task \cup {Idle}]]
    /\ faults \in 0 .. FaultBound
    /\ replays \in 0 .. ReplayBound

Init ==
    /\ status = [j \in Job |-> "absent"]
    /\ attempts = [j \in Job |-> 0]
    /\ avail = [j \in Job |-> 0]
    /\ owner = [j \in Job |-> NoWorker]
    /\ lease = [j \in Job |-> NoLease]
    /\ mode = [w \in Worker |-> "off"]
    /\ permits = [w \in Worker |-> 0]
    /\ task = [w \in Worker |-> [t \in Thread |-> Idle]]
    /\ faults = 0
    /\ replays = 0

-------------------------------------------------------------------------------
(* JobService: the documents.                                              *)

\* publish: an upsert on the idempotency key whose every field is
\* $setOnInsert, so publishing an existing key changes nothing.
Publish(j) ==
    /\ status[j] = "absent"
    /\ status' = [status EXCEPT ![j] = "queued"]
    /\ attempts' = [attempts EXCEPT ![j] = 0]
    /\ avail' = [avail EXCEPT ![j] = 0]
    /\ owner' = [owner EXCEPT ![j] = NoWorker]
    /\ lease' = [lease EXCEPT ![j] = NoLease]
    /\ UNCHANGED <<runner, budget>>

\* Mutant: a job whose lease expired is not taken over.
ClaimableOnce(j) == status[j] \in {"queued", "retry"} /\ avail[j] <= 0

\* jobClaimFilter; a null lease also passes the first branch's test.
Claimable(j) ==
    \/ /\ status[j] \in {"queued", "retry"}
       /\ avail[j] <= 0
       /\ lease[j] <= 0
    \/ /\ status[j] = "running"
       /\ lease[j] = 0

\* The claim sorts by availableAt; the createdAt tie-break is left open.
FirstInLine(j) ==
    /\ Claimable(j)
    /\ \A i \in Job : Claimable(i) => avail[j] <= avail[i]

\* The findOneAndUpdate of claim.
LeaseTo(w, j) ==
    /\ FirstInLine(j)
    /\ status' = [status EXCEPT ![j] = "running"]
    /\ owner' = [owner EXCEPT ![j] = w]
    /\ lease' = [lease EXCEPT ![j] = LeaseTime]
    /\ attempts' = [attempts EXCEPT ![j] = @ + 1]
    /\ UNCHANGED avail

\* Mutants: the lease's owner, or the whole guard, is not checked.
OwnedByAnyone(w, j) == status[j] = "running"
OwnedUnchecked(w, j) == TRUE

\* ownedLease: the guard of complete and of fail.
Owned(w, j) == status[j] = "running" /\ owner[j] = w

Pow2 == <<1, 2, 4, 8, 16, 32, 64, 128, 256>>
AtMost(n, cap) == IF n <= cap THEN n ELSE cap
Backoff(n) == AtMost(BackoffBase * Pow2[1 + AtMost(n - 1, 8)], BackoffCap)

\* Mutant: a retry that forgets to set the status.
SettledRunning(tk, outcome) ==
    IF outcome = "ok" THEN "completed"
    ELSE IF outcome = "fatal" \/ tk.attempts >= MaxAttempts THEN "dead"
    ELSE status[tk.job]

\* complete, or fail with its choice between another attempt and the dead
\* letters; the attempt number is the one of the caller's LeasedJob.
Settled(tk, outcome) ==
    IF outcome = "ok" THEN "completed"
    ELSE IF outcome = "fatal" \/ tk.attempts >= MaxAttempts THEN "dead"
    ELSE "retry"

Record(w, tk, outcome) ==
    LET j == tk.job
    IN  IF Owned(w, j)
        THEN /\ status' = [status EXCEPT ![j] = Settled(tk, outcome)]
             /\ avail' = [avail EXCEPT ![j] =
                            IF outcome = "ok" THEN @ ELSE Backoff(tk.attempts)]
             /\ owner' = [owner EXCEPT ![j] = NoWorker]
             /\ lease' = [lease EXCEPT ![j] = NoLease]
             /\ UNCHANGED attempts
        ELSE UNCHANGED document

\* replayDead, from the operator's command line.
ReplayDead(j) ==
    /\ status[j] = "dead"
    /\ replays < ReplayBound
    /\ replays' = replays + 1
    /\ status' = [status EXCEPT ![j] = "queued"]
    /\ attempts' = [attempts EXCEPT ![j] = 0]
    /\ avail' = [avail EXCEPT ![j] = 0]
    /\ owner' = [owner EXCEPT ![j] = NoWorker]
    /\ lease' = [lease EXCEPT ![j] = NoLease]
    /\ UNCHANGED <<runner, faults>>

-------------------------------------------------------------------------------
(* JobRunner: the processes.                                               *)

IdleThreads(w) == {t \in Thread : task[w][t] = Idle}
Holds(w, t, j) == task[w][t] # Idle /\ task[w][t].job = j

Fault == faults < FaultBound /\ faults' = faults + 1

Start(w) ==
    /\ mode[w] = "off"
    /\ mode' = [mode EXCEPT ![w] = "up"]
    /\ permits' = [permits EXCEPT ![w] = Cardinality(Thread)]
    /\ UNCHANGED <<document, task, budget>>

\* One turn of poll's loop: take a permit, claim, hand the job to a thread.
Claim(w, t, j) ==
    /\ mode[w] = "up"
    /\ permits[w] > 0
    /\ task[w][t] = Idle
    /\ LeaseTo(w, j)
    /\ permits' = [permits EXCEPT ![w] = @ - 1]
    /\ task' = [task EXCEPT ![w][t] = [job |-> j, attempts |-> attempts[j] + 1]]
    /\ UNCHANGED <<mode, budget>>

\* claim throws after tryAcquire: nothing gives the permit back.
ClaimFails(w) ==
    /\ mode[w] = "up"
    /\ permits[w] > 0
    /\ Fault
    /\ permits' = [permits EXCEPT ![w] = @ - 1]
    /\ UNCHANGED <<document, mode, task, replays>>

\* The claim is stored but no thread gets the job: its reply is lost, or the
\* executor is shut down and rejects it.  The permit is lost here too.
ClaimOrphans(w, j) ==
    /\ mode[w] \in {"up", "stopping"}
    /\ permits[w] > 0
    /\ Fault
    /\ LeaseTo(w, j)
    /\ permits' = [permits EXCEPT ![w] = @ - 1]
    /\ UNCHANGED <<mode, task, replays>>

\* Mutant: the permit is given back by the finally block and once more.
ReleaseTwice(w, t) ==
    /\ task' = [task EXCEPT ![w][t] = Idle]
    /\ permits' = [permits EXCEPT ![w] = @ + 2]
    /\ UNCHANGED mode

Release(w, t) ==
    /\ task' = [task EXCEPT ![w][t] = Idle]
    /\ permits' = [permits EXCEPT ![w] = @ + 1]
    /\ UNCHANGED mode

\* The handler returned or threw; the thread records the outcome and
\* releases its permit.
Settle(w, t, outcome) ==
    /\ task[w][t] # Idle
    /\ Record(w, task[w][t], outcome)
    /\ Release(w, t)
    /\ UNCHANGED budget

\* The update of fail itself throws: the permit is released by the finally
\* block, the document stays as it was.
SettleFails(w, t) ==
    /\ task[w][t] # Idle
    /\ Fault
    /\ Release(w, t)
    /\ UNCHANGED <<document, replays>>

\* Somebody restarts the service: some other incarnation is left to run.
OthersLeft(w) == \E v \in Worker \ {w} : mode[v] \in {"off", "up"}

Crash(w) ==
    /\ mode[w] \in {"up", "stopping"}
    /\ OthersLeft(w)
    /\ mode' = [mode EXCEPT ![w] = "gone"]
    /\ permits' = [permits EXCEPT ![w] = 0]
    /\ task' = [task EXCEPT ![w] = [t \in Thread |-> Idle]]
    /\ UNCHANGED <<document, budget>>

\* shutdown: no new work; the threads finish what they run.
Stop(w) ==
    /\ mode[w] = "up"
    /\ OthersLeft(w)
    /\ mode' = [mode EXCEPT ![w] = "stopping"]
    /\ UNCHANGED <<document, permits, task, budget>>

Exit(w) ==
    /\ mode[w] = "stopping"
    /\ \A t \in Thread : task[w][t] = Idle
    /\ mode' = [mode EXCEPT ![w] = "gone"]
    /\ permits' = [permits EXCEPT ![w] = 0]
    /\ UNCHANGED <<document, task, budget>>

-------------------------------------------------------------------------------
(* The clock.                                                              *)

\* Some thread is about to outlive the lease it works under.
LeaseAtRisk ==
    \E w \in Worker, t \in Thread :
        /\ task[w][t] # Idle
        /\ Owned(w, task[w][t].job)
        /\ lease[task[w][t].job] = 1

\* A deadline comes closer until it has passed; null stays null.
Closer(d) == IF d > 0 THEN d - 1 ELSE d

\* A tick that lets a handler outlive its lease is a fault; others are free.
Tick ==
    /\ IF LeaseAtRisk THEN Fault ELSE UNCHANGED faults
    /\ avail' = [j \in Job |-> IF avail[j] > -AgeBound THEN avail[j] - 1
                                                       ELSE avail[j]]
    /\ lease' = [j \in Job |-> Closer(lease[j])]
    /\ UNCHANGED <<status, attempts, owner, runner, replays>>

SettleSome(w, t) == \E outcome \in Outcome : Settle(w, t, outcome)
ClaimSome(w)     == \E t \in Thread, j \in Job : Claim(w, t, j)

Next ==
    \/ \E j \in Job : Publish(j) \/ ReplayDead(j)
    \/ \E w \in Worker :
          \/ Start(w) \/ ClaimSome(w) \/ ClaimFails(w)
          \/ \E j \in Job : ClaimOrphans(w, j)
          \/ \E t \in Thread : SettleSome(w, t) \/ SettleFails(w, t)
          \/ Crash(w) \/ Stop(w) \/ Exit(w)
    \/ Tick

Spec == Init /\ [][Next]_vars

\* Time passes, a running process keeps polling, a handler ends, and the
\* service manager starts the process again.
Fairness ==
    /\ WF_vars(Tick)
    /\ \A w \in Worker :
          /\ WF_vars(Start(w))
          /\ WF_vars(ClaimSome(w))
          /\ \A t \in Thread : WF_vars(SettleSome(w, t))

FairSpec == Spec /\ Fairness

-------------------------------------------------------------------------------
(* Properties.                                                             *)

\* No document is ever in a shape that neither branch of the claim filter
\* can reach: a running job has an owner and a lease that will expire, any
\* other job has neither (JobService.claim, complete, fail, replayDead).
LeaseShape ==
    \A j \in Job :
        /\ status[j] = "running" <=> owner[j] \in Worker
        /\ status[j] = "running" <=> lease[j] # NoLease

\* A permit in hand guarantees an idle thread, so a claimed job starts at
\* once and never spends its lease waiting in the executor's queue.
PermitBacked ==
    \A w \in Worker : permits[w] <= Cardinality(IdleThreads(w))

\* While a lease is valid nobody but a thread of the leasing process, at
\* the end of its own run of that job, changes the job's status, owner or
\* attempts: neither another poller nor the late thread of a process whose
\* lease was taken over.
RespectsLease(j) ==
    /\ status[j] = "running"
    /\ lease[j] > 0
    /\ \/ status'[j] # status[j]
       \/ owner'[j] # owner[j]
       \/ attempts'[j] # attempts[j]
    => \E t \in Thread :
           Holds(owner[j], t, j) /\ task'[owner[j]][t] = Idle

LeaseRespected == [][\A j \in Job : RespectsLease(j)]_vars

\* With one thread per process (tableplan.jobs.concurrency = 1) the process
\* name in ownedLease does fence attempts: what a thread may record, it
\* records for the attempt it was leased.  With more threads it does not.
AttemptFenced ==
    \A w \in Worker, t \in Thread :
        task[w][t] # Idle /\ Owned(w, task[w][t].job)
            => task[w][t].attempts = attempts[task[w][t].job]

\* With one thread per process a job is only ever put back for another try
\* while tries are left (the limit of JobService.fail).
RetryLeft ==
    \A j \in Job : status[j] = "retry" => attempts[j] < MaxAttempts

\* Every process has stopped, or has lost all its permits to failed claims.
Drained ==
    \A w \in Worker :
        \/ mode[w] \in {"stopping", "gone"}
        \/ mode[w] = "up" /\ permits[w] = 0 /\ IdleThreads(w) = Thread

\* Every published job is eventually completed or set aside as dead, across
\* crashes, restarts and slow handlers, and none is starved by the others,
\* as long as some process has a permit left to claim with.
EveryJobSettles ==
    \A j \in Job :
        status[j] = "queued" ~> status[j] \in {"completed", "dead"} \/ Drained

\* The queue keeps the promise of WorkQueue.
PhaseOf(s) == CASE s = "absent"             -> "absent"
                [] s \in {"queued", "retry"} -> "waiting"
                [] s = "running"            -> "leased"
                [] s = "completed"          -> "done"
                [] s = "dead"               -> "dead"

Abstract == INSTANCE WorkQueue WITH
                phase  <- [j \in Job |-> PhaseOf(status[j])],
                holder <- owner,
                tries  <- attempts

IsWorkQueue == Abstract!Spec
===============================================================================
