---------------------------- MODULE JobQueueProofs ----------------------------
(***************************************************************************)
(* What holds of the job queue for any number of jobs, processes and       *)
(* threads and for any lease, backoff and attempt limit.                   *)
(***************************************************************************)
EXTENDS JobQueue, FiniteSetTheorems, TLAPS

USE DEF Status, NoLease

\* The delay after an attempt is a number of ticks.
LEMMA BackoffType ==
    ASSUME NEW n \in Nat \ {0}
    PROVE  Backoff(n) \in Nat
<1>1. 1 + AtMost(n - 1, 8) \in 1 .. 9
  BY DEF AtMost
<1>2. Pow2[1 + AtMost(n - 1, 8)] \in Nat
  BY <1>1 DEF Pow2
<1>3. BackoffBase * Pow2[1 + AtMost(n - 1, 8)] \in Nat
  BY <1>2, TimeAssumption
<1>4. QED
  BY <1>3, TimeAssumption DEF Backoff, AtMost

\* What a thread writes about a job keeps the documents well typed.
LEMMA RecordType ==
    ASSUME TypeOK, NEW w \in Worker, NEW tk \in Task, NEW outcome \in Outcome,
           Record(w, tk, outcome)
    PROVE  /\ status' \in [Job -> Status]
           /\ attempts' \in [Job -> Nat]
           /\ avail' \in [Job -> Int]
           /\ owner' \in [Job -> Worker \cup {NoWorker}]
           /\ lease' \in [Job -> NoLease .. LeaseTime]
<1>1. tk.job \in Job /\ tk.attempts \in Nat \ {0}
  BY DEF Task
<1>2. Backoff(tk.attempts) \in Int
  BY <1>1, BackoffType
<1>3. CASE Owned(w, tk.job)
  <2>1. Settled(tk, outcome) \in Status
    BY DEF Settled
  <2>2. NoLease \in NoLease .. LeaseTime
    BY TimeAssumption
  <2>3. /\ status' = [status EXCEPT ![tk.job] = Settled(tk, outcome)]
        /\ avail' = [avail EXCEPT ![tk.job] =
                       IF outcome = "ok" THEN @ ELSE Backoff(tk.attempts)]
        /\ owner' = [owner EXCEPT ![tk.job] = NoWorker]
        /\ lease' = [lease EXCEPT ![tk.job] = NoLease]
        /\ UNCHANGED attempts
    BY <1>3 DEF Record
  <2>4. status' \in [Job -> Status] /\ attempts' \in [Job -> Nat]
    BY <1>1, <2>1, <2>3 DEF TypeOK
  <2>5. avail' \in [Job -> Int]
    BY <1>1, <1>2, <2>3 DEF TypeOK
  <2>6. owner' \in [Job -> Worker \cup {NoWorker}]
    BY <1>1, <2>3 DEF TypeOK
  <2>7. lease' \in [Job -> NoLease .. LeaseTime]
    BY <1>1, <2>2, <2>3 DEF TypeOK
  <2>8. QED
    BY <2>4, <2>5, <2>6, <2>7
<1>4. CASE ~ Owned(w, tk.job)
  BY <1>4 DEF Record, document, TypeOK
<1>5. QED
  BY <1>3, <1>4

\* Leasing a job keeps the documents well typed.
LEMMA LeaseToType ==
    ASSUME TypeOK, NEW w \in Worker, NEW j \in Job, LeaseTo(w, j)
    PROVE  /\ status' \in [Job -> Status]
           /\ attempts' \in [Job -> Nat]
           /\ avail' \in [Job -> Int]
           /\ owner' \in [Job -> Worker \cup {NoWorker}]
           /\ lease' \in [Job -> NoLease .. LeaseTime]
BY TimeAssumption DEF LeaseTo, TypeOK

\* A step keeps every variable in its type.
LEMMA TypeStep ==
    ASSUME TypeOK, [Next]_vars
    PROVE  TypeOK'
<1>1. ASSUME NEW j \in Job, Publish(j)
      PROVE  TypeOK'
  BY <1>1, TimeAssumption DEF Publish, TypeOK, runner, budget
<1>2. ASSUME NEW j \in Job, ReplayDead(j)
      PROVE  TypeOK'
  BY <1>2, TimeAssumption DEF ReplayDead, TypeOK, runner
<1>3. ASSUME NEW w \in Worker, Start(w)
      PROVE  TypeOK'
  <2>1. Cardinality(Thread) \in Nat
    BY ThreadAssumption, FS_CardinalityType
  <2>2. QED
    BY <1>3, <2>1 DEF Start, TypeOK, document, budget
<1>4. ASSUME NEW w \in Worker, NEW t \in Thread, NEW j \in Job, Claim(w, t, j)
      PROVE  TypeOK'
  <2>1. [job |-> j, attempts |-> attempts[j] + 1] \in Task
    BY DEF TypeOK, Task
  <2>2. /\ permits' \in [Worker -> Nat]
        /\ task' \in [Worker -> [Thread -> Task \cup {Idle}]]
    BY <1>4, <2>1 DEF Claim, TypeOK
  <2>3. QED
    BY <1>4, <2>2, LeaseToType DEF Claim, TypeOK, budget
<1>5. ASSUME NEW w \in Worker, ClaimFails(w)
      PROVE  TypeOK'
  BY <1>5, TimeAssumption DEF ClaimFails, Fault, TypeOK, document
<1>6. ASSUME NEW w \in Worker, NEW j \in Job, ClaimOrphans(w, j)
      PROVE  TypeOK'
  BY <1>6, LeaseToType, TimeAssumption DEF ClaimOrphans, Fault, TypeOK
<1>7. ASSUME NEW w \in Worker, NEW t \in Thread, SettleSome(w, t)
      PROVE  TypeOK'
  <2>1. PICK outcome \in Outcome : Settle(w, t, outcome)
    BY <1>7 DEF SettleSome
  <2>2. task[w][t] \in Task
    BY <2>1 DEF Settle, TypeOK
  <2>3. QED
    BY <2>1, <2>2, RecordType DEF Settle, Release, TypeOK, budget
<1>8. ASSUME NEW w \in Worker, NEW t \in Thread, SettleFails(w, t)
      PROVE  TypeOK'
  BY <1>8, TimeAssumption DEF SettleFails, Fault, Release, TypeOK, document
<1>9. ASSUME NEW w \in Worker, Crash(w) \/ Stop(w) \/ Exit(w)
      PROVE  TypeOK'
  <2>1. CASE Crash(w)
    <3>1. [t \in Thread |-> Idle] \in [Thread -> Task \cup {Idle}]
      OBVIOUS
    <3>2. task' \in [Worker -> [Thread -> Task \cup {Idle}]]
      BY <2>1, <3>1 DEF Crash, TypeOK
    <3>3. QED
      BY <2>1, <3>2 DEF Crash, TypeOK, document, budget
  <2>2. CASE Stop(w)
    BY <2>2 DEF Stop, TypeOK, document, budget
  <2>3. CASE Exit(w)
    BY <2>3 DEF Exit, TypeOK, document, budget
  <2>4. QED
    BY <1>9, <2>1, <2>2, <2>3
<1>10. CASE Tick
  BY <1>10, TimeAssumption DEF Tick, Closer, Fault, TypeOK, runner
<1>11. CASE UNCHANGED vars
  BY <1>11 DEF vars, document, runner, budget, TypeOK
<1>12. QED
  BY <1>1, <1>2, <1>3, <1>4, <1>5, <1>6, <1>7, <1>8, <1>9, <1>10, <1>11
     DEF Next, ClaimSome

LEMMA TypeInitially == Init => TypeOK
  BY TimeAssumption, NullAssumption, SMT DEF Init, TypeOK

\* Every variable keeps its type: statuses are the ones the code writes,
\* leases stay within one lease time, permits never go below zero.
THEOREM TypeCorrect == Spec => []TypeOK
<1>1. TypeOK /\ [Next]_vars => TypeOK'
  BY TypeStep
<1>2. QED
  BY <1>1, TypeInitially, PTL DEF Spec

-------------------------------------------------------------------------------
(* The shape of the documents.                                             *)

\* LeaseShape is inductive over well-typed states: whatever a step writes to
\* a status it also writes to the owner and the lease.
LEMMA LeaseShapeStep ==
    ASSUME TypeOK, LeaseShape, [Next]_vars
    PROVE  LeaseShape'
<1> USE NullAssumption, TimeAssumption
<1>1. ASSUME NEW j \in Job, Publish(j) \/ ReplayDead(j)
      PROVE  LeaseShape'
  BY <1>1 DEF Publish, ReplayDead, TypeOK, LeaseShape
<1>2. ASSUME NEW w \in Worker, NEW j \in Job, LeaseTo(w, j)
      PROVE  LeaseShape'
  BY <1>2 DEF LeaseTo, TypeOK, LeaseShape
<1>3. ASSUME NEW w \in Worker, NEW t \in Thread, SettleSome(w, t)
      PROVE  LeaseShape'
  <2>1. PICK outcome \in Outcome : Settle(w, t, outcome)
    BY <1>3 DEF SettleSome
  <2> DEFINE tk == task[w][t]
  <2>2. tk \in Task /\ tk.job \in Job /\ Record(w, tk, outcome)
    BY <2>1 DEF Settle, TypeOK, Task
  <2>3. Settled(tk, outcome) # "running"
    BY DEF Settled
  <2> HIDE DEF tk
  <2>4. CASE Owned(w, tk.job)
    BY <2>2, <2>3, <2>4 DEF Record, TypeOK, LeaseShape
  <2>5. CASE ~ Owned(w, tk.job)
    BY <2>2, <2>5 DEF Record, document, LeaseShape
  <2>6. QED
    BY <2>4, <2>5
<1>4. CASE Tick
  BY <1>4 DEF Tick, Closer, TypeOK, LeaseShape
<1>5. CASE UNCHANGED document
  BY <1>5 DEF document, LeaseShape
<1>6. QED
  BY <1>1, <1>2, <1>3, <1>4, <1>5
     DEF Next, ClaimSome, Claim, ClaimOrphans, Start, ClaimFails, SettleFails,
         Crash, Stop, Exit, vars

\* A running job always has an owner and a lease that will expire; a job
\* that is not running has neither, so the claim filter can reach it.
THEOREM LeaseShapeHolds == Spec => []LeaseShape
<1>1. Init => LeaseShape
  BY NullAssumption DEF Init, LeaseShape
<1>2. TypeOK /\ LeaseShape /\ [Next]_vars => LeaseShape'
  BY LeaseShapeStep
<1>3. QED
  BY <1>1, <1>2, TypeCorrect, PTL DEF Spec

-------------------------------------------------------------------------------
(* The semaphore and the pool.                                             *)

\* A process that has not started runs nothing; with PermitBacked this is
\* inductive, since starting is what hands out the permits.
OffIsIdle == \A w \in Worker : mode[w] = "off" => IdleThreads(w) = Thread

LEMMA IdleFinite ==
    ASSUME NEW w \in Worker
    PROVE  /\ IsFiniteSet(IdleThreads(w))
           /\ Cardinality(IdleThreads(w)) \in Nat
<1>1. IdleThreads(w) \subseteq Thread
  BY DEF IdleThreads
<1>2. QED
  BY <1>1, ThreadAssumption, FS_Subset, FS_CardinalityType

\* A step that leaves the permits and the threads of a process alone, or
\* takes a permit and nothing else, keeps its permits backed.
LEMMA PermitKept ==
    ASSUME TypeOK, PermitBacked, NEW v \in Worker,
           permits'[v] <= permits[v] \/ permits'[v] = 0,
           permits'[v] \in Nat,
           IdleThreads(v)' = IdleThreads(v) \/ permits'[v] = 0,
           IsFiniteSet(IdleThreads(v)')
    PROVE  permits'[v] <= Cardinality(IdleThreads(v))'
<1>1. Cardinality(IdleThreads(v))' \in Nat
  BY FS_CardinalityType
<1>2. permits[v] <= Cardinality(IdleThreads(v)) /\ permits[v] \in Nat
  BY DEF PermitBacked, TypeOK
<1>3. CASE permits'[v] = 0
  BY <1>1, <1>3
<1>4. CASE permits'[v] # 0
  <2>1. Cardinality(IdleThreads(v))' = Cardinality(IdleThreads(v))
    BY <1>4
  <2>2. Cardinality(IdleThreads(v)) \in Nat
    BY <1>1, <2>1
  <2>3. QED
    BY <1>2, <1>4, <2>1, <2>2
<1>5. QED
  BY <1>3, <1>4

LEMMA PermitStep ==
    ASSUME TypeOK, TypeOK', PermitBacked, OffIsIdle, [Next]_vars
    PROVE  PermitBacked' /\ OffIsIdle'
<1> USE NullAssumption
<1>1. \A v \in Worker : IsFiniteSet(IdleThreads(v)')
  <2>1. \A v \in Worker : IdleThreads(v)' \subseteq Thread
    BY DEF IdleThreads
  <2>2. QED
    BY <2>1, ThreadAssumption, FS_Subset
<1>2. \A v \in Worker : permits'[v] \in Nat /\ permits[v] \in Nat
  BY DEF TypeOK
<1>3. ASSUME NEW w \in Worker, Start(w)
      PROVE  PermitBacked' /\ OffIsIdle'
  <2>1. \A v \in Worker : IdleThreads(v)' = IdleThreads(v)
    BY <1>3 DEF Start, IdleThreads
  <2>2. OffIsIdle'
    BY <1>3, <2>1 DEF Start, OffIsIdle, TypeOK
  <2>3. ASSUME NEW v \in Worker
        PROVE  permits'[v] <= Cardinality(IdleThreads(v))'
    <3>1. CASE v = w
      <4>1. permits'[v] = Cardinality(Thread)
        BY <1>3, <3>1 DEF Start, TypeOK
      <4>2. IdleThreads(v)' = Thread
        BY <1>3, <2>1, <3>1 DEF Start, OffIsIdle
      <4>3. Cardinality(Thread) \in Nat
        BY ThreadAssumption, FS_CardinalityType
      <4>4. QED
        BY <4>1, <4>2, <4>3
    <3>2. CASE v # w
      <4>1. permits'[v] = permits[v]
        BY <1>3, <3>2 DEF Start, TypeOK
      <4>2. QED
        BY <1>1, <1>2, <2>1, <4>1, PermitKept
    <3>3. QED
      BY <3>1, <3>2
  <2>4. QED
    BY <2>2, <2>3 DEF PermitBacked
<1>4. ASSUME NEW w \in Worker, NEW t \in Thread, NEW j \in Job, Claim(w, t, j)
      PROVE  PermitBacked' /\ OffIsIdle'
  <2>1. /\ t \in IdleThreads(w)
        /\ permits'[w] = permits[w] - 1
        /\ permits[w] > 0
    BY <1>4 DEF Claim, TypeOK, IdleThreads
  <2>2. [job |-> j, attempts |-> attempts[j] + 1] # Idle
    BY DEF TypeOK, Task
  <2>3. IdleThreads(w)' = IdleThreads(w) \ {t}
    BY <1>4, <2>2 DEF Claim, TypeOK, IdleThreads
  <2>4. Cardinality(IdleThreads(w))' = Cardinality(IdleThreads(w)) - 1
    BY <2>1, <2>3, IdleFinite, FS_RemoveElement
  <2>5. permits'[w] <= Cardinality(IdleThreads(w))'
    BY <1>2, <2>1, <2>4, IdleFinite DEF PermitBacked
  <2>6. ASSUME NEW v \in Worker, v # w
        PROVE  permits'[v] = permits[v] /\ IdleThreads(v)' = IdleThreads(v)
    BY <1>4, <2>6 DEF Claim, TypeOK, IdleThreads
  <2>7. ASSUME NEW v \in Worker
        PROVE  permits'[v] <= Cardinality(IdleThreads(v))'
    BY <1>1, <1>2, <2>5, <2>6, PermitKept
  <2>8. OffIsIdle'
    BY <1>4, <2>6 DEF Claim, OffIsIdle, TypeOK
  <2>9. QED
    BY <2>7, <2>8 DEF PermitBacked
<1>5. ASSUME NEW w \in Worker, NEW t \in Thread, Release(w, t),
             task[w][t] # Idle
      PROVE  PermitBacked' /\ OffIsIdle'
  <2>1. /\ t \notin IdleThreads(w)
        /\ permits'[w] = permits[w] + 1
    BY <1>5 DEF Release, TypeOK, IdleThreads
  <2>2. IdleThreads(w)' = IdleThreads(w) \cup {t}
    BY <1>5 DEF Release, TypeOK, IdleThreads
  <2>3. Cardinality(IdleThreads(w))' = Cardinality(IdleThreads(w)) + 1
    BY <2>1, <2>2, IdleFinite, FS_AddElement
  <2>4. permits'[w] <= Cardinality(IdleThreads(w))'
    BY <1>2, <2>1, <2>3, IdleFinite DEF PermitBacked
  <2>5. ASSUME NEW v \in Worker, v # w
        PROVE  permits'[v] = permits[v] /\ IdleThreads(v)' = IdleThreads(v)
    BY <1>5, <2>5 DEF Release, TypeOK, IdleThreads
  <2>6. ASSUME NEW v \in Worker
        PROVE  permits'[v] <= Cardinality(IdleThreads(v))'
    BY <1>1, <1>2, <2>4, <2>5, PermitKept
  <2>7. OffIsIdle'
    BY <1>5, <2>1, <2>5 DEF Release, OffIsIdle, TypeOK
  <2>8. QED
    BY <2>6, <2>7 DEF PermitBacked
<1>6. ASSUME NEW w \in Worker,
             ClaimFails(w) \/ (\E j \in Job : ClaimOrphans(w, j))
      PROVE  PermitBacked' /\ OffIsIdle'
  <2>1. /\ permits' = [permits EXCEPT ![w] = @ - 1]
        /\ UNCHANGED <<mode, task>>
    BY <1>6 DEF ClaimFails, ClaimOrphans
  <2>2. \A v \in Worker : IdleThreads(v)' = IdleThreads(v)
    BY <2>1 DEF IdleThreads
  <2>3. \A v \in Worker : permits'[v] <= permits[v]
    BY <1>2, <2>1 DEF TypeOK
  <2>4. \A v \in Worker : permits'[v] <= Cardinality(IdleThreads(v))'
    BY <1>1, <1>2, <2>2, <2>3, PermitKept
  <2>5. QED
    BY <2>1, <2>2, <2>4 DEF PermitBacked, OffIsIdle
<1>7. ASSUME NEW w \in Worker, Crash(w) \/ Stop(w) \/ Exit(w)
      PROVE  PermitBacked' /\ OffIsIdle'
  <2>1. ASSUME NEW v \in Worker
        PROVE  \/ permits'[v] = 0
               \/ permits'[v] = permits[v] /\ IdleThreads(v)' = IdleThreads(v)
    <3>1. CASE Crash(w)
      BY <3>1 DEF Crash, TypeOK, IdleThreads
    <3>2. CASE Stop(w)
      BY <3>2 DEF Stop, TypeOK, IdleThreads
    <3>3. CASE Exit(w)
      BY <3>3 DEF Exit, TypeOK, IdleThreads
    <3>4. QED
      BY <1>7, <3>1, <3>2, <3>3
  <2>2. \A v \in Worker : permits'[v] <= Cardinality(IdleThreads(v))'
    BY <1>1, <1>2, <2>1, PermitKept
  <2>3. OffIsIdle'
    <3>1. ASSUME NEW v \in Worker, mode'[v] = "off"
          PROVE  mode[v] = "off" /\ task'[v] = task[v]
      BY <1>7, <3>1 DEF Crash, Stop, Exit, TypeOK
    <3>2. QED
      BY <3>1 DEF OffIsIdle, IdleThreads
  <2>4. QED
    BY <2>2, <2>3 DEF PermitBacked
<1>8. CASE UNCHANGED runner
  <2>1. UNCHANGED <<mode, permits, task>>
    BY <1>8 DEF runner
  <2>2. \A v \in Worker : IdleThreads(v)' = IdleThreads(v)
    BY <2>1 DEF IdleThreads
  <2>3. QED
    BY <2>1, <2>2 DEF PermitBacked, OffIsIdle
<1>9. QED
  BY <1>3, <1>4, <1>5, <1>6, <1>7, <1>8
     DEF Next, Publish, ReplayDead, ClaimSome, SettleSome, Settle, SettleFails,
         Tick, Closer, vars

\* Every permit the semaphore still has is matched by an idle thread.
THEOREM PermitBackedHolds == Spec => []PermitBacked
<1>1. Init => PermitBacked /\ OffIsIdle
  <2> SUFFICES ASSUME Init
               PROVE  PermitBacked /\ OffIsIdle
    OBVIOUS
  <2>1. \A w \in Worker : IdleThreads(w) = Thread /\ permits[w] = 0
    BY DEF Init, IdleThreads
  <2>2. Cardinality(Thread) \in Nat
    BY ThreadAssumption, FS_CardinalityType
  <2>3. QED
    BY <2>1, <2>2 DEF PermitBacked, OffIsIdle
<1>2. TypeOK /\ TypeOK' /\ PermitBacked /\ OffIsIdle /\ [Next]_vars
        => PermitBacked' /\ OffIsIdle'
  BY PermitStep
<1>3. QED
  BY <1>1, <1>2, TypeCorrect, PTL DEF Spec

-------------------------------------------------------------------------------
(* Leases.                                                                 *)

LEMMA LeaseRespectedStep ==
    ASSUME TypeOK, [Next]_vars, NEW j \in Job
    PROVE  RespectsLease(j)
<1> USE TimeAssumption
<1> SUFFICES ASSUME status[j] = "running", lease[j] > 0,
                    \/ status'[j] # status[j]
                    \/ owner'[j] # owner[j]
                    \/ attempts'[j] # attempts[j]
             PROVE  \E t \in Thread :
                        Holds(owner[j], t, j) /\ task'[owner[j]][t] = Idle
  BY DEF RespectsLease
<1>1. ASSUME NEW i \in Job, Publish(i) \/ ReplayDead(i)
      PROVE  FALSE
  BY <1>1 DEF Publish, ReplayDead, TypeOK
<1>2. ASSUME NEW w \in Worker, NEW i \in Job, LeaseTo(w, i)
      PROVE  FALSE
  <2>1. i # j
    BY <1>2 DEF LeaseTo, FirstInLine, Claimable, TypeOK
  <2>2. QED
    BY <1>2, <2>1 DEF LeaseTo, TypeOK
<1>3. ASSUME NEW w \in Worker, NEW t \in Thread, SettleSome(w, t)
      PROVE  Holds(owner[j], t, j) /\ task'[owner[j]][t] = Idle
  <2>1. PICK outcome \in Outcome : Settle(w, t, outcome)
    BY <1>3 DEF SettleSome
  <2> DEFINE tk == task[w][t]
  <2>2. tk # Idle /\ tk.job \in Job /\ Record(w, tk, outcome)
    BY <2>1 DEF Settle, TypeOK, Task
  <2>3. task'[w][t] = Idle
    BY <2>1 DEF Settle, Release, TypeOK
  <2>4. Owned(w, tk.job)
    <3> HIDE DEF tk
    <3> QED
      BY <2>2 DEF Record, document
  <2>5. tk.job = j
    <3> HIDE DEF tk
    <3> QED
      BY <2>2, <2>4 DEF Record, TypeOK
  <2>6. owner[j] = w
    BY <2>4, <2>5 DEF Owned
  <2>7. QED
    BY <2>2, <2>3, <2>5, <2>6 DEF Holds
<1>4. CASE Tick
  BY <1>4 DEF Tick, Closer
<1>5. CASE UNCHANGED document
  BY <1>5 DEF document
<1>6. QED
  BY <1>1, <1>2, <1>3, <1>4, <1>5
     DEF Next, ClaimSome, Claim, ClaimOrphans, Start, ClaimFails, SettleFails,
         Crash, Stop, Exit, vars

\* A valid lease protects a job from every process but its holder.
THEOREM LeaseRespectedHolds == Spec => LeaseRespected
<1>1. TypeOK /\ [Next]_vars => [\A j \in Job : RespectsLease(j)]_vars
  BY LeaseRespectedStep
<1>2. QED
  BY <1>1, TypeCorrect, PTL DEF Spec, LeaseRespected

-------------------------------------------------------------------------------
(* Nothing is lost.                                                        *)

\* A job that was published and whose outcome is not recorded, and how many
\* ticks it takes until it may be claimed if nobody touches it.
Unsettled(j) == status[j] \in {"queued", "retry", "running"}
TicksLeft(j) == IF status[j] = "running" THEN lease[j] ELSE IF avail[j] > 0 THEN avail[j] ELSE 0

\* What is not settled may be claimed after one lease or the longest delay.
WithinReach ==
    \A j \in Job :
        Unsettled(j) =>
            /\ TicksLeft(j) \in 0 .. (IF status[j] = "running" THEN LeaseTime ELSE BackoffCap)
            /\ Claimable(j) <=> TicksLeft(j) = 0

\* It gets no farther away, unless a process claims it, or a thread that runs it
\* for the lease's owner is done and records what became of it.
StaysInReach(j) ==
    Unsettled(j) =>
        \/ Unsettled(j)' /\ TicksLeft(j)' <= TicksLeft(j)
        \/ Claimable(j) /\ status'[j] = "running" /\ owner'[j] \in Worker
        \/ \E t \in Thread, outcome \in Outcome :
              /\ Holds(owner[j], t, j) /\ task'[owner[j]][t] = Idle
              /\ status'[j] = Settled(task[owner[j]][t], outcome)

\* And it comes closer with the clock.
TimeHelps == Tick => \A j \in Job : Unsettled(j) => Unsettled(j)' /\ TicksLeft(j)' = Closer(TicksLeft(j))

\* No delay is longer than the longest.
Delayed == \A j \in Job : avail[j] <= BackoffCap

\* Nor does a failure make a longer one.
LEMMA BackoffBound ==
    ASSUME NEW n \in Nat \ {0}
    PROVE  Backoff(n) <= BackoffCap
<1> DEFINE delay == BackoffBase * Pow2[1 + AtMost(n - 1, 8)]
<1>1. 1 + AtMost(n - 1, 8) \in 1 .. 9
  BY DEF AtMost
<1>2. Pow2[1 + AtMost(n - 1, 8)] \in Nat
  BY <1>1 DEF Pow2
<1>3. delay \in Nat /\ BackoffCap \in Nat
  BY <1>2, TimeAssumption
<1> HIDE DEF delay
<1>4. AtMost(delay, BackoffCap) <= BackoffCap
  BY <1>3 DEF AtMost
<1>5. QED
  BY <1>4 DEF Backoff, delay

\* The delay is set by a failure, or to nothing, and the clock shortens it.
LEMMA DelayedStep ==
    ASSUME TypeOK, Delayed, [Next]_vars
    PROVE  Delayed'
<1> USE TimeAssumption
<1>1. ASSUME NEW j \in Job, Publish(j) \/ ReplayDead(j)
      PROVE  Delayed'
  BY <1>1 DEF Publish, ReplayDead, TypeOK, Delayed
<1>2. ASSUME NEW w \in Worker, NEW t \in Thread, SettleSome(w, t)
      PROVE  Delayed'
  <2>1. PICK outcome \in Outcome : Settle(w, t, outcome)
    BY <1>2 DEF SettleSome
  <2>2. PICK tk \in Task : tk = task[w][t]
    BY <2>1 DEF Settle, TypeOK
  <2>3. Record(w, tk, outcome) /\ tk.job \in Job /\ tk.attempts \in Nat \ {0}
    BY <2>1, <2>2 DEF Settle, Task
  <2>4. Backoff(tk.attempts) <= BackoffCap /\ Backoff(tk.attempts) \in Nat
    BY <2>3, BackoffBound, BackoffType
  <2>5. CASE Owned(w, tk.job)
    <3>1. avail' = [avail EXCEPT ![tk.job] = IF outcome = "ok" THEN @ ELSE Backoff(tk.attempts)]
      BY <2>3, <2>5 DEF Record
    <3>2. QED
      BY <2>3, <2>4, <3>1 DEF Delayed, TypeOK
  <2>6. CASE ~Owned(w, tk.job)
    BY <2>3, <2>6 DEF Record, document, Delayed
  <2>7. QED
    BY <2>5, <2>6
<1>3. CASE Tick
  BY <1>3 DEF Tick, TypeOK, Delayed
<1>4. CASE UNCHANGED avail
  BY <1>4 DEF Delayed
<1>5. QED
  BY <1>1, <1>2, <1>3, <1>4
     DEF Next, ClaimSome, Claim, ClaimOrphans, LeaseTo, Start, ClaimFails, SettleFails,
         Crash, Stop, Exit, vars, document

\* A lease runs out, and so does a delay; then the claim filter finds the job.
LEMMA ReachIs ==
    ASSUME TypeOK, LeaseShape, Delayed
    PROVE  WithinReach
<1> USE TimeAssumption
<1> SUFFICES ASSUME NEW j \in Job, Unsettled(j)
             PROVE  /\ TicksLeft(j) \in 0 .. (IF status[j] = "running" THEN LeaseTime ELSE BackoffCap)
                    /\ Claimable(j) <=> TicksLeft(j) = 0
  BY DEF WithinReach
<1>1. /\ avail[j] \in Int /\ avail[j] <= BackoffCap /\ lease[j] \in NoLease .. LeaseTime
      /\ status[j] = "running" <=> lease[j] # NoLease
  BY DEF TypeOK, LeaseShape, Delayed
<1>2. CASE status[j] = "running"
  BY <1>1, <1>2 DEF TicksLeft, Claimable
<1>3. CASE status[j] \in {"queued", "retry"}
  BY <1>1, <1>3 DEF TicksLeft, Claimable
<1>4. QED
  BY <1>2, <1>3 DEF Unsettled

\* A step that leaves the documents alone leaves the job where it is.
LEMMA UntouchedStays ==
    ASSUME TypeOK, NEW j \in Job, UNCHANGED <<status[j], avail[j], lease[j]>>
    PROVE  StaysInReach(j)
<1>1. TicksLeft(j)' = TicksLeft(j) /\ Unsettled(j)' = Unsettled(j)
  BY DEF TicksLeft, Unsettled
<1>2. TicksLeft(j) \in Int
  BY TimeAssumption DEF TicksLeft, TypeOK
<1>3. TicksLeft(j)' <= TicksLeft(j)
  BY <1>1, <1>2
<1>4. QED
  BY <1>1, <1>3 DEF StaysInReach

\* Every action but a tick either leaves the document of the job, or claims it,
\* or belongs to the thread that holds it.
LEMMA StaysStep ==
    ASSUME TypeOK, LeaseShape, [Next]_vars, NEW j \in Job
    PROVE  StaysInReach(j) /\ (Tick /\ Unsettled(j) => Unsettled(j)' /\ TicksLeft(j)' = Closer(TicksLeft(j)))
<1> USE TimeAssumption
<1>1. ASSUME NEW i \in Job, Publish(i) \/ ReplayDead(i), Unsettled(j)
      PROVE  UNCHANGED <<status[j], avail[j], lease[j]>>
  <2>1. i # j
    BY <1>1 DEF Publish, ReplayDead, Unsettled
  <2>2. QED
    BY <1>1, <2>1 DEF Publish, ReplayDead, TypeOK
<1>2. ASSUME NEW w \in Worker, NEW i \in Job, LeaseTo(w, i), Unsettled(j)
      PROVE  StaysInReach(j)
  <2>1. CASE i = j
    BY <1>2, <2>1 DEF LeaseTo, FirstInLine, TypeOK, StaysInReach
  <2>2. CASE i # j
    BY <1>2, <2>2, UntouchedStays DEF LeaseTo, TypeOK
  <2>3. QED
    BY <2>1, <2>2
<1>3. ASSUME NEW w \in Worker, NEW t \in Thread, SettleSome(w, t), Unsettled(j)
      PROVE  StaysInReach(j)
  <2>1. PICK outcome \in Outcome : Settle(w, t, outcome)
    BY <1>3 DEF SettleSome
  <2>2. PICK tk \in Task : tk = task[w][t]
    BY <2>1 DEF Settle, TypeOK
  <2>3. Record(w, tk, outcome) /\ tk.job \in Job /\ tk # Idle /\ task'[w][t] = Idle
    BY <2>1, <2>2 DEF Settle, Release, Task, TypeOK
  <2>4. CASE Owned(w, tk.job) /\ tk.job = j
    <3>1. owner[j] = w /\ Holds(w, t, j)
      BY <2>2, <2>3, <2>4 DEF Owned, Holds
    <3>2. status'[j] = Settled(task[w][t], outcome)
      BY <2>2, <2>3, <2>4 DEF Record, TypeOK
    <3>3. QED
      BY <2>3, <3>1, <3>2 DEF StaysInReach
  <2>5. CASE ~Owned(w, tk.job) \/ tk.job # j
    <3>1. UNCHANGED <<status[j], avail[j], lease[j]>>
      BY <2>3, <2>5 DEF Record, document, TypeOK
    <3>2. QED
      BY <3>1, UntouchedStays
  <2>6. QED
    BY <2>4, <2>5
<1>4. ASSUME Tick, Unsettled(j)
      PROVE  Unsettled(j)' /\ TicksLeft(j)' = Closer(TicksLeft(j)) /\ TicksLeft(j)' <= TicksLeft(j)
  <2>1. /\ status'[j] = status[j] /\ lease'[j] = Closer(lease[j])
        /\ avail'[j] = IF avail[j] > -AgeBound THEN avail[j] - 1 ELSE avail[j]
    BY <1>4 DEF Tick, TypeOK
  <2>2. avail[j] \in Int /\ lease[j] \in Int /\ AgeBound \in Nat
    BY DEF TypeOK
  <2>3. Unsettled(j)'
    BY <1>4, <2>1 DEF Unsettled
  <2>4. CASE status[j] = "running"
    BY <2>1, <2>2, <2>3, <2>4 DEF TicksLeft, Closer
  <2>5. CASE status[j] # "running"
    BY <2>1, <2>2, <2>3, <2>5 DEF TicksLeft, Closer
  <2>6. QED
    BY <2>4, <2>5
<1>5. ASSUME UNCHANGED document, Unsettled(j)
      PROVE  StaysInReach(j)
  BY <1>5, UntouchedStays DEF document
<1>6. ASSUME Unsettled(j) PROVE StaysInReach(j)
  <2>1. CASE Tick
    BY <1>4, <1>6, <2>1 DEF StaysInReach
  <2>2. CASE \E i \in Job : Publish(i) \/ ReplayDead(i)
    BY <1>1, <1>6, <2>2, UntouchedStays
  <2>3. CASE \E w \in Worker, i \in Job : LeaseTo(w, i)
    BY <1>2, <1>6, <2>3
  <2>4. CASE \E w \in Worker, t \in Thread : SettleSome(w, t)
    BY <1>3, <1>6, <2>4
  <2>5. CASE UNCHANGED document
    BY <1>5, <1>6, <2>5
  <2>6. QED
    BY <2>1, <2>2, <2>3, <2>4, <2>5
       DEF Next, ClaimSome, Claim, ClaimOrphans, Start, ClaimFails, SettleFails,
           Crash, Stop, Exit, vars
<1>7. StaysInReach(j)
  BY <1>6 DEF StaysInReach
<1>8. QED
  BY <1>4, <1>7

\* No job is lost, whatever crashes, fails or is too slow: what is published
\* and has no outcome yet may be claimed after a bounded time, which the clock
\* brings closer and nothing else moves away but a claim or the thread that
\* holds the job (JobService.claim, fail; JobRunner.poll).
THEOREM NoJobIsLost ==
    Spec => /\ []WithinReach
            /\ [][\A j \in Job : StaysInReach(j)]_vars
            /\ [][TimeHelps]_vars
<1>1. Init => Delayed
  BY TimeAssumption DEF Init, Delayed
<1>2. TypeOK /\ Delayed /\ [Next]_vars => Delayed'
  BY DelayedStep
<1>3. TypeOK /\ LeaseShape /\ Delayed => WithinReach
  BY ReachIs
<1>4. TypeOK /\ LeaseShape /\ [Next]_vars => [\A j \in Job : StaysInReach(j)]_vars
  BY StaysStep
<1>5. TypeOK /\ LeaseShape /\ [Next]_vars => [TimeHelps]_vars
  BY StaysStep DEF TimeHelps
<1>6. QED
  BY <1>1, <1>2, <1>3, <1>4, <1>5, TypeCorrect, LeaseShapeHolds, PTL DEF Spec

-------------------------------------------------------------------------------
(* The abstract queue.                                                     *)

LEMMA AbstractStep ==
    ASSUME TypeOK, LeaseShape, [Next]_vars
    PROVE  [Abstract!Next]_(Abstract!vars)
<1> USE NullAssumption DEF Abstract!vars, PhaseOf
<1>1. ASSUME NEW j \in Job, Publish(j)
      PROVE  Abstract!Enqueue(j)
  <2>1. owner' = owner
    BY <1>1 DEF Publish, TypeOK, LeaseShape
  <2>2. QED
    BY <1>1, <2>1 DEF Publish, Abstract!Enqueue, TypeOK
<1>2. ASSUME NEW j \in Job, ReplayDead(j)
      PROVE  Abstract!Replay(j)
  <2>1. owner' = owner
    BY <1>2 DEF ReplayDead, TypeOK, LeaseShape
  <2>2. QED
    BY <1>2, <2>1 DEF ReplayDead, Abstract!Replay, TypeOK
<1>3. ASSUME NEW w \in Worker, NEW j \in Job, LeaseTo(w, j)
      PROVE  Abstract!Lease(j, w)
  BY <1>3 DEF LeaseTo, FirstInLine, Claimable, Abstract!Lease, TypeOK
<1>4. ASSUME NEW w \in Worker, NEW t \in Thread, SettleSome(w, t)
      PROVE  \/ \E j \in Job, outcome \in {"waiting", "done", "dead"} :
                   Abstract!GiveUp(j, outcome)
             \/ UNCHANGED Abstract!vars
  <2>1. PICK outcome \in Outcome : Settle(w, t, outcome)
    BY <1>4 DEF SettleSome
  <2> DEFINE tk == task[w][t]
  <2>2. tk \in Task /\ tk.job \in Job /\ Record(w, tk, outcome)
    BY <2>1 DEF Settle, TypeOK, Task
  <2> HIDE DEF tk
  <2>3. Settled(tk, outcome) \in {"completed", "dead", "retry"}
    BY DEF Settled
  <2>4. CASE Owned(w, tk.job)
    <3> DEFINE i == tk.job
               s == Settled(tk, outcome)
    <3>1. /\ status[i] = "running"
          /\ status' = [status EXCEPT ![i] = s]
          /\ owner' = [owner EXCEPT ![i] = NoWorker]
          /\ attempts' = attempts
      BY <2>2, <2>4 DEF Record, Owned
    <3> i \in Job /\ s \in {"completed", "dead", "retry"}
      BY <2>2, <2>3
    <3> HIDE DEF i, s
    <3>2. CASE s = "completed"
      <4>1. Abstract!GiveUp(i, "done")
        BY <3>1, <3>2 DEF Abstract!GiveUp, TypeOK
      <4>2. QED
        BY <4>1
    <3>3. CASE s = "dead"
      <4>1. Abstract!GiveUp(i, "dead")
        BY <3>1, <3>3 DEF Abstract!GiveUp, TypeOK
      <4>2. QED
        BY <4>1
    <3>4. CASE s = "retry"
      <4>1. Abstract!GiveUp(i, "waiting")
        BY <3>1, <3>4 DEF Abstract!GiveUp, TypeOK
      <4>2. QED
        BY <4>1
    <3>5. QED
      BY <3>2, <3>3, <3>4
  <2>5. CASE ~ Owned(w, tk.job)
    <3>1. UNCHANGED <<status, owner, attempts>>
      BY <2>2, <2>5 DEF Record, document
    <3>2. QED
      BY <3>1
  <2>6. QED
    BY <2>4, <2>5
<1>5. CASE UNCHANGED <<status, owner, attempts>>
  BY <1>5
<1>6. QED
  <2>1. CASE \E w \in Worker, j \in Job : LeaseTo(w, j)
    BY <1>3, <2>1 DEF Abstract!Next
  <2>2. CASE \E w \in Worker, t \in Thread : SettleSome(w, t)
    BY <1>4, <2>2 DEF Abstract!Next
  <2>3. CASE \E j \in Job : Publish(j) \/ ReplayDead(j)
    BY <1>1, <1>2, <2>3 DEF Abstract!Next
  <2>4. QED
    BY <1>5, <2>1, <2>2, <2>3
       DEF Next, ClaimSome, Claim, ClaimOrphans, Start, ClaimFails,
           SettleFails, Crash, Stop, Exit, Tick, Closer, vars, document

\* JobService and JobRunner together implement the abstract queue: finished
\* is final, only a dead job is replayed, and tries are counted.
THEOREM Refinement == Spec => IsWorkQueue
<1>1. Init => Abstract!Init
  BY DEF Init, Abstract!Init, PhaseOf
<1>2. TypeOK /\ LeaseShape /\ [Next]_vars => [Abstract!Next]_(Abstract!vars)
  BY AbstractStep
<1>3. QED
  BY <1>1, <1>2, TypeCorrect, LeaseShapeHolds, PTL
     DEF Spec, IsWorkQueue, Abstract!Spec

-------------------------------------------------------------------------------
(* One thread per process.                                                 *)

OneThread == \A t, u \in Thread : t = u

\* Two leases of one process cannot overlap when it has one thread: a claim,
\* even one whose job reaches no thread, needs the permit of that thread.
LEMMA OneThreadStep ==
    ASSUME OneThread, TypeOK, TypeOK', PermitBacked, AttemptFenced, RetryLeft,
           [Next]_vars
    PROVE  AttemptFenced' /\ RetryLeft'
<1> USE NullAssumption
<1>1. ASSUME NEW w \in Worker, permits[w] > 0, NEW t \in Thread
      PROVE  task[w][t] = Idle
  <2>1. Cardinality(IdleThreads(w)) > 0
    BY <1>1, IdleFinite DEF PermitBacked, TypeOK
  <2>3. IdleThreads(w) # {}
    BY <2>1, FS_EmptySet
  <2>4. QED
    BY <2>3 DEF IdleThreads, OneThread
<1>2. ASSUME NEW w \in Worker, NEW j \in Job, permits[w] > 0, LeaseTo(w, j),
             \A v \in Worker \ {w} : task'[v] = task[v],
             \A u \in Thread :
                \/ task'[w][u] = task[w][u]
                \/ task'[w][u] = [job |-> j, attempts |-> attempts[j] + 1]
      PROVE  AttemptFenced' /\ RetryLeft'
  <2>1. RetryLeft'
    BY <1>2 DEF LeaseTo, TypeOK, RetryLeft
  <2>2. ASSUME NEW v \in Worker, NEW u \in Thread,
               task'[v][u] # Idle, status'[task'[v][u].job] = "running",
               owner'[task'[v][u].job] = v
        PROVE  task'[v][u].attempts = attempts'[task'[v][u].job]
    <3>1. CASE v = w
      <4>1. task'[w][u] = [job |-> j, attempts |-> attempts[j] + 1]
        BY <1>1, <1>2, <2>2, <3>1
      <4>2. attempts'[j] = attempts[j] + 1
        BY <1>2 DEF LeaseTo, TypeOK
      <4>3. QED
        BY <3>1, <4>1, <4>2
    <3>2. CASE v # w
      <4> DEFINE k == task[v][u].job
      <4>1. task'[v][u] = task[v][u]
        BY <1>2, <3>2
      <4>2. task[v][u] \in Task /\ k \in Job
        BY <2>2, <4>1 DEF TypeOK, Task
      <4>3. status'[k] = "running" /\ owner'[k] = v
        BY <2>2, <4>1
      <4>4. task[v][u].attempts = attempts[k] \/ ~ Owned(v, k)
        BY <2>2, <4>1 DEF AttemptFenced
      <4> HIDE DEF k
      <4>5. k # j
        BY <1>2, <3>2, <4>3 DEF LeaseTo, TypeOK
      <4>6. Owned(v, k) /\ attempts'[k] = attempts[k]
        BY <1>2, <4>2, <4>3, <4>5 DEF Owned, LeaseTo, TypeOK
      <4>7. QED
        BY <4>1, <4>4, <4>6 DEF k
    <3>3. QED
      BY <3>1, <3>2
  <2>3. QED
    BY <2>1, <2>2 DEF AttemptFenced, Owned
<1>3. ASSUME NEW w \in Worker, NEW t \in Thread, SettleSome(w, t)
      PROVE  AttemptFenced' /\ RetryLeft'
  <2>1. PICK outcome \in Outcome : Settle(w, t, outcome)
    BY <1>3 DEF SettleSome
  <2> DEFINE tk == task[w][t]
  <2>2. /\ tk # Idle
        /\ tk \in Task /\ tk.job \in Job
        /\ Record(w, tk, outcome)
        /\ task' = [task EXCEPT ![w][t] = Idle]
    BY <2>1 DEF Settle, Release, TypeOK, Task
  <2>3. Owned(w, tk.job) => tk.attempts = attempts[tk.job]
    BY <2>2 DEF AttemptFenced
  <2>4. Settled(tk, outcome) = "retry" => tk.attempts < MaxAttempts
    BY <2>2, TimeAssumption DEF Settled, Task
  <2>5. Settled(tk, outcome) # "running"
    BY DEF Settled
  <2> HIDE DEF tk
  <2>6. /\ attempts' = attempts
        /\ \A v \in Worker, k \in Job : Owned(v, k)' => Owned(v, k)
    BY <2>2, <2>5 DEF Record, Owned, document, TypeOK
  <2>7. RetryLeft'
    BY <2>2, <2>3, <2>4 DEF Record, document, TypeOK, RetryLeft
  <2>8. \A v \in Worker, u \in Thread :
           task'[v][u] # Idle => task'[v][u] = task[v][u] /\ task[v][u].job \in Job
    BY <2>2 DEF TypeOK, Task
  <2>9. QED
    BY <2>6, <2>7, <2>8 DEF AttemptFenced
<1>4. ASSUME NEW j \in Job, Publish(j) \/ ReplayDead(j)
      PROVE  AttemptFenced' /\ RetryLeft'
  <2>1. /\ task' = task
        /\ status' = [status EXCEPT ![j] = "queued"]
        /\ \A k \in Job \ {j} : attempts'[k] = attempts[k] /\ owner'[k] = owner[k]
    BY <1>4 DEF Publish, ReplayDead, runner, TypeOK
  <2>2. RetryLeft'
    BY <2>1 DEF RetryLeft, TypeOK
  <2>3. \A v \in Worker, k \in Job :
           Owned(v, k)' => Owned(v, k) /\ attempts'[k] = attempts[k]
    BY <2>1 DEF Owned, TypeOK
  <2>4. \A v \in Worker, u \in Thread :
           task[v][u] # Idle => task[v][u].job \in Job
    BY DEF TypeOK, Task
  <2>5. QED
    BY <2>1, <2>2, <2>3, <2>4 DEF AttemptFenced
<1>5. CASE /\ UNCHANGED <<status, attempts, owner>>
           /\ \A w \in Worker, t \in Thread :
                 task'[w][t] # Idle => task'[w][t] = task[w][t]
  BY <1>5 DEF AttemptFenced, RetryLeft, Owned
<1>6. CASE \E w \in Worker, t \in Thread : SettleFails(w, t)
  BY <1>5, <1>6 DEF SettleFails, Release, document, TypeOK
<1>7. CASE \E w \in Worker : Crash(w)
  BY <1>5, <1>7 DEF Crash, document, TypeOK
<1>8. CASE UNCHANGED <<status, attempts, owner, task>>
  BY <1>5, <1>8
<1>9. CASE \E w \in Worker, t \in Thread, j \in Job : Claim(w, t, j)
  BY <1>2, <1>9 DEF Claim, TypeOK
<1>10. CASE \E w \in Worker, j \in Job : ClaimOrphans(w, j)
  BY <1>2, <1>10 DEF ClaimOrphans
<1>11. QED
  BY <1>3, <1>4, <1>6, <1>7, <1>8, <1>9, <1>10
     DEF Next, ClaimSome, Start, ClaimFails, Stop, Exit, Tick, Closer, vars, document,
         runner

\* With one thread per process every recorded outcome belongs to the attempt
\* it was leased for, and so the attempt limit of fail is enforced: a job is
\* put back for another try only while tries are left.
THEOREM OneThreadFences ==
    ASSUME OneThread
    PROVE  Spec => [](AttemptFenced /\ RetryLeft)
<1>1. Init => AttemptFenced /\ RetryLeft
  BY DEF Init, AttemptFenced, RetryLeft
<1>2. /\ TypeOK /\ TypeOK' /\ PermitBacked /\ AttemptFenced /\ RetryLeft
      /\ [Next]_vars
      => AttemptFenced' /\ RetryLeft'
  BY OneThreadStep
<1>3. QED
  BY <1>1, <1>2, TypeCorrect, PermitBackedHolds, PTL DEF Spec
===============================================================================
