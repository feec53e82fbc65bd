------------------------- MODULE EmailDeliveryProofs -------------------------
(* What holds of the shopping-list e-mail of the Kotlin backend for any number *)
(* of deliveries, processes and threads: it is a use of the job queue, so that *)
(* what is proved of the queue holds of it; what is recorded as sent was       *)
(* accepted; and retries alone do not send a delivery twice.                   *)
EXTENDS EmailDelivery, JobQueueProofs

-------------------------------------------------------------------------------
(* The queue under the e-mail.                                                 *)

\* A fault that a handler meets between two commands of the queue.
HandlerFault == Fault /\ UNCHANGED <<document, runner, replays>>

LEMMA MailStepOfQueue ==
    ASSUME [MailNext]_mailVars
    PROVE  [Next]_vars \/ HandlerFault
<1>1. ASSUME NEW j \in Job, CreateDelivery(j) \/ PublishJob(j) \/ RequestDies(j)
      PROVE  [Next]_vars
  BY <1>1 DEF CreateDelivery, StoreDocument, PublishJob, RequestDies, Next
<1>2. ASSUME NEW w \in Worker, Begin(w) \/ Take(w) \/ Die(w)
      PROVE  Next
  BY <1>2 DEF Begin, Take, Die, ClaimSome, Next
<1>3. ASSUME NEW w \in Worker, NEW t \in Thread, Return(w, t)
      PROVE  Next
  <2>1. \/ \E outcome \in Outcome : Settle(w, t, outcome)
        \/ SettleFails(w, t)
    BY <1>3 DEF Return
  <2>2. QED
    BY <2>1 DEF SettleSome, Next
<1>4. ASSUME NEW w \in Worker, NEW t \in Thread,
             ClaimDelivery(w, t) \/ SendFails(w, t) \/ SendAccepted(w, t) \/ MarkSent(w, t) \/ MarkFailed(w, t)
      PROVE  UNCHANGED vars
  BY <1>4 DEF ClaimDelivery, SendFails, SendAccepted, MarkSent, MarkFailed, Within
<1>5. ASSUME NEW w \in Worker, NEW t \in Thread, SendUnanswered(w, t) \/ StoreFails(w, t)
      PROVE  HandlerFault
  BY <1>5 DEF SendUnanswered, StoreFails, CompleteFails, FaultWithin, HandlerFault
<1>6. CASE QueueStep \/ TickMail
  BY <1>6 DEF QueueStep, TickMail, TickHandling, Next
<1>7. CASE UNCHANGED mailVars
  BY <1>7 DEF mailVars, jobVars
<1>8. QED
  BY <1>1, <1>2, <1>3, <1>4, <1>5, <1>6, <1>7 DEF MailNext, HandlerStep

\* A handler's fault is nothing to the queue.
LEMMA FaultLeavesQueue ==
    ASSUME TypeOK, HandlerFault
    PROVE  /\ TypeOK'
           /\ UNCHANGED <<status, attempts, avail, owner, lease, mode, permits, task>>
  BY TimeAssumption DEF HandlerFault, Fault, document, runner, TypeOK

LEMMA QueueUnderMail == MailSpec => [](TypeOK /\ LeaseShape)
<1>1. MailInit => TypeOK /\ LeaseShape
  BY TypeInitially, NullAssumption DEF MailInit, HandlingInit, Init, LeaseShape
<1>2. ASSUME TypeOK, LeaseShape, [MailNext]_mailVars
      PROVE  TypeOK' /\ LeaseShape'
  <2>1. CASE [Next]_vars
    BY <1>2, <2>1, TypeStep, LeaseShapeStep
  <2>2. CASE HandlerFault
    BY <1>2, <2>2, FaultLeavesQueue DEF LeaseShape
  <2>3. QED
    BY <1>2, <2>1, <2>2, MailStepOfQueue
<1>3. QED
  BY <1>1, <1>2, PTL DEF MailSpec

\* Under the e-mail handler the queue keeps the promise of WorkQueue: what is done
\* stays done, only a dead job is replayed, and tries are counted.
THEOREM MailIsWorkQueue == MailSpec => IsWorkQueue
<1>1. MailInit => Abstract!Init
  BY DEF MailInit, HandlingInit, Init, Abstract!Init, PhaseOf
<1>2. ASSUME TypeOK, LeaseShape, [MailNext]_mailVars
      PROVE  [Abstract!Next]_(Abstract!vars)
  <2>1. CASE [Next]_vars
    BY <1>2, <2>1, AbstractStep
  <2>2. CASE HandlerFault
    <3>1. UNCHANGED <<status, owner, attempts>>
      BY <1>2, <2>2, FaultLeavesQueue
    <3>2. UNCHANGED Abstract!vars
      BY <3>1 DEF Abstract!vars, PhaseOf
    <3>3. QED
      BY <3>2
  <2>3. QED
    BY <1>2, <2>1, <2>2, MailStepOfQueue
<1>3. QED
  BY <1>1, <1>2, QueueUnderMail, PTL DEF MailSpec, IsWorkQueue, Abstract!Spec

\* Under the e-mail handler, too, a lease in force is nobody else's to change.
THEOREM MailRespectsLease == MailSpec => LeaseRespected
<1>1. ASSUME TypeOK, [MailNext]_mailVars
      PROVE  [\A j \in Job : RespectsLease(j)]_vars
  <2>1. CASE [Next]_vars
    BY <1>1, <2>1, LeaseRespectedStep
  <2>2. CASE HandlerFault
    BY <1>1, <2>2, FaultLeavesQueue DEF RespectsLease, vars, document, runner, budget
  <2>3. QED
    BY <1>1, <2>1, <2>2, MailStepOfQueue
<1>2. QED
  BY <1>1, QueueUnderMail, PTL DEF MailSpec, LeaseRespected

\* No delivery is lost under its handler, either: its job stays in reach of a claim
\* until a thread that holds it records what became of it.
THEOREM NoDeliveryIsLost ==
    MailSpec => /\ []WithinReach
              /\ [][\A j \in Job : StaysInReach(j)]_vars
              /\ [][TimeHelps]_vars
<1>1. MailInit => Delayed
  BY TimeAssumption DEF MailInit, HandlingInit, Init, Delayed
<1>2. ASSUME TypeOK, LeaseShape, Delayed, [MailNext]_mailVars
      PROVE  Delayed'
  <2>1. CASE [Next]_vars
    BY <1>2, <2>1, DelayedStep
  <2>2. CASE HandlerFault
    BY <1>2, <2>2, FaultLeavesQueue DEF Delayed
  <2>3. QED
    BY <1>2, <2>1, <2>2, MailStepOfQueue
<1>3. ASSUME TypeOK, LeaseShape, [MailNext]_mailVars
      PROVE  [\A j \in Job : StaysInReach(j)]_vars /\ [TimeHelps]_vars
  <2>1. CASE [Next]_vars
    BY <1>3, <2>1, StaysStep DEF TimeHelps
  <2>2. CASE HandlerFault
    <3>1. \A j \in Job : StaysInReach(j)
      BY <1>3, <2>2, FaultLeavesQueue, UntouchedStays
    <3>2. Tick => [Next]_vars
      BY DEF Next
    <3>3. QED
      BY <1>3, <3>1, <3>2, StaysStep DEF TimeHelps
  <2>3. QED
    BY <1>3, <2>1, <2>2, MailStepOfQueue
<1>4. TypeOK /\ LeaseShape /\ Delayed => WithinReach
  BY ReachIs
<1>5. QED
  BY <1>1, <1>2, <1>3, <1>4, QueueUnderMail, PTL DEF MailSpec

-------------------------------------------------------------------------------
(* Types.                                                                      *)

Sending == {"sending", "accepted", "refused", "failing"}
Resting == {"none", "start"} \cup Outcome

MailTypeOK ==
    /\ request \in [Job -> {"none", "stored", "published", "lost"}]
    /\ pc \in [Worker -> [Thread -> Sending \cup Resting]]
    /\ delivery \in [Job -> {"absent", "queued", "sending", "sent", "failed"}]
    /\ age \in [Job -> Nat]
    /\ inbox \in [Job -> Nat]

-------------------------------------------------------------------------------
(* What is recorded as sent.                                                   *)

\* A handler that has the provider's answer has had its message accepted.
AnswerMeansAccepted ==
    \A w \in Worker, t \in Thread : At(w, t, "accepted") => inbox[task[w][t].job] > 0

\* A delivery is stored by the request that creates it and by nothing else.
StoredByRequest == \A j \in Job : request[j] = "none" => delivery[j] = "absent"

SentWasAccepted == \A j \in Job : delivery[j] = "sent" => inbox[j] > 0

SentInv == TypeOK /\ MailTypeOK /\ AnswerMeansAccepted /\ StoredByRequest /\ SentWasAccepted

-------------------------------------------------------------------------------
(* Retries.                                                                    *)

\* A job runs on one thread, whose process has the lease, for some time still.
OneHolder ==
    \A w \in Worker, t \in Thread, v \in Worker, s \in Thread :
        task[w][t] # Idle /\ task[v][s] # Idle /\ task[w][t].job = task[v][s].job => w = v /\ t = s
HolderOwns ==
    \A w \in Worker, t \in Thread :
        task[w][t] # Idle => Owned(w, task[w][t].job) /\ lease[task[w][t].job] > 0

\* What the provider has of a delivery, by how far its handler got.
HandlerKnows ==
    \A w \in Worker, t \in Thread : task[w][t] # Idle =>
        LET j == task[w][t].job
        IN  /\ pc[w][t] \in Resting => delivery[j] # "sending"
            /\ pc[w][t] \in Sending =>
                  delivery[j] = "sending" /\ inbox[j] = IF pc[w][t] = "accepted" THEN 1 ELSE 0

\* What it has of one that no handler is sending; and one that is being sent
\* has its handler.
DeliveryKnows ==
    \A j \in Job :
        /\ delivery[j] # "sending" => inbox[j] = IF delivery[j] = "sent" THEN 1 ELSE 0
        /\ delivery[j] = "sending" => \E w \in Worker, t \in Thread : Holds(w, t, j)

CalmInv == OneHolder /\ HolderOwns /\ HandlerKnows /\ DeliveryKnows
MailInv == SentInv /\ (Undisturbed => CalmInv)

-------------------------------------------------------------------------------
(* What a step of the queue does to the handlers.                              *)

\* Nothing but Take gives a thread a job, and it starts at the start.
Started(w, t) == task[w][t] = Idle /\ task'[w][t] \in Task /\ pc'[w][t] = "start"

\* What a handler itself does: its thread keeps the job, and goes from a step to another.
HandlerActs(w, t) ==
    \/ ClaimDelivery(w, t) \/ SendFails(w, t) \/ SendAccepted(w, t) \/ MarkSent(w, t) \/ MarkFailed(w, t)
    \/ SendUnanswered(w, t) \/ StoreFails(w, t)

LEMMA HandlerMoves ==
    ASSUME NEW w \in Worker, NEW t \in Thread, HandlerActs(w, t)
    PROVE  /\ task[w][t] # Idle /\ UNCHANGED <<document, runner, replays, request>>
           /\ \E from \in Sending \cup Resting, to \in Sending \cup Resting :
                 pc[w][t] = from /\ pc' = [pc EXCEPT ![w][t] = to]
<1> USE DEF Sending, Resting, Outcome
<1>1. ASSUME NEW from \in Sending \cup Resting, NEW to \in Sending \cup Resting,
             Within(w, t, from, to) \/ FaultWithin(w, t, from, to)
      PROVE  /\ task[w][t] # Idle /\ UNCHANGED <<document, runner, replays, request>>
             /\ pc[w][t] = from /\ pc' = [pc EXCEPT ![w][t] = to]
  BY <1>1 DEF Within, FaultWithin, At, Goto, vars, budget
<1>2. \E from \in Sending \cup Resting, to \in Sending \cup Resting :
         Within(w, t, from, to) \/ FaultWithin(w, t, from, to)
  <2>1. CASE ClaimDelivery(w, t) \/ SendFails(w, t) \/ SendAccepted(w, t)
    BY <2>1 DEF ClaimDelivery, SendFails, SendAccepted
  <2>2. CASE MarkSent(w, t) \/ MarkFailed(w, t)
    BY <2>2 DEF MarkSent, MarkFailed
  <2>3. CASE SendUnanswered(w, t)
    BY <2>3 DEF SendUnanswered
  <2>4. CASE StoreFails(w, t)
    BY <2>4 DEF StoreFails, CompleteFails
  <2>5. QED
    BY <2>1, <2>2, <2>3, <2>4 DEF HandlerActs
<1>3. QED
  BY <1>1, <1>2

\* A step, for one thread: it goes on with what it has, it is given a job, it is
\* idle afterwards, or it is the thread whose handler acts.
LEMMA ThreadStep ==
    ASSUME TypeOK, MailTypeOK, [MailNext]_mailVars, NEW w \in Worker, NEW t \in Thread
    PROVE  \/ task'[w][t] = task[w][t] /\ (pc'[w][t] = pc[w][t] \/ HandlerActs(w, t))
           \/ task'[w][t] = Idle
           \/ Started(w, t)
<1> USE DEF TypeOK, MailTypeOK
<1>1. ASSUME NEW v \in Worker, NEW s \in Thread, NEW j \in Job,
             Claim(v, s, j), Goto(v, s, "start")
      PROVE  (task'[w][t] = task[w][t] /\ pc'[w][t] = pc[w][t]) \/ Started(w, t)
  <2>1. [job |-> j, attempts |-> attempts[j] + 1] \in Task
    BY DEF Task
  <2>2. QED
    BY <1>1, <2>1 DEF Claim, Goto, Started
<1>2. ASSUME NEW v \in Worker, Die(v)
      PROVE  (task'[w][t] = task[w][t] /\ pc'[w][t] = pc[w][t]) \/ task'[w][t] = Idle
  BY <1>2 DEF Die, Crash
<1>3. ASSUME NEW v \in Worker, NEW s \in Thread, Return(v, s)
      PROVE  (task'[w][t] = task[w][t] /\ pc'[w][t] = pc[w][t]) \/ task'[w][t] = Idle
  <2>1. Release(v, s) /\ Goto(v, s, "none")
    BY <1>3 DEF Return, Settle, SettleFails
  <2>2. QED
    BY <2>1 DEF Release, Goto
<1>4. ASSUME NEW v \in Worker, NEW s \in Thread, HandlerActs(v, s)
      PROVE  task'[w][t] = task[w][t] /\ (pc'[w][t] = pc[w][t] \/ HandlerActs(w, t))
  <2>1. task' = task
    BY <1>4, HandlerMoves DEF runner
  <2>2. PICK to \in Sending \cup Resting : pc' = [pc EXCEPT ![v][s] = to]
    BY <1>4, HandlerMoves
  <2>3. pc'[w][t] = pc[w][t] \/ (v = w /\ s = t)
    BY <2>2
  <2>4. QED
    BY <1>4, <2>1, <2>3
<1>5. CASE UNCHANGED <<task, pc>>
  BY <1>5
<1>6. ASSUME NEW v \in Worker, Begin(v) \/ Take(v)
      PROVE  \/ UNCHANGED <<task, pc>>
             \/ \E s \in Thread, j \in Job : Claim(v, s, j) /\ Goto(v, s, "start")
  BY <1>6 DEF Begin, Start, Take, handling
<1>7. CASE QueueStep \/ TickMail
  <2>1. UNCHANGED <<task, pc>>
    BY <1>7 DEF QueueStep, TickMail, TickHandling, ReplayDead, ClaimFails, Stop, Exit, ClaimOrphans, Tick, runner, handling
  <2>2. QED
    BY <2>1
<1>8. ASSUME NEW j \in Job, CreateDelivery(j) \/ PublishJob(j) \/ RequestDies(j)
      PROVE  UNCHANGED <<task, pc>>
  BY <1>8 DEF CreateDelivery, StoreDocument, PublishJob, RequestDies, Publish, vars, runner
<1>9. CASE UNCHANGED mailVars
  BY <1>9 DEF mailVars, jobVars, vars, runner, handling
<1>10. QED
  BY <1>1, <1>2, <1>3, <1>4, <1>5, <1>6, <1>7, <1>8, <1>9 DEF MailNext, HandlerStep, HandlerActs

\* What a step does to the deliveries: nothing, but for the clock, the request that
\* creates one, and the handlers.
LEMMA MailStep ==
    ASSUME [MailNext]_mailVars
    PROVE  \/ UNCHANGED <<delivery, inbox>>
           \/ \E j \in Job : CreateDelivery(j)
           \/ \E w \in Worker, t \in Thread : HandlerActs(w, t)
  BY DEF MailNext, HandlerStep, HandlerActs, TickMail, mail, mailVars

LEMMA MailTypeStep ==
    ASSUME TypeOK, MailTypeOK, [MailNext]_mailVars
    PROVE  MailTypeOK'
<1> USE DEF MailTypeOK
<1>1. request' \in [Job -> {"none", "stored", "published", "lost"}]
  <2>1. \/ UNCHANGED request
        \/ \E j \in Job : CreateDelivery(j) \/ PublishJob(j) \/ RequestDies(j)
    <3>1. ASSUME NEW w \in Worker, NEW t \in Thread, HandlerActs(w, t)
          PROVE  UNCHANGED request
      BY <3>1, HandlerMoves
    <3>2. QED
      BY <3>1 DEF MailNext, HandlerStep, HandlerActs, Begin, Take, Die, Return, QueueStep, TickMail, TickHandling,
                  handling, mailVars, jobVars
  <2>2. QED
    BY <2>1 DEF CreateDelivery, StoreDocument, PublishJob, RequestDies, RequestTo
<1>2. pc' \in [Worker -> [Thread -> Sending \cup Resting]]
  <2>1. ASSUME NEW v \in Worker, NEW s \in Thread, NEW to \in Sending \cup Resting,
               pc' = [pc EXCEPT ![v][s] = to]
        PROVE  pc' \in [Worker -> [Thread -> Sending \cup Resting]]
    BY <2>1
  <2>2. ASSUME NEW v \in Worker, Die(v)
        PROVE  pc' \in [Worker -> [Thread -> Sending \cup Resting]]
    BY <2>2 DEF Die, Resting
  <2>3. ASSUME NEW v \in Worker, NEW s \in Thread, Goto(v, s, "start") \/ Goto(v, s, "none")
        PROVE  pc' \in [Worker -> [Thread -> Sending \cup Resting]]
    BY <2>1, <2>3 DEF Goto, Resting
  <2>4. ASSUME NEW v \in Worker, NEW s \in Thread, HandlerActs(v, s)
        PROVE  pc' \in [Worker -> [Thread -> Sending \cup Resting]]
    <3>1. PICK to \in Sending \cup Resting : pc' = [pc EXCEPT ![v][s] = to]
      BY <2>4, HandlerMoves
    <3>2. QED
      BY <2>1, <3>1
  <2>5. \/ UNCHANGED pc \/ \E v \in Worker : Die(v)
        \/ \E v \in Worker, s \in Thread : HandlerActs(v, s) \/ Goto(v, s, "start") \/ Goto(v, s, "none")
    BY DEF MailNext, HandlerStep, HandlerActs, Begin, Take, Return, QueueStep, TickMail, TickHandling, handling,
           mailVars, jobVars, CreateDelivery, StoreDocument, PublishJob, RequestDies
  <2>6. QED
    BY <2>2, <2>3, <2>4, <2>5
<1>3. /\ delivery' \in [Job -> {"absent", "queued", "sending", "sent", "failed"}]
      /\ inbox' \in [Job -> Nat]
  <2>1. ASSUME NEW w \in Worker, NEW t \in Thread, HandlerActs(w, t)
        PROVE  /\ delivery' \in [Job -> {"absent", "queued", "sending", "sent", "failed"}]
               /\ inbox' \in [Job -> Nat]
    BY <2>1 DEF HandlerActs, ClaimDelivery, SendFails, SendAccepted, MarkSent, MarkFailed, SendUnanswered, StoreFails,
                Accept, MarkFrom, SetDelivery, mail
  <2>2. QED
    BY <2>1, MailStep DEF CreateDelivery, SetDelivery
<1>4. age' \in [Job -> Nat]
  <2>1. \/ UNCHANGED age \/ TickMail
        \/ \E j \in Job, d \in {"queued", "sending", "sent", "failed"} : SetDelivery(j, d)
        \/ \E w \in Worker, t \in Thread, d \in {"sending", "sent", "failed"} : SetDelivery(task[w][t].job, d)
    BY DEF MailNext, HandlerStep, CreateDelivery, ClaimDelivery, SendFails, SendAccepted, MarkSent, MarkFailed,
           SendUnanswered, StoreFails, Accept, MarkFrom, mail, mailVars
  <2>2. QED
    BY <2>1 DEF SetDelivery, TickMail
<1>5. QED
  BY <1>1, <1>2, <1>3, <1>4

-------------------------------------------------------------------------------
(* What is recorded as sent.                                                   *)

\* A handler's effect on its own delivery and on no other: what is sent stays sent,
\* only one that is being sent, by an accepted message, becomes sent, and the
\* messages accepted are never fewer.
LEMMA HandlerMails ==
    ASSUME TypeOK, MailTypeOK, NEW w \in Worker, NEW t \in Thread, HandlerActs(w, t)
    PROVE  /\ task[w][t].job \in Job
           /\ \A j \in Job : j # task[w][t].job => delivery'[j] = delivery[j] /\ inbox'[j] = inbox[j]
           /\ \A j \in Job : inbox'[j] >= inbox[j]
           /\ \A j \in Job : delivery[j] = "sent" => delivery'[j] = "sent"
           /\ \A j \in Job : delivery'[j] = "sent" => delivery[j] = "sent" \/ At(w, t, "accepted")
           /\ \A j \in Job : delivery[j] # "absent" => delivery'[j] # "absent"
           /\ \A j \in Job : delivery[j] = "absent" => delivery'[j] = "absent"
           /\ pc'[w][t] = "accepted" => inbox'[task[w][t].job] > 0
<1> USE DEF MailTypeOK
<1>1. task[w][t].job \in Job
  BY HandlerMoves DEF TypeOK, Task
<1>2. CASE ClaimDelivery(w, t)
  BY <1>1, <1>2 DEF ClaimDelivery, DeliveryClaimable, SetDelivery, Within, Goto, mail
<1>3. CASE SendFails(w, t)
  BY <1>1, <1>3 DEF SendFails, Within, Goto, mail
<1>4. CASE SendAccepted(w, t) \/ SendUnanswered(w, t)
  BY <1>1, <1>4 DEF SendAccepted, SendUnanswered, Accept
<1>5. CASE MarkSent(w, t)
  BY <1>1, <1>5 DEF MarkSent, MarkFrom, SetDelivery, Within, Goto
<1>6. CASE MarkFailed(w, t)
  BY <1>1, <1>6 DEF MarkFailed, MarkFrom, SetDelivery, Within, Goto
<1>7. CASE StoreFails(w, t)
  BY <1>1, <1>7 DEF StoreFails, CompleteFails, FaultWithin, Goto, mail
<1>8. QED
  BY <1>2, <1>3, <1>4, <1>5, <1>6, <1>7 DEF HandlerActs

LEMMA SentInitially == MailInit => SentInv
<1> SUFFICES ASSUME MailInit PROVE SentInv
  OBVIOUS
<1>1. TypeOK
  BY TypeInitially DEF MailInit, HandlingInit
<1>2. MailTypeOK /\ StoredByRequest /\ SentWasAccepted
  BY DEF MailInit, HandlingInit, MailTypeOK, Resting, StoredByRequest, SentWasAccepted
<1>3. AnswerMeansAccepted
  BY DEF MailInit, HandlingInit, Init, AnswerMeansAccepted, At
<1>4. QED
  BY <1>1, <1>2, <1>3 DEF SentInv

LEMMA SentStep ==
    ASSUME SentInv, [MailNext]_mailVars
    PROVE  SentInv' /\ \A j \in Job : delivery[j] = "sent" => delivery'[j] = "sent"
<1> USE DEF SentInv
<1>1. TypeOK'
  BY MailStepOfQueue, TypeStep, FaultLeavesQueue
<1>2. MailTypeOK'
  BY MailTypeStep
<1>3. StoredByRequest'
  <2>1. ASSUME NEW w \in Worker, NEW t \in Thread, HandlerActs(w, t)
        PROVE  StoredByRequest'
    BY <2>1, HandlerMoves, HandlerMails DEF StoredByRequest
  <2>2. ASSUME NEW j \in Job, CreateDelivery(j)
        PROVE  StoredByRequest'
    BY <2>2 DEF CreateDelivery, StoreDocument, RequestTo, SetDelivery, StoredByRequest, MailTypeOK
  <2>3. ASSUME UNCHANGED delivery, NEW j \in Job, PublishJob(j) \/ RequestDies(j)
        PROVE  StoredByRequest'
    BY <2>3 DEF PublishJob, RequestDies, RequestTo, StoredByRequest, MailTypeOK
  <2>4. CASE UNCHANGED <<delivery, request>>
    BY <2>4 DEF StoredByRequest
  <2>5. \/ UNCHANGED <<delivery, request>>
        \/ \E j \in Job : CreateDelivery(j) \/ (UNCHANGED delivery /\ (PublishJob(j) \/ RequestDies(j)))
        \/ \E w \in Worker, t \in Thread : HandlerActs(w, t)
    BY DEF MailNext, HandlerStep, HandlerActs, Begin, Take, Die, Return, QueueStep, TickMail, TickHandling,
           handling, mail, mailVars, jobVars
  <2>6. QED
    BY <2>1, <2>2, <2>3, <2>4, <2>5
<1>4. /\ \A j \in Job : inbox'[j] >= inbox[j]
      /\ \A j \in Job : delivery[j] = "sent" => delivery'[j] = "sent"
      /\ \A j \in Job : delivery'[j] = "sent" =>
            delivery[j] = "sent" \/ \E w \in Worker, t \in Thread : HandlerActs(w, t) /\ At(w, t, "accepted") /\ task[w][t].job = j
  <2>1. ASSUME NEW j \in Job, CreateDelivery(j)
        PROVE  UNCHANGED inbox /\ delivery' = [delivery EXCEPT ![j] = "queued"] /\ delivery[j] = "absent"
    BY <2>1 DEF CreateDelivery, StoreDocument, RequestTo, SetDelivery, StoredByRequest
  <2>2. CASE UNCHANGED <<delivery, inbox>>
    BY <2>2 DEF MailTypeOK
  <2>3. ASSUME NEW w \in Worker, NEW t \in Thread, HandlerActs(w, t)
        PROVE  /\ \A j \in Job : inbox'[j] >= inbox[j]
               /\ \A j \in Job : delivery[j] = "sent" => delivery'[j] = "sent"
               /\ \A j \in Job : delivery'[j] = "sent" =>
                     delivery[j] = "sent" \/ (At(w, t, "accepted") /\ task[w][t].job = j)
    BY <2>3, HandlerMails
  <2>4. CASE \E j \in Job : CreateDelivery(j)
    BY <2>1, <2>4 DEF MailTypeOK
  <2>5. QED
    BY <2>2, <2>3, <2>4, MailStep
<1>5. AnswerMeansAccepted'
  <2> SUFFICES ASSUME NEW w \in Worker, NEW t \in Thread, At(w, t, "accepted")'
               PROVE  inbox'[task'[w][t].job] > 0
    BY DEF AnswerMeansAccepted
  <2>1. task'[w][t] # Idle /\ pc'[w][t] = "accepted"
    BY DEF At
  <2>2. task'[w][t] = task[w][t] /\ (pc'[w][t] = pc[w][t] \/ HandlerActs(w, t))
    BY <2>1, ThreadStep DEF Started
  <2>3. CASE HandlerActs(w, t)
    BY <2>1, <2>2, <2>3, HandlerMails
  <2>4. CASE pc'[w][t] = pc[w][t]
    <3>1. At(w, t, "accepted") /\ task[w][t].job \in Job
      BY <2>1, <2>2, <2>4 DEF At, TypeOK, Task
    <3>2. inbox[task[w][t].job] > 0 /\ inbox'[task[w][t].job] \in Nat /\ inbox[task[w][t].job] \in Nat
      BY <1>2, <3>1 DEF AnswerMeansAccepted, MailTypeOK
    <3>3. QED
      BY <1>4, <2>2, <3>1, <3>2
  <2>5. QED
    BY <2>2, <2>3, <2>4
<1>6. SentWasAccepted'
  <2> SUFFICES ASSUME NEW j \in Job, delivery'[j] = "sent"
               PROVE  inbox'[j] > 0
    BY DEF SentWasAccepted
  <2>1. inbox[j] > 0
    BY <1>4 DEF SentWasAccepted, AnswerMeansAccepted
  <2>2. QED
    BY <1>2, <1>4, <2>1 DEF MailTypeOK
<1>7. QED
  BY <1>1, <1>2, <1>3, <1>4, <1>5, <1>6

\* What is recorded as sent was accepted by the provider, and stays recorded: no
\* late failure of an overlapping run undoes it (EmailDeliveryService.send).
THEOREM SentIsTrueHolds == MailSpec => SentIsTrue
<1>1. SentInv => \A j \in Job : delivery[j] = "sent" => inbox[j] > 0
  BY DEF SentInv, SentWasAccepted
<1>2. SentInv /\ [MailNext]_mailVars => SentInv'
  BY SentStep
<1>3. SentInv /\ [MailNext]_mailVars => [\A j \in Job : delivery[j] = "sent" => delivery'[j] = "sent"]_mailVars
  BY SentStep
<1>4. QED
  BY <1>1, <1>2, <1>3, SentInitially, PTL DEF MailSpec, SentIsTrue

-------------------------------------------------------------------------------
(* Retries.                                                                    *)

\* What has been disturbed stays so.
LEMMA CalmBefore ==
    ASSUME TypeOK, [MailNext]_mailVars, Undisturbed'
    PROVE  Undisturbed
<1>1. CASE HandlerFault
  BY <1>1 DEF HandlerFault, Fault, runner, Undisturbed, TypeOK
<1>2. CASE [Next]_vars
  <2>1. faults' \in {faults, faults + 1}
    BY <1>2 DEF Next, Publish, ReplayDead, Start, ClaimSome, Claim, ClaimFails, ClaimOrphans, SettleSome, Settle,
                SettleFails, Crash, Stop, Exit, Tick, Fault, budget, vars
  <2>2. \A w \in Worker : mode[w] = "gone" => mode'[w] = "gone"
    BY <1>2 DEF Next, Publish, ReplayDead, Start, ClaimSome, Claim, ClaimFails, ClaimOrphans, SettleSome, Settle,
                SettleFails, Crash, Stop, Exit, Tick, Release, runner, vars, TypeOK
  <2>3. QED
    BY <2>1, <2>2 DEF Undisturbed, TypeOK
<1>3. QED
  BY <1>1, <1>2, MailStepOfQueue

\* The handler's steps without a fault.
CalmAct(w, t) ==
    ClaimDelivery(w, t) \/ SendFails(w, t) \/ SendAccepted(w, t) \/ MarkSent(w, t) \/ MarkFailed(w, t)

CalmReturn(w, t) ==
    pc[w][t] \in Outcome /\ Settle(w, t, pc[w][t]) /\ Goto(w, t, "none") /\ UNCHANGED <<delivery, inbox>>

\* The steps that disturb nothing.
LEMMA CalmSteps ==
    ASSUME TypeOK, [MailNext]_mailVars, Undisturbed, Undisturbed'
    PROVE  \/ UNCHANGED <<document, task, pc, delivery, inbox>>
           \/ \E j \in Job : CreateDelivery(j)
           \/ \E j \in Job : (Publish(j) \/ ReplayDead(j)) /\ UNCHANGED <<pc, delivery, inbox>>
           \/ \E w \in Worker : Take(w) /\ UNCHANGED <<delivery, inbox>>
           \/ \E w \in Worker, t \in Thread : CalmAct(w, t) \/ CalmReturn(w, t)
           \/ Tick /\ ~LeaseAtRisk /\ UNCHANGED <<pc, delivery, inbox>>
<1> USE DEF Undisturbed
<1>1. ~Fault
  BY DEF Fault, TypeOK
<1>2. ASSUME NEW j \in Job, (PublishJob(j) \/ RequestDies(j)) /\ UNCHANGED mail
      PROVE  \/ Publish(j) /\ UNCHANGED <<pc, delivery, inbox>>
             \/ UNCHANGED <<document, task, pc, delivery, inbox>>
  BY <1>2 DEF PublishJob, RequestDies, mail, vars, runner
<1>3. ASSUME NEW w \in Worker, (Begin(w) \/ Take(w) \/ Die(w)) /\ UNCHANGED mail
      PROVE  \/ Take(w) /\ UNCHANGED <<delivery, inbox>>
             \/ UNCHANGED <<document, task, pc, delivery, inbox>>
  <2>1. ~Die(w)
    BY DEF Die, Crash, TypeOK
  <2>2. QED
    BY <1>3, <2>1 DEF Begin, Start, mail, handling
<1>4. ASSUME NEW w \in Worker, NEW t \in Thread, HandlerStep(w, t) \/ SendUnanswered(w, t) \/ StoreFails(w, t)
      PROVE  CalmAct(w, t) \/ CalmReturn(w, t)
  <2>1. ~SendUnanswered(w, t) /\ ~StoreFails(w, t) /\ ~SettleFails(w, t)
    BY <1>1 DEF SendUnanswered, StoreFails, CompleteFails, FaultWithin, SettleFails
  <2>2. QED
    BY <1>4, <2>1 DEF HandlerStep, CalmAct, CalmReturn, Return, mail
<1>5. ASSUME QueueStep, UNCHANGED mail
      PROVE  \/ \E j \in Job : ReplayDead(j) /\ UNCHANGED <<pc, delivery, inbox>>
             \/ UNCHANGED <<document, task, pc, delivery, inbox>>
  <2>1. \A w \in Worker : ~ClaimFails(w) /\ ~Exit(w) /\ \A j \in Job : ~ClaimOrphans(w, j)
    BY <1>1 DEF ClaimFails, ClaimOrphans, Exit, TypeOK
  <2>2. QED
    BY <1>5, <2>1 DEF QueueStep, Stop, mail, handling
<1>6. ASSUME TickMail
      PROVE  Tick /\ ~LeaseAtRisk /\ UNCHANGED <<pc, delivery, inbox>>
  BY <1>1, <1>6 DEF TickMail, TickHandling, Tick, handling
<1>7. CASE UNCHANGED mailVars
  BY <1>7 DEF mailVars, jobVars, vars, runner, handling, mail
<1>8. QED
  BY <1>2, <1>3, <1>4, <1>5, <1>6, <1>7 DEF MailNext

\* A job that can be leased, published or replayed runs on no thread.
LEMMA HeldIsTaken ==
    ASSUME HolderOwns, NEW w \in Worker, NEW t \in Thread, NEW j \in Job, Holds(w, t, j)
    PROVE  ~Claimable(j) /\ status[j] = "running" /\ owner[j] = w /\ lease[j] > 0
<1>1. Owned(w, j) /\ lease[j] > 0
  BY DEF Holds, HolderOwns
<1>2. QED
  BY <1>1 DEF Owned, Claimable

LEMMA CalmQueue ==
    ASSUME SentInv, CalmInv, Undisturbed, Undisturbed', [MailNext]_mailVars
    PROVE  OneHolder' /\ HolderOwns'
<1> USE DEF SentInv, CalmInv
<1>t. \A w \in Worker, t \in Thread : task[w][t] # Idle => task[w][t].job \in Job
  BY DEF TypeOK, Task
<1>k. /\ status \in [Job -> Status] /\ owner \in [Job -> Worker \cup {NoWorker}] /\ lease \in [Job -> NoLease .. LeaseTime]
      /\ task \in [Worker -> [Thread -> Task \cup {Idle}]]
  BY DEF TypeOK
<1>1. ASSUME UNCHANGED <<status, owner, lease, task>>
      PROVE  OneHolder' /\ HolderOwns'
  BY <1>1 DEF OneHolder, HolderOwns, Owned
<1>2. ASSUME NEW j \in Job, Publish(j) \/ ReplayDead(j)
      PROVE  OneHolder' /\ HolderOwns'
  <2>1. /\ UNCHANGED task
        /\ \A i \in Job \ {j} : status'[i] = status[i] /\ owner'[i] = owner[i] /\ lease'[i] = lease[i]
        /\ status[j] # "running"
    BY <1>2, <1>k DEF Publish, ReplayDead, runner
  <2>2. \A w \in Worker, t \in Thread : task[w][t] # Idle => task[w][t].job # j
    BY <2>1 DEF HolderOwns, Owned
  <2>3. QED
    BY <1>t, <2>1, <2>2 DEF OneHolder, HolderOwns, Owned
<1>3. ASSUME NEW w \in Worker, Take(w)
      PROVE  OneHolder' /\ HolderOwns'
  <2>1. PICK t \in Thread, j \in Job : Claim(w, t, j)
    BY <1>3 DEF Take
  <2>2. \A v \in Worker, s \in Thread : task[v][s] # Idle => task[v][s].job # j
    BY <1>t, <2>1, HeldIsTaken DEF Claim, LeaseTo, FirstInLine, Holds
  <2>3. /\ \A i \in Job \ {j} : status'[i] = status[i] /\ owner'[i] = owner[i] /\ lease'[i] = lease[i]
        /\ status'[j] = "running" /\ owner'[j] = w /\ lease'[j] > 0
    BY <1>k, <2>1, TimeAssumption DEF Claim, LeaseTo
  <2>4. /\ \A v \in Worker, s \in Thread : ~(v = w /\ s = t) => task'[v][s] = task[v][s]
        /\ task'[w][t].job = j
    BY <1>k, <2>1 DEF Claim
  <2>5. OneHolder'
    BY <2>2, <2>4 DEF OneHolder
  <2>6. HolderOwns'
    <3> SUFFICES ASSUME NEW v \in Worker, NEW s \in Thread, task'[v][s] # Idle
                 PROVE  LET i == task'[v][s].job
                        IN  status'[i] = "running" /\ owner'[i] = v /\ lease'[i] > 0
      BY DEF HolderOwns, Owned
    <3>1. CASE v = w /\ s = t
      BY <2>3, <2>4, <3>1 DEF Owned
    <3>2. CASE ~(v = w /\ s = t)
      BY <1>t, <2>2, <2>3, <2>4, <3>2 DEF HolderOwns, Owned
    <3>3. QED
      BY <3>1, <3>2
  <2>7. QED
    BY <2>5, <2>6
<1>4. ASSUME NEW w \in Worker, NEW t \in Thread, CalmReturn(w, t)
      PROVE  OneHolder' /\ HolderOwns'
  <2>1. task[w][t] # Idle /\ Record(w, task[w][t], pc[w][t]) /\ Release(w, t)
    BY <1>4 DEF CalmReturn, Settle
  <2>2. /\ task'[w][t] = Idle
        /\ \A v \in Worker, s \in Thread : ~(v = w /\ s = t) => task'[v][s] = task[v][s]
    BY <1>k, <2>1 DEF Release
  <2>3. \A i \in Job : i # task[w][t].job => status'[i] = status[i] /\ owner'[i] = owner[i] /\ lease'[i] = lease[i]
    BY <1>k, <2>1 DEF Record, document
  <2>4. \A v \in Worker, s \in Thread :
            task'[v][s] # Idle => task'[v][s] = task[v][s] /\ task[v][s].job # task[w][t].job
    BY <2>1, <2>2 DEF OneHolder
  <2>5. OneHolder'
    BY <2>4 DEF OneHolder
  <2>6. HolderOwns'
    BY <1>t, <2>3, <2>4 DEF HolderOwns, Owned
  <2>7. QED
    BY <2>5, <2>6
<1>5. ASSUME Tick, ~LeaseAtRisk
      PROVE  OneHolder' /\ HolderOwns'
  <2>1. UNCHANGED <<status, owner, task>>
    BY <1>5 DEF Tick, runner
  <2>2. \A w \in Worker, t \in Thread : task[w][t] # Idle => lease'[task[w][t].job] > 0
    BY <1>5, <1>t, <1>k DEF Tick, Closer, LeaseAtRisk, HolderOwns
  <2>3. QED
    BY <2>1, <2>2 DEF OneHolder, HolderOwns, Owned
<1>6. ASSUME NEW w \in Worker, NEW t \in Thread, CalmAct(w, t)
      PROVE  UNCHANGED <<status, owner, lease, task>>
  BY <1>6, HandlerMoves DEF CalmAct, HandlerActs, document, runner
<1>7. ASSUME NEW j \in Job, CreateDelivery(j)
      PROVE  UNCHANGED <<status, owner, lease, task>>
  BY <1>7 DEF CreateDelivery, StoreDocument, vars, document, runner
<1>8. QED
  BY <1>1, <1>2, <1>3, <1>4, <1>5, <1>6, <1>7, CalmSteps DEF document

\* A handler that acts: what it leaves of its delivery, by how far it got.
LEMMA CalmMail ==
    ASSUME SentInv, CalmInv, NEW w \in Worker, NEW t \in Thread, CalmAct(w, t)
    PROVE  LET j == task[w][t].job
           IN  /\ pc'[w][t] \in Resting => delivery'[j] # "sending"
               /\ pc'[w][t] \in Sending =>
                     delivery'[j] = "sending" /\ inbox'[j] = IF pc'[w][t] = "accepted" THEN 1 ELSE 0
               /\ delivery'[j] # "sending" => inbox'[j] = IF delivery'[j] = "sent" THEN 1 ELSE 0
<1> DEFINE j == task[w][t].job
<1> USE DEF Sending, Resting, Outcome
<1>1. /\ task[w][t] # Idle /\ j \in Job
      /\ pc \in [Worker -> [Thread -> Sending \cup Resting]]
      /\ delivery \in [Job -> {"absent", "queued", "sending", "sent", "failed"}] /\ inbox \in [Job -> Nat]
  BY HandlerMoves, HandlerMails DEF CalmAct, HandlerActs, SentInv, MailTypeOK
<1>2. /\ pc[w][t] \in Resting => delivery[j] # "sending"
      /\ pc[w][t] \in Sending =>
            delivery[j] = "sending" /\ inbox[j] = IF pc[w][t] = "accepted" THEN 1 ELSE 0
      /\ delivery[j] # "sending" => inbox[j] = IF delivery[j] = "sent" THEN 1 ELSE 0
  BY <1>1 DEF CalmInv, HandlerKnows, DeliveryKnows
<1>3. CASE ClaimDelivery(w, t)
  BY <1>1, <1>2, <1>3 DEF ClaimDelivery, DeliveryClaimable, SetDelivery, Within, At, Goto, mail
<1>4. CASE SendFails(w, t)
  BY <1>1, <1>2, <1>4 DEF SendFails, Within, At, Goto, mail
<1>5. CASE SendAccepted(w, t)
  BY <1>1, <1>2, <1>5 DEF SendAccepted, Accept, Within, At, Goto
<1>6. CASE MarkSent(w, t)
  BY <1>1, <1>2, <1>6 DEF MarkSent, MarkFrom, SetDelivery, Within, At, Goto
<1>7. CASE MarkFailed(w, t)
  BY <1>1, <1>2, <1>7 DEF MarkFailed, MarkFrom, SetDelivery, Within, At, Goto
<1>8. QED
  BY <1>3, <1>4, <1>5, <1>6, <1>7 DEF CalmAct

LEMMA CalmDeliveries ==
    ASSUME SentInv, CalmInv, Undisturbed, Undisturbed', [MailNext]_mailVars
    PROVE  HandlerKnows' /\ DeliveryKnows'
<1> USE DEF SentInv, CalmInv
<1>t. \A w \in Worker, t \in Thread : task[w][t] # Idle => task[w][t].job \in Job
  BY DEF TypeOK, Task
<1>k. task \in [Worker -> [Thread -> Task \cup {Idle}]] /\ pc \in [Worker -> [Thread -> Sending \cup Resting]]
  BY DEF TypeOK, MailTypeOK
<1>1. ASSUME UNCHANGED <<task, pc, delivery, inbox>>
      PROVE  HandlerKnows' /\ DeliveryKnows'
  BY <1>1 DEF HandlerKnows, DeliveryKnows, Holds
<1>2. ASSUME NEW j \in Job, CreateDelivery(j)
      PROVE  HandlerKnows' /\ DeliveryKnows'
  <2>1. /\ delivery[j] = "absent" /\ delivery' = [delivery EXCEPT ![j] = "queued"]
        /\ UNCHANGED <<task, pc, inbox>>
    BY <1>2 DEF CreateDelivery, StoreDocument, RequestTo, SetDelivery, StoredByRequest, vars, runner
  <2>2. \A i \in Job : delivery'[i] = "sending" <=> delivery[i] = "sending"
    BY <2>1 DEF MailTypeOK
  <2>3. HandlerKnows'
    BY <1>t, <2>1, <2>2 DEF HandlerKnows
  <2>4. DeliveryKnows'
    BY <2>1, <2>2 DEF DeliveryKnows, Holds, MailTypeOK
  <2>5. QED
    BY <2>3, <2>4
<1>3. ASSUME NEW w \in Worker, Take(w), UNCHANGED <<delivery, inbox>>
      PROVE  HandlerKnows' /\ DeliveryKnows'
  <2>1. PICK t \in Thread, j \in Job : Claim(w, t, j) /\ Goto(w, t, "start")
    BY <1>3 DEF Take
  <2>2. \A v \in Worker, s \in Thread : ~Holds(v, s, j)
    BY <2>1, HeldIsTaken DEF Claim, LeaseTo, FirstInLine
  <2>3. delivery[j] # "sending"
    BY <2>2 DEF DeliveryKnows
  <2>4. /\ \A v \in Worker, s \in Thread : ~(v = w /\ s = t) => task'[v][s] = task[v][s] /\ pc'[v][s] = pc[v][s]
        /\ task'[w][t].job = j /\ pc'[w][t] = "start" /\ task[w][t] = Idle
    BY <1>k, <2>1 DEF Claim, Goto
  <2>5. HandlerKnows'
    <3> SUFFICES ASSUME NEW v \in Worker, NEW s \in Thread, task'[v][s] # Idle
                 PROVE  LET i == task'[v][s].job
                        IN  /\ pc'[v][s] \in Resting => delivery[i] # "sending"
                            /\ pc'[v][s] \in Sending =>
                                  delivery[i] = "sending" /\ inbox[i] = IF pc'[v][s] = "accepted" THEN 1 ELSE 0
      BY <1>3 DEF HandlerKnows
    <3>1. CASE v = w /\ s = t
      BY <2>3, <2>4, <3>1 DEF Sending
    <3>2. CASE ~(v = w /\ s = t)
      BY <2>4, <3>2 DEF HandlerKnows
    <3>3. QED
      BY <3>1, <3>2
  <2>6. \A v \in Worker, s \in Thread, i \in Job : Holds(v, s, i) => Holds(v, s, i)'
    BY <2>4 DEF Holds
  <2>7. DeliveryKnows'
    BY <1>3, <2>6 DEF DeliveryKnows
  <2>8. QED
    BY <2>5, <2>7
<1>4. ASSUME NEW w \in Worker, NEW t \in Thread, CalmReturn(w, t)
      PROVE  HandlerKnows' /\ DeliveryKnows'
  <2>1. task[w][t] # Idle /\ Release(w, t) /\ Goto(w, t, "none") /\ pc[w][t] \in Outcome /\ UNCHANGED <<delivery, inbox>>
    BY <1>4 DEF CalmReturn, Settle
  <2>2. /\ task'[w][t] = Idle
        /\ \A v \in Worker, s \in Thread : ~(v = w /\ s = t) => task'[v][s] = task[v][s] /\ pc'[v][s] = pc[v][s]
    BY <1>k, <2>1 DEF Release, Goto
  <2>3. HandlerKnows'
    BY <2>1, <2>2 DEF HandlerKnows
  <2>4. delivery[task[w][t].job] # "sending"
    BY <2>1 DEF HandlerKnows, Resting
  <2>5. ASSUME NEW j \in Job, delivery[j] = "sending"
        PROVE  \E v \in Worker, s \in Thread : Holds(v, s, j)'
    <3>1. PICK v \in Worker, s \in Thread : Holds(v, s, j)
      BY <2>5 DEF DeliveryKnows
    <3>2. ~(v = w /\ s = t)
      BY <2>4, <2>5, <3>1 DEF Holds
    <3>3. QED
      BY <2>2, <3>1, <3>2 DEF Holds
  <2>6. DeliveryKnows'
    BY <2>1, <2>5 DEF DeliveryKnows
  <2>7. QED
    BY <2>3, <2>6
<1>5. ASSUME NEW w \in Worker, NEW t \in Thread, CalmAct(w, t)
      PROVE  HandlerKnows' /\ DeliveryKnows'
  <2> DEFINE j == task[w][t].job
  <2>1. task[w][t] # Idle /\ UNCHANGED task /\ j \in Job
    BY <1>5, <1>t, HandlerMoves DEF CalmAct, HandlerActs, runner
  <2>2. \A v \in Worker, s \in Thread : ~(v = w /\ s = t) => pc'[v][s] = pc[v][s]
    BY <1>5, <1>k, HandlerMoves DEF CalmAct, HandlerActs
  <2>3. \A i \in Job : i # j => delivery'[i] = delivery[i] /\ inbox'[i] = inbox[i]
    BY <1>5, HandlerMails DEF CalmAct, HandlerActs
  <2>4. HandlerKnows'
    <3> SUFFICES ASSUME NEW v \in Worker, NEW s \in Thread, task[v][s] # Idle
                 PROVE  LET i == task[v][s].job
                        IN  /\ pc'[v][s] \in Resting => delivery'[i] # "sending"
                            /\ pc'[v][s] \in Sending =>
                                  delivery'[i] = "sending" /\ inbox'[i] = IF pc'[v][s] = "accepted" THEN 1 ELSE 0
      BY <2>1 DEF HandlerKnows
    <3>1. CASE v = w /\ s = t
      BY <1>5, <3>1, CalmMail
    <3>2. CASE ~(v = w /\ s = t)
      <4>1. task[v][s].job # j /\ task[v][s].job \in Job
        BY <1>t, <2>1, <3>2 DEF OneHolder
      <4>2. QED
        BY <2>2, <2>3, <3>2, <4>1 DEF HandlerKnows
    <3>3. QED
      BY <3>1, <3>2
  <2>5. Holds(w, t, j)
    BY <2>1 DEF Holds
  <2>6. ASSUME NEW i \in Job
        PROVE  /\ delivery'[i] # "sending" => inbox'[i] = IF delivery'[i] = "sent" THEN 1 ELSE 0
               /\ delivery'[i] = "sending" => \E v \in Worker, s \in Thread : Holds(v, s, i)
    <3>1. CASE i = j
      BY <1>5, <2>5, <3>1, CalmMail
    <3>2. CASE i # j
      BY <2>3, <3>2 DEF DeliveryKnows
    <3>3. QED
      BY <3>1, <3>2
  <2>7. DeliveryKnows'
    BY <2>1, <2>6 DEF DeliveryKnows, Holds
  <2>8. QED
    BY <2>4, <2>7
<1>6. QED
  BY <1>1, <1>2, <1>3, <1>4, <1>5, CalmSteps DEF Publish, ReplayDead, Tick, runner

\* Retries alone do not duplicate mail: as long as no process is lost, no handler
\* outlives its lease and no answer or database call is lost, a delivery is mailed
\* at most once, however often it fails, is retried and is replayed
\* (EmailDeliveryService.send).
THEOREM RetriesDoNotDuplicateHolds == MailSpec => []RetriesDoNotDuplicate
<1>1. MailInit => MailInv
  <2>1. MailInit => CalmInv
    BY DEF MailInit, HandlingInit, Init, CalmInv, OneHolder, HolderOwns, HandlerKnows, DeliveryKnows
  <2>2. QED
    BY <2>1, SentInitially DEF MailInv
<1>2. MailInv /\ [MailNext]_mailVars => MailInv'
  <2> SUFFICES ASSUME MailInv, [MailNext]_mailVars PROVE MailInv'
    OBVIOUS
  <2>1. SentInv /\ SentInv' /\ (Undisturbed' => Undisturbed)
    BY SentStep, CalmBefore DEF MailInv, SentInv
  <2>2. QED
    BY <2>1, CalmQueue, CalmDeliveries DEF MailInv, CalmInv
<1>3. MailInv => RetriesDoNotDuplicate
  <2> SUFFICES ASSUME MailInv, Undisturbed, NEW j \in Job PROVE inbox[j] <= 1
    BY DEF RetriesDoNotDuplicate
  <2>1. HandlerKnows /\ DeliveryKnows /\ pc \in [Worker -> [Thread -> Sending \cup Resting]]
    BY DEF MailInv, CalmInv, SentInv, MailTypeOK
  <2>2. CASE delivery[j] # "sending"
    BY <2>1, <2>2 DEF DeliveryKnows
  <2>3. CASE delivery[j] = "sending"
    <3>1. PICK w \in Worker, t \in Thread : Holds(w, t, j)
      BY <2>1, <2>3 DEF DeliveryKnows
    <3>2. pc[w][t] \in Sending
      BY <2>1, <2>3, <3>1 DEF Holds, HandlerKnows
    <3>3. QED
      BY <2>1, <3>1, <3>2 DEF Holds, HandlerKnows
  <2>4. QED
    BY <2>2, <2>3
<1>4. QED
  BY <1>1, <1>2, <1>3, PTL DEF MailSpec
===============================================================================
