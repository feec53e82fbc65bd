---------------------------- MODULE WebDataProofs ----------------------------
(* What holds of the data of the TypeScript application for any number of      *)
(* callers, mails, copies, meals, rows, indexes and requests: the answers      *)
(* of the MongoDB gateway are true and it gives back what it counts; mail      *)
(* repeats only after a failure; one recipe comes of an ingestion; the meals   *)
(* of a week are kept and its list is refreshed; what is behind the checkpoint *)
(* of an import is stored; a sync of indexes ends with those of the schema and *)
(* takes no good one away; a shopping list adds up what the meals ask for and  *)
(* keeps to the marks it had.  And of the client of the port: a page shows     *)
(* what its own user changed.                                                  *)
EXTENDS MongoGateway, WebEmail, WebIngestion, WebPlanner, WebShopping, WebImport, PortClient,
        IndexSync, FiniteSetTheorems, WellFoundedInduction, TLAPS

-------------------------------------------------------------------------------
(* The gateway.                                                                *)

Before == {"idle", "sent", "waiting", "open", "reading"}

GatewayTypeOK ==
    /\ callPc \in [Caller -> Before \cup {"running", "over"}]
    /\ call \in [Caller -> Call]
    /\ answer \in [Caller -> Answer]
    /\ applied \in [Caller -> Nat]
    /\ argument \in [Caller -> Argument]
    /\ connection \in {"none", "connecting", "connected"}

\* The database is touched for a call that runs or ran; one that runs is given
\* the argument that was sent; refusals and successes are final.
CallsInOrder ==
    \A c \in Caller :
        /\ callPc[c] \in Before => applied[c] = 0
        /\ callPc[c] = "running" => argument[c] = call[c].arg
        /\ answer[c] \in Refused \cup {"ok"} => callPc[c] = "over"

GatewayInv == GatewayTypeOK /\ CallsInOrder /\ AnswersAreTrue /\ NothingLeaks

\* What the wire makes of an argument is undone on the other side.
LEMMA ArgumentsArrive == \A arg \in Argument : DecodeValue(EncodeValue(arg)) = arg
<1>1. \A v \in Scalar : DecodeScalar(EncodeScalar(v)) = v
  BY DEF Scalar, DecodeScalar, EncodeScalar, Object, Plain
<1>2. \A v \in Scalar : DecodeValue(EncodeValue(Plain(v))) = Plain(v)
  BY <1>1 DEF DecodeValue, EncodeValue, Plain
<1>3. \A v \in Scalar : DecodeValue(EncodeValue(Object("field", v))) = Object("field", v)
  BY <1>1 DEF DecodeValue, EncodeValue, Object
<1>4. QED
  BY <1>2, <1>3 DEF Argument

\* A caller starts to run, or stops running, and the others go on.
LEMMA RunningMoves ==
    ASSUME GatewayTypeOK, NEW c \in Caller, NEW pc, callPc' = [callPc EXCEPT ![c] = pc]
    PROVE  /\ IsFiniteSet(Running) /\ Cardinality(Running) \in Nat
           /\ pc = "running" => Running' = Running \cup {c}
           /\ pc # "running" => Running' = Running \ {c}
           /\ pc = "running" /\ callPc[c] # "running" => Cardinality(Running') = Cardinality(Running) + 1
           /\ pc # "running" /\ callPc[c] = "running" => Cardinality(Running') = Cardinality(Running) - 1
           /\ pc # "running" /\ callPc[c] # "running" => Running' = Running
<1>1. IsFiniteSet(Running) /\ Cardinality(Running) \in Nat
  <2>1. Running \in SUBSET Caller
    BY DEF Running
  <2>2. QED
    BY <2>1, GatewayAssumption, FS_Subset, FS_CardinalityType
<1>2. /\ pc = "running" => Running' = Running \cup {c}
      /\ pc # "running" => Running' = Running \ {c}
      /\ callPc[c] = "running" <=> c \in Running
  BY DEF Running, GatewayTypeOK
<1>3. /\ Cardinality(Running \cup {c}) = IF c \in Running THEN Cardinality(Running) ELSE Cardinality(Running) + 1
      /\ Cardinality(Running \ {c}) = IF c \in Running THEN Cardinality(Running) - 1 ELSE Cardinality(Running)
  BY <1>1, FS_AddElement, FS_RemoveElement
<1>4. QED
  BY <1>1, <1>2, <1>3

LEMMA GatewayInitially == GatewayInit => GatewayInv
<1> SUFFICES ASSUME GatewayInit PROVE GatewayInv
  OBVIOUS
<1>1. GatewayTypeOK /\ CallsInOrder
  BY DEF GatewayInit, GatewayTypeOK, CallsInOrder, Before, NoCall, Call, Shape, Operation, Answer, Refused, Argument,
         Scalar
<1>2. AnswersAreTrue
  BY DEF GatewayInit, AnswersAreTrue, Refused
<1>3. NothingLeaks
  <2>1. Running = {}
    BY DEF GatewayInit, Running
  <2>2. QED
    BY <2>1, FS_EmptySet DEF GatewayInit, NothingLeaks
<1>4. QED
  BY <1>1, <1>2, <1>3 DEF GatewayInv

LEMMA GatewayKept ==
    ASSUME GatewayInv, [GatewayNext]_gatewayVars
    PROVE  GatewayInv'
<1>k. GatewayTypeOK /\ CallsInOrder /\ AnswersAreTrue /\ NothingLeaks
  BY DEF GatewayInv
<1>m. ASSUME GatewayTypeOK', CallsInOrder', AnswersAreTrue', NothingLeaks'
      PROVE  GatewayInv'
  BY <1>m DEF GatewayInv
\* A caller that does not run moves on and is told at most that it is refused.
<1>b. ASSUME NEW c \in Caller, callPc[c] \in Before, NEW pc \in Before \cup {"over"},
             callPc' = [callPc EXCEPT ![c] = pc],
             UNCHANGED answer \/ (pc = "over" /\ \E a \in Refused : Tell(c, a)),
             UNCHANGED <<applied, argument, inFlight, commands>>,
             call' \in [Caller -> Call], \A d \in Caller \ {c} : call'[d] = call[d],
             connection' \in {"none", "connecting", "connected"}
      PROVE  GatewayInv'
  <2>1. /\ answer' \in [Caller -> Answer]
        /\ \A d \in Caller : answer'[d] = answer[d] \/ (d = c /\ pc = "over" /\ answer'[d] \in Refused)
    <3>1. CASE UNCHANGED answer
      BY <1>k, <3>1 DEF GatewayTypeOK
    <3>2. ASSUME pc = "over", NEW a \in Refused, Tell(c, a)
          PROVE  <2>1
      <4>1. answer' = [answer EXCEPT ![c] = IF @ = "none" THEN a ELSE @] /\ a \in Answer
        BY <3>2 DEF Tell, Answer
      <4>2. QED
        BY <1>k, <3>2, <4>1 DEF GatewayTypeOK
    <3>3. QED
      BY <1>b, <3>1, <3>2
  <2>2. GatewayTypeOK'
    BY <1>b, <1>k, <2>1 DEF GatewayTypeOK
  <2>3. answer[c] \notin Refused \cup {"ok"} /\ applied[c] = 0
    BY <1>b, <1>k DEF CallsInOrder, Before
  <2>4. CallsInOrder'
    BY <1>b, <1>k, <2>1, <2>3 DEF CallsInOrder, GatewayTypeOK, Before, Refused
  <2>5. AnswersAreTrue'
    BY <1>b, <1>k, <2>1, <2>3 DEF AnswersAreTrue, GatewayTypeOK, Before, Refused
  <2>6. NothingLeaks'
    BY <1>b, <1>k, RunningMoves DEF NothingLeaks, Before
  <2>7. QED
    BY <1>m, <2>2, <2>4, <2>5, <2>6
<1>1. ASSUME NEW c \in Caller, NEW r \in Request, Send(c, r)
      PROVE  GatewayInv'
  BY <1>1, <1>b, <1>k, GatewayAssumption DEF Send, GatewayTypeOK, Before
<1>2. ASSUME NEW c \in Caller, Expire(c) \/ Abort(c)
      PROVE  GatewayInv'
  <2>1. /\ UNCHANGED <<callPc, call, applied, argument, inFlight, commands, connection>>
        /\ answer' \in [Caller -> Answer]
        /\ \A d \in Caller : answer'[d] = answer[d] \/ answer'[d] = "aborted"
    BY <1>2, <1>k DEF Expire, Abort, GatewayTypeOK, Answer
  <2>2. GatewayTypeOK' /\ CallsInOrder'
    BY <1>k, <2>1 DEF GatewayTypeOK, CallsInOrder, Refused
  <2>3. AnswersAreTrue' /\ NothingLeaks'
    BY <1>k, <2>1 DEF AnswersAreTrue, NothingLeaks, Refused, Running
  <2>4. QED
    BY <1>m, <2>2, <2>3
<1>3. ASSUME NEW c \in Caller, EnsureConnected(c)
      PROVE  GatewayInv'
  BY <1>3, <1>b, <1>k DEF EnsureConnected, GatewayTypeOK, Before
<1>4. ASSUME NEW c \in Caller, Admit(c)
      PROVE  GatewayInv'
  <2>1. \E pc \in {"over", "reading"} : callPc' = [callPc EXCEPT ![c] = pc]
                                   /\ (UNCHANGED answer \/ (pc = "over" /\ \E a \in Refused : Tell(c, a)))
    BY <1>4 DEF Admit, Tell, Refused
  <2>2. QED
    BY <1>4, <1>b, <1>k, <2>1 DEF Admit, GatewayTypeOK, Before
<1>5. ASSUME NEW c \in Caller, Accept(c)
      PROVE  GatewayInv'
  <2>1. CASE ~ (call[c].shape \in {"good", "args"} /\ c \notin expired)
    <3>1. \E a \in Refused : Tell(c, a)
      BY <1>5, <2>1 DEF Accept, Refused
    <3>2. QED
      BY <1>5, <1>b, <1>k, <2>1, <3>1 DEF Accept, GatewayTypeOK, Before, Tell
  <2>2. CASE call[c].shape \in {"good", "args"} /\ c \notin expired
    <3>1. /\ callPc[c] = "reading" /\ callPc' = [callPc EXCEPT ![c] = "running"]
          /\ inFlight' = inFlight + 1 /\ commands' \subseteq commands \cup {c}
          /\ argument' = [argument EXCEPT ![c] = call[c].arg]
          /\ UNCHANGED <<call, answer, applied, connection>>
      BY <1>5, <1>k, <2>2, ArgumentsArrive DEF Accept, GatewayTypeOK, Call
    <3>2. GatewayTypeOK'
      BY <1>k, <3>1 DEF GatewayTypeOK, Call
    <3>3. answer[c] \notin Refused \cup {"ok"} /\ applied[c] = 0
      BY <1>k, <3>1 DEF CallsInOrder, Before
    <3>4. CallsInOrder' /\ AnswersAreTrue'
      BY <1>k, <3>1, <3>3 DEF CallsInOrder, AnswersAreTrue, GatewayTypeOK, Before, Refused
    <3>5. NothingLeaks'
      BY <1>k, <3>1, RunningMoves DEF NothingLeaks
    <3>6. QED
      BY <1>m, <3>2, <3>4, <3>5
  <2>3. QED
    BY <2>1, <2>2
<1>6. ASSUME NEW c \in Caller, Write(c)
      PROVE  GatewayInv'
  <2>1. /\ callPc[c] = "running" /\ applied' = [applied EXCEPT ![c] = @ + 1]
        /\ UNCHANGED <<callPc, call, answer, argument, inFlight, commands, connection>>
    BY <1>6 DEF Write
  <2>2. GatewayTypeOK'
    BY <1>k, <2>1 DEF GatewayTypeOK
  <2>3. CallsInOrder' /\ AnswersAreTrue'
    BY <1>k, <2>1 DEF CallsInOrder, AnswersAreTrue, GatewayTypeOK, Before
  <2>4. NothingLeaks'
    BY <1>k, <2>1 DEF NothingLeaks, Running
  <2>5. QED
    BY <1>m, <2>2, <2>3, <2>4
<1>7. ASSUME NEW c \in Caller, NEW a \in {"ok", "failed", "retryable"}, Finish(c, a)
      PROVE  GatewayInv'
  <2>1. /\ callPc[c] = "running" /\ callPc' = [callPc EXCEPT ![c] = "over"]
        /\ answer' = [answer EXCEPT ![c] = IF @ = "none" THEN a ELSE @]
        /\ a = "ok" => applied[c] = Documents(call[c].op)
        /\ inFlight' = inFlight - 1 /\ commands' = commands \ {c}
        /\ UNCHANGED <<call, applied, argument, connection>>
    BY <1>7 DEF Finish, Tell
  <2>2. GatewayTypeOK'
    BY <1>k, <2>1 DEF GatewayTypeOK, Answer
  <2>3. CallsInOrder' /\ AnswersAreTrue'
    BY <1>k, <2>1 DEF CallsInOrder, AnswersAreTrue, GatewayTypeOK, Before, Refused
  <2>4. NothingLeaks'
    <3>1. Running' = Running \ {c} /\ Cardinality(Running') = Cardinality(Running) - 1
      <4>1. /\ GatewayTypeOK /\ callPc' = [callPc EXCEPT ![c] = "over"] /\ callPc[c] = "running"
            /\ "over" # "running"
        BY <1>k, <2>1
      <4>2. QED
        BY ONLY <4>1, RunningMoves
    <3>2. QED
      BY <1>k, <2>1, <3>1 DEF NothingLeaks
  <2>5. QED
    BY <1>m, <2>2, <2>3, <2>4
<1>8. ASSUME NEW succeeds \in BOOLEAN, ConnectSettles(succeeds)
      PROVE  GatewayInv'
  <2>1. /\ callPc' \in [Caller -> Before \cup {"running", "over"}] /\ answer' \in [Caller -> Answer]
        /\ connection' \in {"none", "connecting", "connected"}
        /\ UNCHANGED <<call, applied, argument, inFlight, commands>>
    BY <1>8, <1>k DEF ConnectSettles, GatewayTypeOK, Before, Answer, Refused
  <2>2. \A c \in Caller : \/ callPc'[c] = callPc[c] /\ answer'[c] = answer[c]
                          \/ callPc[c] = "waiting" /\ callPc'[c] = "open" /\ answer'[c] = answer[c]
                          \/ /\ callPc[c] = "waiting" /\ callPc'[c] = "over"
                             /\ answer'[c] \in {answer[c], "gateway_unavailable"}
    BY <1>8, <1>k DEF ConnectSettles
  <2>3. GatewayTypeOK'
    BY <1>k, <2>1 DEF GatewayTypeOK
  <2>4. CallsInOrder' /\ AnswersAreTrue'
    BY <1>k, <2>1, <2>2 DEF CallsInOrder, AnswersAreTrue, GatewayTypeOK, Before, Refused
  <2>5. Running' = Running
    BY <2>2 DEF Running
  <2>6. QED
    BY <1>k, <1>m, <2>1, <2>3, <2>4, <2>5 DEF NothingLeaks
<1>9. CASE Stop
  <2>1. /\ callPc' \in [Caller -> Before \cup {"running", "over"}] /\ answer' \in [Caller -> Answer]
        /\ inFlight' = 0 /\ commands' = {} /\ connection' = "none"
        /\ UNCHANGED <<call, applied, argument>>
    BY <1>9, <1>k DEF Stop, GatewayTypeOK, Before, Answer
  <2>2. \A c \in Caller : \/ callPc[c] \in {"idle", "sent"} /\ callPc'[c] = callPc[c] /\ answer'[c] = answer[c]
                          \/ callPc'[c] = "over" /\ answer'[c] \in {answer[c], "aborted"}
    BY <1>9, <1>k DEF Stop
  <2>3. GatewayTypeOK'
    BY <1>k, <2>1 DEF GatewayTypeOK
  <2>4. CallsInOrder' /\ AnswersAreTrue'
    BY <1>k, <2>1, <2>2 DEF CallsInOrder, AnswersAreTrue, GatewayTypeOK, Before, Refused
  <2>5. Running' = {}
    BY <2>2 DEF Running
  <2>6. QED
    BY <1>m, <2>1, <2>3, <2>4, <2>5, FS_EmptySet DEF NothingLeaks
<1>10. CASE UNCHANGED gatewayVars
  BY <1>k, <1>m, <1>10 DEF gatewayVars, GatewayTypeOK, CallsInOrder, AnswersAreTrue, NothingLeaks, Running
<1>11. QED
  BY <1>1, <1>2, <1>3, <1>4, <1>5, <1>6, <1>7, <1>8, <1>9, <1>10 DEF GatewayNext

\* A refused call wrote nothing, and a call answered "ok" wrote everything from the
\* argument that was sent, however many calls, timeouts and restarts overlap
\* (gateway/app.ts, mongo-gateway.ts).
THEOREM AnswersAreTrueHolds == GatewaySpec => []AnswersAreTrue
<1>1. GatewayInv => AnswersAreTrue
  BY DEF GatewayInv
<1>2. QED
  BY <1>1, GatewayInitially, GatewayKept, PTL DEF GatewaySpec

\* The admission counter is the number of calls that run (gateway/app.ts).
THEOREM NothingLeaksHolds == GatewaySpec => []NothingLeaks
<1>1. GatewayInv => NothingLeaks
  BY DEF GatewayInv
<1>2. QED
  BY <1>1, GatewayInitially, GatewayKept, PTL DEF GatewaySpec

-------------------------------------------------------------------------------
(* E-mail.                                                                     *)

Sending(m) == {c \in Copy : queue[m][c].at = "claimed"}
CopyPlace == {"none", "queued", "delivered", "claimed", "accepted", "failing", "acked"}
QueueType == [MailId -> [Copy -> [at : CopyPlace, tries : Nat]]]

\* A delivery that a consumer may claim, or that is not stored yet.
Outstanding(m) == IF delivery[m] \in {"none", "pending", "queued", "failed"} THEN 1 ELSE 0

MailTypeOK ==
    /\ delivery \in [MailId -> {"none", "pending", "queued", "sending", "sent", "failed"}]
    /\ queue \in QueueType
    /\ asker \in [MailId -> {"idle", "count", "store", "refused", "send", "note", "failed", "over"}]
    /\ mailed \in [MailId -> Nat] /\ failures \in [MailId -> Nat]

\* A mail that went out, one that is about to and one that may be claimed are each
\* paid for: one by the request, every further one by a failure.
RepeatsArePaid(m) == mailed[m] + Cardinality(Sending(m)) + Outstanding(m) <= 1 + failures[m]

\* A request stores its delivery once.
StoredOnce(m) == asker[m] \in {"idle", "count", "store"} => delivery[m] = "none"

\* Nobody takes a mail for sent that was not.
SaidIsSent(m) == delivery[m] = "sent" \/ (\E c \in Copy : queue[m][c].at = "accepted") => mailed[m] > 0

MailInv == MailTypeOK /\ \A m \in MailId : RepeatsArePaid(m) /\ StoredOnce(m) /\ SaidIsSent(m)

\* A step of one delivery leaves the others alone.
LEMMA OneMail ==
    ASSUME MailInv, NEW m \in MailId, MailTypeOK',
           \A n \in MailId \ {m} : /\ delivery'[n] = delivery[n] /\ queue'[n] = queue[n] /\ asker'[n] = asker[n]
                                   /\ mailed'[n] = mailed[n] /\ failures'[n] = failures[n],
           RepeatsArePaid(m)', StoredOnce(m)', SaidIsSent(m)'
    PROVE  MailInv'
<1>1. ASSUME NEW n \in MailId \ {m}
      PROVE  RepeatsArePaid(n)' /\ StoredOnce(n)' /\ SaidIsSent(n)'
  <2>1. RepeatsArePaid(n) /\ StoredOnce(n) /\ SaidIsSent(n)
    BY DEF MailInv
  <2>2. Sending(n)' = Sending(n) /\ Outstanding(n)' = Outstanding(n)
    BY DEF Sending, Outstanding
  <2>3. QED
    BY <2>1, <2>2 DEF RepeatsArePaid, StoredOnce, SaidIsSent
<1>2. QED
  BY <1>1 DEF MailInv

\* A copy of a message moves; the others stay where they are.
CopyStep(m, c, at) ==
    /\ queue' \in QueueType /\ queue'[m][c].at = at
    /\ \A d \in Copy \ {c} : queue'[m][d] = queue[m][d]
    /\ \A n \in MailId \ {m} : queue'[n] = queue[n]

\* That is what the steps of a copy do to the queue.
LEMMA CopyPut ==
    ASSUME MailTypeOK, NEW m \in MailId, NEW c \in Copy, NEW at \in CopyPlace, NEW tries \in Nat,
           queue' = [queue EXCEPT ![m][c] = [at |-> at, tries |-> tries]]
    PROVE  CopyStep(m, c, at)
<1>1. queue'[m] = [queue[m] EXCEPT ![c] = [at |-> at, tries |-> tries]] /\ queue[m] \in [Copy -> [at : CopyPlace, tries : Nat]]
  BY DEF MailTypeOK, QueueType
<1>2. /\ queue'[m] \in [Copy -> [at : CopyPlace, tries : Nat]] /\ queue'[m][c].at = at
      /\ \A d \in Copy \ {c} : queue'[m][d] = queue[m][d]
  BY <1>1
<1>3. \A n \in MailId \ {m} : queue'[n] = queue[n]
  BY DEF MailTypeOK, QueueType
<1>4. queue' \in QueueType
  BY <1>2, <1>3 DEF MailTypeOK, QueueType
<1>5. QED
  BY <1>2, <1>3, <1>4 DEF CopyStep

LEMMA CopyGoes ==
    ASSUME MailTypeOK, NEW m \in MailId, NEW c \in Copy, NEW at \in CopyPlace, CopyGoto(m, c, at)
    PROVE  CopyStep(m, c, at)
<1>1. queue[m][c] \in [at : CopyPlace, tries : Nat]
  BY DEF MailTypeOK, QueueType
<1>2. [queue[m][c] EXCEPT !.at = at] = [at |-> at, tries |-> queue[m][c].tries] /\ queue[m][c].tries \in Nat
  BY <1>1
<1>3. queue' = [queue EXCEPT ![m][c] = [queue[m][c] EXCEPT !.at = at]]
  BY DEF CopyGoto
<1>4. QED
  BY <1>2, <1>3, CopyPut

\* How the number of consumers that are about to send changes with it.
LEMMA CopyMoves ==
    ASSUME MailTypeOK, NEW m \in MailId, NEW c \in Copy, \A d \in Copy \ {c} : queue'[m][d] = queue[m][d]
    PROVE  /\ Cardinality(Sending(m)) \in Nat /\ Cardinality(Sending(m)') \in Nat
           /\ queue'[m][c].at # "claimed" => Cardinality(Sending(m)') <= Cardinality(Sending(m))
           /\ queue'[m][c].at # "claimed" /\ queue[m][c].at = "claimed"
                  => Cardinality(Sending(m)') = Cardinality(Sending(m)) - 1
           /\ Cardinality(Sending(m)') <= Cardinality(Sending(m)) + 1
<1>1. /\ IsFiniteSet(Sending(m)) /\ Cardinality(Sending(m)) \in Nat
  <2>1. Sending(m) \in SUBSET Copy
    BY DEF Sending
  <2>2. QED
    BY <2>1, WebEmailAssumption, FS_Subset, FS_CardinalityType
<1>2. CASE queue'[m][c].at = "claimed"
  <2>1. Sending(m)' = Sending(m) \cup {c}
    BY <1>2 DEF Sending
  <2>2. /\ IsFiniteSet(Sending(m) \cup {c})
        /\ Cardinality(Sending(m) \cup {c}) = IF c \in Sending(m) THEN Cardinality(Sending(m))
                                              ELSE Cardinality(Sending(m)) + 1
    BY <1>1, FS_AddElement
  <2>3. Cardinality(Sending(m) \cup {c}) \in Nat
    BY <2>2, FS_CardinalityType
  <2>4. QED
    BY <1>1, <1>2, <2>1, <2>2, <2>3
<1>3. CASE queue'[m][c].at # "claimed"
  <2>1. Sending(m)' = Sending(m) \ {c}
    BY <1>3 DEF Sending
  <2>2. queue[m][c].at = "claimed" <=> c \in Sending(m)
    BY DEF Sending
  <2>3. /\ IsFiniteSet(Sending(m) \ {c})
        /\ Cardinality(Sending(m) \ {c}) = IF c \in Sending(m) THEN Cardinality(Sending(m)) - 1
                                           ELSE Cardinality(Sending(m))
    BY <1>1, FS_RemoveElement
  <2>4. Cardinality(Sending(m) \ {c}) \in Nat
    BY <2>3, FS_CardinalityType
  <2>5. QED
    BY <1>1, <1>3, <2>1, <2>2, <2>3, <2>4
<1>4. QED
  BY <1>2, <1>3

\* An update of a delivery pays for itself.
LEMMA UpdatePays ==
    ASSUME MailInv, NEW m \in MailId, NEW s \in {"queued", "sent", "failed"}, Update(m, s)
    PROVE  /\ delivery' \in [MailId -> {"none", "pending", "queued", "sending", "sent", "failed"}]
           /\ failures' \in [MailId -> Nat]
           /\ \A n \in MailId \ {m} : delivery'[n] = delivery[n] /\ failures'[n] = failures[n]
           /\ Outstanding(m)' \in Nat /\ Outstanding(m) \in Nat
           /\ Outstanding(m)' + failures[m] <= Outstanding(m) + failures'[m]
           /\ delivery'[m] = "none" <=> delivery[m] = "none"
           /\ delivery'[m] = "sent" => delivery[m] = "sent" \/ s = "sent"
<1>1. MailTypeOK
  BY DEF MailInv
<1>2. CASE delivery[m] \in Allowed[s]
  <2>1. /\ delivery[m] \in {"pending", "sending"}
        /\ s = "queued" => delivery[m] = "pending"
        /\ s = "sent" => delivery[m] = "sending"
    BY <1>2 DEF Allowed
  <2>2. /\ delivery' = [delivery EXCEPT ![m] = s]
        /\ failures' = [failures EXCEPT ![m] = IF s = "failed" THEN @ + 1 ELSE @]
    BY <1>2 DEF Update
  <2>3. delivery'[m] = s /\ failures'[m] = IF s = "failed" THEN failures[m] + 1 ELSE failures[m]
    BY <1>1, <2>2 DEF MailTypeOK
  <2>4. /\ Outstanding(m)' + failures[m] <= Outstanding(m) + failures'[m]
        /\ Outstanding(m)' \in Nat /\ Outstanding(m) \in Nat
    BY <1>1, <2>1, <2>3 DEF Outstanding, MailTypeOK
  <2>5. QED
    BY <1>1, <2>1, <2>2, <2>3, <2>4 DEF MailTypeOK
<1>3. CASE delivery[m] \notin Allowed[s]
  BY <1>1, <1>3 DEF Update, Outstanding, MailTypeOK
<1>4. QED
  BY <1>2, <1>3

LEMMA MailInitially == MailInit => MailInv
<1> SUFFICES ASSUME MailInit PROVE MailInv
  OBVIOUS
<1>1. MailTypeOK
  BY DEF MailInit, MailTypeOK, QueueType, CopyPlace
<1>2. ASSUME NEW m \in MailId
      PROVE  RepeatsArePaid(m) /\ StoredOnce(m) /\ SaidIsSent(m)
  <2>1. Sending(m) = {}
    BY DEF MailInit, Sending
  <2>2. QED
    BY <2>1, FS_EmptySet DEF MailInit, RepeatsArePaid, StoredOnce, SaidIsSent, Outstanding
<1>3. QED
  BY <1>1, <1>2 DEF MailInv

LEMMA MailKept ==
    ASSUME MailInv, [MailNext]_mailVars
    PROVE  MailInv'
<1>k. MailTypeOK /\ \A m \in MailId : RepeatsArePaid(m) /\ StoredOnce(m) /\ SaidIsSent(m)
  BY DEF MailInv
\* Requests that go on, and links that end, without a change to a delivery.
<1>a. ASSUME NEW m \in MailId, NEW pc \in {"count", "store", "refused", "failed", "over"}, AskerGoto(m, pc),
             pc \in {"count", "store"} => asker[m] \in {"idle", "count"},
             UNCHANGED <<delivery, queue, mailed, failures>>
      PROVE  MailInv'
  <2>1. MailTypeOK'
    BY <1>a, <1>k DEF MailTypeOK, AskerGoto
  <2>2. Sending(m)' = Sending(m) /\ Outstanding(m)' = Outstanding(m)
    BY <1>a DEF Sending, Outstanding
  <2>3. RepeatsArePaid(m)' /\ StoredOnce(m)' /\ SaidIsSent(m)'
    BY <1>a, <1>k, <2>2 DEF RepeatsArePaid, StoredOnce, SaidIsSent, AskerGoto, MailTypeOK
  <2>4. QED
    BY <1>a, <1>k, <2>1, <2>3, OneMail DEF AskerGoto, MailTypeOK
\* A copy that moves to where nothing is claimed, accepted or said.
<1>b. ASSUME NEW m \in MailId, NEW c \in Copy, NEW at \in {"queued", "delivered", "acked", "failing"},
             CopyStep(m, c, at),
             NEW pc \in {asker[m], "note", "failed", "over"}, AskerGoto(m, pc),
             UNCHANGED <<delivery, mailed, failures>>
      PROVE  MailInv'
  <2>1. MailTypeOK'
    BY <1>b, <1>k DEF MailTypeOK, AskerGoto, CopyStep
  <2>2. \A n \in MailId \ {m} : asker'[n] = asker[n]
    BY <1>b, <1>k DEF MailTypeOK, AskerGoto
  <2>3. /\ Cardinality(Sending(m)) \in Nat /\ Cardinality(Sending(m)') \in Nat
        /\ Cardinality(Sending(m)') <= Cardinality(Sending(m))
    BY <1>b, <1>k, CopyMoves DEF CopyStep
  <2>4. Outstanding(m)' = Outstanding(m) /\ Outstanding(m) \in Nat
    BY <1>b DEF Outstanding
  <2>5. mailed[m] \in Nat /\ failures[m] \in Nat
    BY <1>k DEF MailTypeOK
  <2>6. RepeatsArePaid(m)'
    BY <1>b, <1>k, <2>3, <2>4, <2>5 DEF RepeatsArePaid
  <2>7. StoredOnce(m)' /\ SaidIsSent(m)'
    BY <1>b, <1>k DEF StoredOnce, SaidIsSent, AskerGoto, MailTypeOK, CopyStep
  <2>8. QED
    BY <1>b, <2>1, <2>2, <2>6, <2>7, OneMail DEF CopyStep
<1>1. ASSUME NEW m \in MailId, NEW k \in {"list", "invitation"}, Ask(m, k)
      PROVE  MailInv'
  BY <1>1, <1>a DEF Ask, AskerAt
<1>2. ASSUME NEW m \in MailId, CountMails(m) \/ StoreFails(m) \/ RevokeRefused(m) \/ EnqueueFails(m) \/ AskerLost(m)
      PROVE  MailInv'
  BY <1>2, <1>a DEF CountMails, StoreFails, RevokeRefused, EnqueueFails, AskerLost, AskerAt
<1>3. ASSUME NEW m \in MailId, EndLink(m)
      PROVE  MailInv'
  BY <1>3, <1>k DEF EndLink, MailInv, MailTypeOK, RepeatsArePaid, StoredOnce, SaidIsSent, Sending, Outstanding
<1>4. ASSUME NEW m \in MailId, StoreDelivery(m)
      PROVE  MailInv'
  <2>1. /\ asker[m] = "store" /\ delivery' = [delivery EXCEPT ![m] = "pending"]
        /\ asker' = [asker EXCEPT ![m] = "send"] /\ UNCHANGED <<queue, mailed, failures>>
    BY <1>4 DEF StoreDelivery, AskerAt, AskerGoto
  <2>2. MailTypeOK'
    BY <1>k, <2>1 DEF MailTypeOK
  <2>3. delivery[m] = "none" /\ delivery'[m] = "pending" /\ asker'[m] = "send"
    BY <1>k, <2>1 DEF StoredOnce, MailTypeOK
  <2>4. Sending(m)' = Sending(m) /\ Outstanding(m)' = Outstanding(m)
    BY <2>1, <2>3 DEF Sending, Outstanding
  <2>5. RepeatsArePaid(m)' /\ StoredOnce(m)' /\ SaidIsSent(m)'
    BY <1>k, <2>1, <2>3, <2>4 DEF RepeatsArePaid, StoredOnce, SaidIsSent
  <2>6. QED
    BY <1>k, <2>1, <2>2, <2>5, OneMail DEF MailTypeOK
<1>5. ASSUME NEW m \in MailId, NEW c \in Copy,
             \/ \E told \in BOOLEAN : Enqueue(m, c, told)
             \/ ProcessInline(m, c) \/ Duplicate(m, c) \/ Deliver(m, c) \/ SendFails(m, c) \/ ConsumerLost(m, c)
      PROVE  MailInv'
  <2>1. UNCHANGED asker => AskerGoto(m, asker[m])
    BY <1>k DEF AskerGoto, MailTypeOK
  <2>2. \A at \in CopyPlace : CopyGoto(m, c, at) => CopyStep(m, c, at)
    BY <1>k, CopyGoes
  <2>3. queue[m][c].tries + 1 \in Nat /\ TryLimit \in Nat
    BY <1>k, WebEmailAssumption DEF MailTypeOK, QueueType
  <2>4. \E at \in {"queued", "delivered", "acked", "failing"}, pc \in {asker[m], "note", "failed", "over"} :
           CopyStep(m, c, at) /\ AskerGoto(m, pc)
    <3>1. CASE \E told \in BOOLEAN : Enqueue(m, c, told)
      BY <2>2, <3>1 DEF Enqueue, CopyGoto, CopyPlace
    <3>2. CASE ProcessInline(m, c)
      <4>1. CopyStep(m, c, "delivered")
        BY <1>k, <2>3, <3>2, CopyPut DEF ProcessInline, CopyPlace
      <4>2. QED
        BY <3>2, <4>1 DEF ProcessInline
    <3>3. CASE Duplicate(m, c)
      BY <2>1, <2>2, <3>3 DEF Duplicate, CopyPlace
    <3>4. CASE Deliver(m, c)
      <4>1. queue' = [queue EXCEPT ![m][c] = [at |-> "delivered", tries |-> queue[m][c].tries + 1]]
        BY <3>4 DEF Deliver
      <4>2. CopyStep(m, c, "delivered")
        BY <1>k, <2>3, <4>1, CopyPut DEF CopyPlace
      <4>3. QED
        BY <2>1, <3>4, <4>2 DEF Deliver
    <3>5. CASE SendFails(m, c)
      BY <2>1, <2>2, <3>5 DEF SendFails, CopyPlace
    <3>6. CASE ConsumerLost(m, c)
      BY <2>1, <2>2, <3>6 DEF ConsumerLost, RetryOrAck, CopyPlace
    <3>7. QED
      BY <1>5, <3>1, <3>2, <3>3, <3>4, <3>5, <3>6
  <2>5. UNCHANGED <<delivery, mailed, failures>>
    BY <1>5 DEF Enqueue, ProcessInline, Duplicate, Deliver, SendFails, ConsumerLost
  <2>6. QED
    BY <1>b, <2>4, <2>5
<1>6. ASSUME NEW m \in MailId, NEW s \in {"queued", "failed"}, Update(m, s),
             NEW pc \in {"over", "failed", "refused"}, AskerGoto(m, pc), UNCHANGED <<queue, mailed>>
      PROVE  MailInv'
  <2>1. /\ delivery' \in [MailId -> {"none", "pending", "queued", "sending", "sent", "failed"}]
        /\ failures' \in [MailId -> Nat]
        /\ \A n \in MailId \ {m} : delivery'[n] = delivery[n] /\ failures'[n] = failures[n]
        /\ Outstanding(m)' \in Nat /\ Outstanding(m) \in Nat
        /\ Outstanding(m)' + failures[m] <= Outstanding(m) + failures'[m]
        /\ delivery'[m] = "sent" => delivery[m] = "sent"
    BY <1>6, UpdatePays
  <2>2. MailTypeOK'
    BY <1>6, <1>k, <2>1 DEF MailTypeOK, AskerGoto
  <2>3. Sending(m)' = Sending(m) /\ Cardinality(Sending(m)) \in Nat
    <3>1. Sending(m) \in SUBSET Copy
      BY DEF Sending
    <3>2. QED
      BY <1>6, <3>1, WebEmailAssumption, FS_Subset, FS_CardinalityType DEF Sending
  <2>4. mailed[m] \in Nat /\ failures[m] \in Nat /\ failures'[m] \in Nat
    BY <1>k, <2>1 DEF MailTypeOK
  <2>5. RepeatsArePaid(m)'
    BY <1>6, <1>k, <2>1, <2>3, <2>4 DEF RepeatsArePaid
  <2>6. StoredOnce(m)' /\ SaidIsSent(m)'
    BY <1>6, <1>k, <2>1 DEF StoredOnce, SaidIsSent, AskerGoto, MailTypeOK
  <2>7. QED
    BY <1>6, <1>k, <2>1, <2>2, <2>5, <2>6, OneMail DEF AskerGoto, MailTypeOK
<1>7. ASSUME NEW m \in MailId, NoteQueued(m) \/ NoteFailed(m)
      PROVE  MailInv'
  BY <1>6, <1>7, <1>a DEF NoteQueued, NoteFailed, AskerAt
<1>8. ASSUME NEW m \in MailId, NEW c \in Copy, Claim(m, c)
      PROVE  MailInv'
  <2>1. CASE Claimable(m)
    <3>1. /\ delivery[m] \in {"pending", "queued", "failed"} /\ delivery' = [delivery EXCEPT ![m] = "sending"]
          /\ queue' = [queue EXCEPT ![m][c].at = "claimed"] /\ UNCHANGED <<asker, mailed, failures>>
      BY <1>8, <2>1 DEF Claim, Claimable, CopyGoto
    <3>2. CopyStep(m, c, "claimed")
      BY <1>k, <3>1, CopyGoes DEF CopyGoto, CopyPlace
    <3>3. MailTypeOK' /\ delivery'[m] = "sending" /\ \A n \in MailId \ {m} : delivery'[n] = delivery[n]
      BY <1>k, <3>1, <3>2 DEF MailTypeOK, CopyStep
    <3>4. /\ Cardinality(Sending(m)) \in Nat /\ Cardinality(Sending(m)') \in Nat
          /\ Cardinality(Sending(m)') <= Cardinality(Sending(m)) + 1
      BY <1>k, <3>2, CopyMoves DEF CopyStep
    <3>5. Outstanding(m)' = 0 /\ Outstanding(m) = 1
      BY <3>1, <3>3 DEF Outstanding
    <3>6. RepeatsArePaid(m)'
      <4>1. mailed[m] \in Nat /\ failures[m] \in Nat
        BY <1>k DEF MailTypeOK
      <4>2. QED
        BY <1>k, <3>1, <3>4, <3>5, <4>1 DEF RepeatsArePaid
    <3>7. StoredOnce(m)' /\ SaidIsSent(m)'
      BY <1>k, <3>1, <3>2, <3>3 DEF StoredOnce, SaidIsSent, CopyStep
    <3>8. QED
      BY <3>1, <3>2, <3>3, <3>6, <3>7, OneMail DEF CopyStep
  <2>2. CASE ~ Claimable(m)
    <3>1. CopyStep(m, c, "acked")
      BY <1>8, <1>k, <2>2, CopyGoes DEF Claim, CopyPlace
    <3>2. AskerGoto(m, asker[m]) /\ UNCHANGED <<delivery, mailed, failures>>
      BY <1>8, <1>k, <2>2 DEF Claim, AskerGoto, MailTypeOK
    <3>3. QED
      BY <1>b, <3>1, <3>2
  <2>3. QED
    BY <2>1, <2>2
<1>9. ASSUME NEW m \in MailId, NEW c \in Copy, NEW told \in BOOLEAN, SendMail(m, c, told)
      PROVE  MailInv'
  <2>1. /\ queue[m][c].at = "claimed" /\ mailed' = [mailed EXCEPT ![m] = @ + 1]
        /\ queue' = [queue EXCEPT ![m][c].at = IF told THEN "accepted" ELSE "failing"]
        /\ UNCHANGED <<delivery, asker, failures>>
    BY <1>9 DEF SendMail, CopyAt, CopyGoto
  <2>2. PICK at \in {"accepted", "failing"} : CopyStep(m, c, at)
    BY <1>k, <2>1, CopyGoes DEF CopyGoto, CopyPlace
  <2>3. /\ MailTypeOK' /\ mailed'[m] = mailed[m] + 1 /\ \A n \in MailId \ {m} : mailed'[n] = mailed[n]
        /\ mailed[m] \in Nat /\ failures[m] \in Nat
    BY <1>k, <2>1, <2>2 DEF MailTypeOK, CopyStep
  <2>4. /\ Cardinality(Sending(m)) \in Nat /\ Cardinality(Sending(m)') = Cardinality(Sending(m)) - 1
    BY <1>k, <2>1, <2>2, CopyMoves DEF CopyStep
  <2>5. Outstanding(m)' = Outstanding(m) /\ Outstanding(m) \in Nat
    BY <2>1 DEF Outstanding
  <2>6. RepeatsArePaid(m)'
    BY <1>k, <2>1, <2>3, <2>4, <2>5 DEF RepeatsArePaid
  <2>7. StoredOnce(m)' /\ SaidIsSent(m)'
    BY <1>k, <2>1, <2>3 DEF StoredOnce, SaidIsSent
  <2>8. QED
    BY <2>1, <2>2, <2>3, <2>6, <2>7, OneMail DEF CopyStep
<1>10. ASSUME NEW m \in MailId, NEW c \in Copy, RecordSent(m, c) \/ RecordFailed(m, c)
       PROVE  MailInv'
  <2>1. CASE RecordSent(m, c) /\ CopyGoto(m, c, "failing") /\ UNCHANGED <<delivery, failures>>
    <3>1. CopyStep(m, c, "failing")
      BY <1>k, <2>1, CopyGoes DEF CopyPlace
    <3>2. AskerGoto(m, asker[m]) /\ UNCHANGED <<delivery, mailed, failures>>
      BY <1>k, <2>1 DEF RecordSent, AskerGoto, MailTypeOK
    <3>3. QED
      BY <1>b, <3>1, <3>2
  <2>2. ASSUME NEW s \in {"sent", "failed"}, Update(m, s), s = "sent" => queue[m][c].at = "accepted",
               NEW at \in {"queued", "acked", "failing"}, CopyGoto(m, c, at), UNCHANGED <<asker, mailed>>
        PROVE  MailInv'
    <3>1. /\ delivery' \in [MailId -> {"none", "pending", "queued", "sending", "sent", "failed"}]
          /\ failures' \in [MailId -> Nat]
          /\ \A n \in MailId \ {m} : delivery'[n] = delivery[n] /\ failures'[n] = failures[n]
          /\ Outstanding(m)' \in Nat /\ Outstanding(m) \in Nat
          /\ Outstanding(m)' + failures[m] <= Outstanding(m) + failures'[m]
          /\ delivery'[m] = "none" <=> delivery[m] = "none"
          /\ delivery'[m] = "sent" => delivery[m] = "sent" \/ s = "sent"
      BY <2>2, UpdatePays
    <3>2. CopyStep(m, c, at)
      BY <1>k, <2>2, CopyGoes DEF CopyPlace
    <3>3. MailTypeOK' /\ mailed[m] \in Nat /\ failures[m] \in Nat /\ failures'[m] \in Nat
      BY <1>k, <2>2, <3>1, <3>2 DEF MailTypeOK, CopyStep
    <3>4. /\ Cardinality(Sending(m)) \in Nat /\ Cardinality(Sending(m)') \in Nat
          /\ Cardinality(Sending(m)') <= Cardinality(Sending(m))
      BY <1>k, <2>2, <3>2, CopyMoves DEF CopyStep
    <3>5. RepeatsArePaid(m)'
      BY <1>k, <2>2, <3>1, <3>3, <3>4 DEF RepeatsArePaid
    <3>6. StoredOnce(m)' /\ SaidIsSent(m)'
      BY <1>k, <2>2, <3>1, <3>2, <3>3 DEF StoredOnce, SaidIsSent, CopyStep
    <3>7. QED
      BY <2>2, <3>1, <3>2, <3>3, <3>5, <3>6, OneMail DEF CopyStep
  <2>3. QED
    BY <1>10, <2>1, <2>2 DEF RecordSent, RecordFailed, RetryOrAck, CopyAt
<1>11. CASE UNCHANGED mailVars
  BY <1>k, <1>11 DEF mailVars, MailInv, MailTypeOK, RepeatsArePaid, StoredOnce, SaidIsSent, Sending, Outstanding
<1>12. QED
  BY <1>1, <1>2, <1>3, <1>4, <1>5, <1>7, <1>8, <1>9, <1>10, <1>11
     DEF MailNext, ShoppingEmailPost, EmailShoppingList, EmailFromPage, InviteFromPage

\* A mail goes out again only after a failure of it was recorded, for any number of
\* copies of its message, and is said to be sent only if it was (email.ts, workers/app.ts).
THEOREM RepeatsFollowFailuresHolds == MailSpec => []RepeatsFollowFailures
<1>1. MailInv => RepeatsFollowFailures
  <2> SUFFICES ASSUME MailInv, NEW m \in MailId
               PROVE  mailed[m] <= 1 + failures[m] /\ (delivery[m] = "sent" => mailed[m] > 0)
    BY DEF RepeatsFollowFailures
  <2>1. /\ RepeatsArePaid(m) /\ SaidIsSent(m) /\ mailed[m] \in Nat /\ failures[m] \in Nat
        /\ Sending(m) \in SUBSET Copy /\ Outstanding(m) \in Nat
    BY DEF MailInv, MailTypeOK, Sending, Outstanding
  <2>2. Cardinality(Sending(m)) \in Nat
    BY <2>1, WebEmailAssumption, FS_Subset, FS_CardinalityType
  <2>3. QED
    BY <2>1, <2>2 DEF RepeatsArePaid, SaidIsSent
<1>2. QED
  BY <1>1, MailInitially, MailKept, PTL DEF MailSpec

-------------------------------------------------------------------------------
(* Ingestion.                                                                  *)

StoredDraft == {"none"} \cup LocalDraft
Papers == [status : Status, draft : StoredDraft, recipeId : Publisher \cup {NoRecipe}]

IngestionTypeOK ==
    /\ ingestion \in Papers
    /\ workflow \in [step : {"none", "mark", "extract", "save", "report", "complete", "failed", "heard"},
                    attempts : Nat, draft : StoredDraft]
    /\ publisher \in [Publisher -> {"idle", "read", "claim", "again", "insert", "finish", "over"}]
    /\ published \subseteq Publisher
    /\ answered \in [Publisher -> Publisher \cup {NoRecipe}]
    /\ reopened \in BOOLEAN

\* The workflow saves what it extracted, and publish finishes what it inserted.
WorkIsDone ==
    /\ workflow.step = "save" => workflow.draft # "none"
    /\ \A p \in Publisher : publisher[p] = "finish" => p \in published

\* Requests that have inserted their recipe or will.
Claimants == published \cup {p \in Publisher : publisher[p] \in {"insert", "finish"}}

\* As long as nothing overwrites what publish set, one request has the claim, and the
\* status keeps the others from it.
OneClaim ==
    ~ reopened => /\ \A p, q \in Claimants : p = q
                  /\ Claimants # {} => ingestion.status \in {"publishing", "published"}

DraftInv == IngestionTypeOK /\ WorkIsDone /\ OneClaim /\ StatusIsBacked

\* The document is written over by whoever does not look at its status.
LEMMA OverwriteKeeps ==
    ASSUME DraftInv, NEW new \in Papers, Overwrite(new),
           new.status # "published", new.status = "review_ready" => new.draft # "none",
           UNCHANGED <<publisher, published, answered>>,
           workflow' \in [step : {"none", "mark", "extract", "save", "report", "complete", "failed", "heard"},
                         attempts : Nat, draft : StoredDraft],
           workflow'.step = "save" => workflow'.draft # "none"
    PROVE  DraftInv'
<1>1. IngestionTypeOK /\ WorkIsDone /\ OneClaim /\ StatusIsBacked
  BY DEF DraftInv
<1>2. ingestion' = new /\ reopened' = (reopened \/ ingestion.status \in {"publishing", "published"})
  BY DEF Overwrite
<1>3. IngestionTypeOK'
  BY <1>1, <1>2 DEF IngestionTypeOK
<1>4. WorkIsDone' /\ StatusIsBacked'
  BY <1>1, <1>2 DEF WorkIsDone, StatusIsBacked
<1>5. Claimants' = Claimants
  BY DEF Claimants
<1>6. OneClaim'
  BY <1>1, <1>2, <1>5 DEF OneClaim
<1>7. QED
  BY <1>3, <1>4, <1>6 DEF DraftInv

\* The workflow, or a request, goes on without touching the document.
LEMMA DocumentStays ==
    ASSUME DraftInv, UNCHANGED <<ingestion, reopened, publisher, published, answered>>,
           workflow' \in [step : {"none", "mark", "extract", "save", "report", "complete", "failed", "heard"},
                         attempts : Nat, draft : StoredDraft],
           workflow'.step = "save" => workflow'.draft # "none"
    PROVE  DraftInv'
BY DEF DraftInv, IngestionTypeOK, WorkIsDone, OneClaim, Claimants, StatusIsBacked

LEMMA DraftInitially == IngestionInit => DraftInv
<1> SUFFICES ASSUME IngestionInit PROVE DraftInv
  OBVIOUS
<1>1. IngestionTypeOK
  BY DEF IngestionInit, IngestionTypeOK, Papers, Status, StoredDraft
<1>2. WorkIsDone /\ StatusIsBacked
  BY DEF IngestionInit, WorkIsDone, StatusIsBacked
<1>3. OneClaim
  BY DEF IngestionInit, OneClaim, Claimants
<1>4. QED
  BY <1>1, <1>2, <1>3 DEF DraftInv

LEMMA DraftKept ==
    ASSUME DraftInv, [IngestionNext]_ingestionVars
    PROVE  DraftInv'
<1>k. IngestionTypeOK /\ WorkIsDone /\ OneClaim /\ StatusIsBacked
  BY DEF DraftInv
<1>w. /\ workflow \in [step : {"none", "mark", "extract", "save", "report", "complete", "failed", "heard"},
                       attempts : Nat, draft : StoredDraft]
      /\ workflow.step = "save" => workflow.draft # "none"
  BY <1>k DEF IngestionTypeOK, WorkIsDone
<1>s. ASSUME NEW s \in {"queued", "extracting", "failed", "cancelled"}, NEW new, new = [ingestion EXCEPT !.status = s]
      PROVE  /\ new \in Papers /\ new.status # "published" /\ (new.status = "review_ready" => new.draft # "none")
  BY <1>k, <1>s DEF IngestionTypeOK, Papers, Status
<1>d. ASSUME NEW d \in LocalDraft, NEW new, new = [ingestion EXCEPT !.status = "review_ready", !.draft = d]
      PROVE  /\ new \in Papers /\ new.status # "published" /\ (new.status = "review_ready" => new.draft # "none")
  BY <1>k, <1>d DEF IngestionTypeOK, Papers, Status, StoredDraft, LocalDraft
<1>1. ASSUME NEW provider, NEW configured, NEW k, Submit(provider, configured, k)
      PROVE  DraftInv'
  <2>1. ingestion' = [ingestion EXCEPT !.status = "queued"] /\ ingestion.status = "none"
        /\ UNCHANGED <<workflow, publisher, published, answered, reopened>>
    BY <1>1 DEF Submit
  <2>2. Overwrite([ingestion EXCEPT !.status = "queued"])
    BY <1>k, <2>1 DEF Overwrite, IngestionTypeOK
  <2>3. QED
    BY <1>s, <1>w, <2>1, <2>2, OverwriteKeeps
<1>2. CASE StoreSource \/ AgentStarted \/ RequestLost
  BY <1>2, <1>w, DocumentStays DEF StoreSource, AgentStarted, RequestLost
<1>3. CASE ExtractLocally
  <2>1. CASE SetStatus("extracting")
    BY <1>3, <1>s, <1>w, <2>1, OverwriteKeeps DEF ExtractLocally, SetStatus
  <2>2. ASSUME NEW d \in LocalDraft, SaveDraft(d)
        PROVE  DraftInv'
    BY <1>3, <1>d, <1>w, <2>2, OverwriteKeeps DEF ExtractLocally, SaveDraft
  <2>3. QED
    BY <1>3, <2>1, <2>2 DEF ExtractLocally
<1>4. CASE StartWorkflow
  <2>1. workflow' = [workflow EXCEPT !.step = "mark"] /\ UNCHANGED <<ingestion, reopened, publisher, published, answered>>
    BY <1>4 DEF StartWorkflow
  <2>2. QED
    BY <1>w, <2>1, DocumentStays
<1>5. CASE MarkExtracting
  <2>1. workflow' = [workflow EXCEPT !.attempts = @ + 1] /\ SetStatus("extracting")
        /\ UNCHANGED <<publisher, published, answered>>
    BY <1>5 DEF MarkExtracting, Attempt
  <2>2. QED
    BY <1>s, <1>w, <2>1, OverwriteKeeps DEF SetStatus
<1>6. CASE Extract
  <2>1. PICK d \in ModelDraft(source.kind) :
           workflow' = [workflow EXCEPT !.attempts = @ + 1, !.draft = IF d = "error" THEN @ ELSE d]
    BY <1>6 DEF Extract
  <2>2. d = "error" \/ d \in LocalDraft
    BY DEF ModelDraft
  <2>3. workflow.step = "extract" /\ UNCHANGED <<ingestion, reopened, publisher, published, answered>>
    BY <1>6 DEF Extract
  <2>4. PICK e \in StoredDraft : workflow' = [workflow EXCEPT !.attempts = @ + 1, !.draft = e]
    <3>1. CASE d = "error"
      <4>1. workflow.draft \in StoredDraft
        BY <1>w
      <4>2. workflow' = [workflow EXCEPT !.attempts = @ + 1, !.draft = workflow.draft]
        BY <1>w, <2>1, <3>1
      <4>3. QED
        BY <4>1, <4>2
    <3>2. CASE d # "error"
      BY <2>1, <2>2, <3>2 DEF StoredDraft
    <3>3. QED
      BY <3>1, <3>2
  <2>5. workflow'.step = "extract" /\ workflow' \in [step : {"none", "mark", "extract", "save", "report", "complete", "failed", "heard"},
                       attempts : Nat, draft : StoredDraft]
    <3>1. workflow' = [step |-> "extract", attempts |-> workflow.attempts + 1, draft |-> e]
      BY <1>w, <2>3, <2>4
    <3>2. workflow.attempts + 1 \in Nat
      BY <1>w
    <3>3. QED
      BY <3>1, <3>2
  <2>6. QED
    BY <2>3, <2>5, DocumentStays
<1>7. CASE SaveExtracted
  <2>1. /\ workflow.step = "save" /\ workflow' = [workflow EXCEPT !.attempts = @ + 1]
        /\ SaveDraft(workflow.draft) /\ UNCHANGED <<publisher, published, answered>>
    BY <1>7 DEF SaveExtracted, Attempt
  <2>2. workflow.draft \in LocalDraft
    BY <1>w, <2>1 DEF StoredDraft
  <2>3. workflow'.draft # "none" /\ workflow' \in [step : {"none", "mark", "extract", "save", "report", "complete", "failed", "heard"},
                       attempts : Nat, draft : StoredDraft]
    BY <1>w, <2>1
  <2>4. QED
    BY <1>d, <2>1, <2>2, <2>3, OverwriteKeeps DEF SaveDraft
<1>8. CASE StepRecorded
  <2>1. /\ workflow' = [workflow EXCEPT !.step = Successor[workflow.step], !.attempts = 0]
        /\ workflow.step \in {"mark", "extract", "save"}
        /\ workflow.step = "extract" => workflow.draft # "none"
        /\ UNCHANGED <<ingestion, reopened, publisher, published, answered>>
    BY <1>8 DEF StepRecorded, Successor
  <2>2. /\ Successor[workflow.step] \in {"extract", "save", "report"}
        /\ Successor[workflow.step] = "save" => workflow.step = "extract"
    BY <2>1 DEF Successor
  <2>3. QED
    BY <1>w, <2>1, <2>2, DocumentStays
<1>9. CASE WorkflowFails \/ OnWorkflowComplete
  <2>1. PICK step \in {"failed", "complete"} : workflow' = [workflow EXCEPT !.step = step]
    BY <1>9 DEF WorkflowFails, OnWorkflowComplete
  <2>2. UNCHANGED <<ingestion, reopened, publisher, published, answered>>
    BY <1>9 DEF WorkflowFails, OnWorkflowComplete
  <2>3. QED
    BY <1>w, <2>1, <2>2, DocumentStays
<1>10. CASE OnWorkflowError
  <2>1. workflow' = [workflow EXCEPT !.step = "heard"] /\ UNCHANGED <<publisher, published, answered>>
    BY <1>10 DEF OnWorkflowError
  <2>2. CASE SetStatus("failed")
    BY <1>s, <1>w, <2>1, <2>2, OverwriteKeeps DEF SetStatus
  <2>3. CASE UNCHANGED <<ingestion, reopened>>
    BY <1>w, <2>1, <2>3, DocumentStays
  <2>4. QED
    BY <1>10, <2>2, <2>3 DEF OnWorkflowError
<1>11. CASE Cancel
  BY <1>11, <1>s, <1>w, OverwriteKeeps DEF Cancel, SetStatus
\* A request to publish that goes on without a claim, and is answered what exists.
<1>p. ASSUME NEW p \in Publisher, NEW pc \in {"read", "claim", "again", "over"},
             publisher' = [publisher EXCEPT ![p] = pc],
             UNCHANGED answered \/ (Already /\ answered' = [answered EXCEPT ![p] = ingestion.recipeId]),
             UNCHANGED <<ingestion, workflow, published, reopened>>
      PROVE  DraftInv'
  <2>1. IngestionTypeOK'
    BY <1>k, <1>p DEF IngestionTypeOK, Papers
  <2>2. \A q \in Publisher : publisher'[q] \in {"insert", "finish"} => publisher'[q] = publisher[q]
    BY <1>k, <1>p DEF IngestionTypeOK
  <2>3. WorkIsDone'
    BY <1>k, <1>p, <2>2 DEF WorkIsDone
  <2>4. Claimants' \subseteq Claimants
    BY <1>p, <2>2 DEF Claimants
  <2>5. OneClaim'
    BY <1>k, <1>p, <2>4 DEF OneClaim
  <2>6. StatusIsBacked'
    BY <1>k, <1>p DEF StatusIsBacked, Already, IngestionTypeOK
  <2>7. QED
    BY <2>1, <2>3, <2>5, <2>6 DEF DraftInv
<1>12. ASSUME NEW p \in Publisher, StartPublish(p)
       PROVE  DraftInv'
  BY <1>12, <1>k, <1>p DEF StartPublish, ReviewAction, IngestionPost, PublishRecipeImport
<1>13. ASSUME NEW p \in Publisher, NEW draft \in LocalDraft, PublishRead(p, draft)
       PROVE  DraftInv'
  <2>1. UNCHANGED <<ingestion, workflow, published, reopened>>
    BY <1>13 DEF PublishRead
  <2>2. \/ GiveRecipe(p) /\ Already
        \/ publisher' = [publisher EXCEPT ![p] = "over"] /\ UNCHANGED answered
        \/ publisher' = [publisher EXCEPT ![p] = "claim"] /\ UNCHANGED answered
    BY <1>13 DEF PublishRead, Refuse
  <2>3. QED
    BY <1>p, <2>1, <2>2 DEF GiveRecipe
<1>14. ASSUME NEW p \in Publisher, PublishClaim(p)
       PROVE  DraftInv'
  <2>1. CASE Ready
    <3>1. /\ ingestion' = [ingestion EXCEPT !.status = "publishing"] /\ publisher' = [publisher EXCEPT ![p] = "insert"]
          /\ UNCHANGED <<workflow, published, answered, reopened>> /\ ingestion.status \in {"review_ready", "failed"}
      BY <1>14, <2>1 DEF PublishClaim, Ready
    <3>2. IngestionTypeOK' /\ ingestion'.status = "publishing"
      BY <1>k, <3>1 DEF IngestionTypeOK, Papers, Status
    <3>3. Claimants' = Claimants \cup {p}
      BY <1>k, <3>1 DEF Claimants, IngestionTypeOK
    <3>4. OneClaim'
      <4>1. ~ reopened => Claimants = {}
        BY <1>k, <3>1 DEF OneClaim
      <4>2. QED
        BY <3>1, <3>2, <3>3, <4>1 DEF OneClaim
    <3>5. WorkIsDone' /\ StatusIsBacked'
      BY <1>k, <3>1, <3>2 DEF WorkIsDone, StatusIsBacked, IngestionTypeOK
    <3>6. QED
      BY <3>2, <3>4, <3>5 DEF DraftInv
  <2>2. CASE ~ Ready
    BY <1>14, <1>p, <2>2 DEF PublishClaim
  <2>3. QED
    BY <2>1, <2>2
<1>15. ASSUME NEW p \in Publisher, PublishAgain(p)
       PROVE  DraftInv'
  <2>1. UNCHANGED <<ingestion, workflow, published, reopened>>
    BY <1>15 DEF PublishAgain
  <2>2. \/ GiveRecipe(p) /\ Already
        \/ publisher' = [publisher EXCEPT ![p] = "over"] /\ UNCHANGED answered
    BY <1>15 DEF PublishAgain, Refuse
  <2>3. QED
    BY <1>p, <2>1, <2>2 DEF GiveRecipe
<1>16. ASSUME NEW p \in Publisher, PublishInsert(p)
       PROVE  DraftInv'
  <2>1. /\ publisher[p] = "insert" /\ published' = published \cup {p}
        /\ publisher' = [publisher EXCEPT ![p] = "finish"] /\ UNCHANGED <<ingestion, workflow, answered, reopened>>
    BY <1>16 DEF PublishInsert
  <2>2. IngestionTypeOK' /\ WorkIsDone' /\ StatusIsBacked'
    BY <1>k, <2>1 DEF IngestionTypeOK, WorkIsDone, StatusIsBacked
  <2>3. Claimants' = Claimants
    BY <1>k, <2>1 DEF Claimants, IngestionTypeOK
  <2>4. OneClaim'
    BY <1>k, <2>1, <2>3 DEF OneClaim
  <2>5. QED
    BY <2>2, <2>4 DEF DraftInv
<1>17. ASSUME NEW p \in Publisher, PublishFinish(p)
       PROVE  DraftInv'
  <2>1. /\ publisher[p] = "finish" /\ p \in published /\ publisher' = [publisher EXCEPT ![p] = "over"]
        /\ ingestion' = [ingestion EXCEPT !.status = "published", !.recipeId = p]
        /\ answered' = [answered EXCEPT ![p] = p] /\ UNCHANGED <<workflow, published, reopened>>
    BY <1>17, <1>k DEF PublishFinish, WorkIsDone
  <2>2. IngestionTypeOK' /\ ingestion'.status = "published" /\ ingestion'.recipeId = p
    BY <1>k, <2>1 DEF IngestionTypeOK, Papers, Status
  <2>3. WorkIsDone' /\ StatusIsBacked'
    BY <1>k, <2>1, <2>2 DEF IngestionTypeOK, WorkIsDone, StatusIsBacked
  <2>4. Claimants' \subseteq Claimants
    BY <1>k, <2>1 DEF Claimants, IngestionTypeOK
  <2>5. OneClaim'
    BY <1>k, <2>1, <2>2, <2>4 DEF OneClaim
  <2>6. QED
    BY <2>2, <2>3, <2>5 DEF DraftInv
<1>18. ASSUME NEW p \in Publisher, PublishLost(p)
       PROVE  DraftInv'
  BY <1>18, <1>p DEF PublishLost
<1>19. CASE UNCHANGED ingestionVars
  BY <1>19, <1>w, DocumentStays DEF ingestionVars
<1>20. QED
  BY <1>1, <1>2, <1>3, <1>4, <1>5, <1>6, <1>7, <1>8, <1>9, <1>10, <1>11, <1>12, <1>13, <1>14, <1>15, <1>16, <1>17,
     <1>18, <1>19 DEF IngestionNext, RecipeNew, RecipeIngestionsPost, ImportRecipeText

\* Two requests to publish make one recipe, unless the workflow, its error callback
\* or a cancellation wrote over what publish had set (ingestions.ts).
THEOREM OneRecipeUnlessReopenedHolds == IngestionSpec => []OneRecipeUnlessReopened
<1>1. DraftInv => OneRecipeUnlessReopened
  <2> SUFFICES ASSUME DraftInv, ~ reopened PROVE ~ (Cardinality(published) > 1)
    BY DEF OneRecipeUnlessReopened
  <2>1. published \subseteq Claimants /\ \A p, q \in Claimants : p = q
    BY DEF DraftInv, OneClaim, Claimants
  <2>2. published = {} \/ \E p : published = {p}
    BY <2>1
  <2>3. Cardinality(published) \in {0, 1}
    BY <2>2, FS_EmptySet, FS_Singleton
  <2>4. QED
    BY <2>3
<1>2. QED
  BY <1>1, DraftInitially, DraftKept, PTL DEF IngestionSpec

\* A draft that is ready was saved, and a recipe that the document or an answer names
\* exists, for the losers of the claim as well (ingestions.ts: publish).
THEOREM StatusIsBackedHolds == IngestionSpec => []StatusIsBacked
<1>1. DraftInv => StatusIsBacked
  BY DEF DraftInv
<1>2. QED
  BY <1>1, DraftInitially, DraftKept, PTL DEF IngestionSpec

-------------------------------------------------------------------------------
(* The meals of a week.                                                        *)

\* The plan and the requests are there for every meal and every tab.
PlannerInv ==
    /\ DOMAIN meals = Meal /\ DOMAIN request = PlanTab
    /\ \A t \in PlanTab : "pc" \in DOMAIN request[t]

LEMMA PlannerInitially == PlannerInit => PlannerInv
BY DEF PlannerInit, PlannerInv, Idle

RequestsThere == DOMAIN request = PlanTab /\ \A t \in PlanTab : "pc" \in DOMAIN request[t]

\* What a step of a request leaves behind.
LEMMA RequestsStay ==
    ASSUME PlannerInv, NEW t \in PlanTab, NEW pc, Goto(t, pc) \/ End(t) \/ Changed(t, pc)
    PROVE  RequestsThere' /\ request'[t].pc \in {pc, "idle"}
<1>1. CASE Goto(t, pc)
  BY <1>1 DEF PlannerInv, Goto, RequestsThere
<1>2. CASE End(t)
  BY <1>2 DEF PlannerInv, End, Idle, RequestsThere
<1>3. CASE Changed(t, pc)
  BY <1>3 DEF PlannerInv, Changed, RequestsThere
<1>4. QED
  BY <1>1, <1>2, <1>3

LEMMA DoorsKeep ==
    ASSUME PlannerInv, NEW t \in PlanTab, NEW k, NEW pc, NEW chosen, NEW servings,
           Start(t, k, pc, chosen, servings)
    PROVE  RequestsThere' /\ UNCHANGED meals
BY DEF PlannerInv, Start, Idle, RequestsThere

\* The steps of a request that leave the meals alone.
LEMMA QuietSteps ==
    ASSUME PlannerInv, NEW t \in PlanTab,
           \/ LookAtRecipe(t) \/ ReadServings(t) \/ Ensure(t) \/ AddCheck(t)
           \/ CopySource(t) \/ CopyTarget(t) \/ EditRecipe(t) \/ PlansUsing(t)
           \/ PrivateCheck(t) \/ SetVisibility(t) \/ RefreshStart(t) \/ ReadPlan(t)
           \/ StoreList(t) \/ CutOff(t) \/ \E m \in Meal : ReadRecipe(t, m)
    PROVE  RequestsThere' /\ UNCHANGED meals
<1>1. CASE LookAtRecipe(t) \/ Ensure(t) \/ AddCheck(t) \/ CopyTarget(t) \/ PlansUsing(t)
           \/ PrivateCheck(t) \/ SetVisibility(t) \/ StoreList(t) \/ CutOff(t) \/ EditRecipe(t)
  BY <1>1, RequestsStay DEF LookAtRecipe, Ensure, AddCheck, CopyTarget, PlansUsing, PrivateCheck,
     SetVisibility, StoreList, CutOff, EditRecipe
<1>2. CASE ReadServings(t)
  <2>1. CASE End(t)
    BY <1>2, <2>1, RequestsStay DEF ReadServings
  <2>2. CASE ~End(t)
    BY <1>2, <2>2 DEF ReadServings, PlannerInv, RequestsThere
  <2>3. QED
    BY <2>1, <2>2
<1>3. CASE CopySource(t)
  <2>1. CASE End(t)
    BY <1>3, <2>1, RequestsStay DEF CopySource
  <2>2. CASE ~End(t)
    BY <1>3, <2>2 DEF CopySource, PlannerInv, RequestsThere
  <2>3. QED
    BY <2>1, <2>2
<1>4. CASE RefreshStart(t)
  <2>1. CASE End(t)
    BY <1>4, <2>1, RequestsStay DEF RefreshStart
  <2>2. CASE ~End(t)
    BY <1>4, <2>2 DEF RefreshStart, PlannerInv, RequestsThere
  <2>3. QED
    BY <2>1, <2>2
<1>5. CASE ReadPlan(t)
  <2>1. CASE End(t)
    BY <1>5, <2>1, RequestsStay DEF ReadPlan
  <2>2. CASE ~End(t)
    BY <1>5, <2>2 DEF ReadPlan, PlannerInv, RequestsThere
  <2>3. QED
    BY <2>1, <2>2
<1>6. CASE \E m \in Meal : ReadRecipe(t, m)
  <2>1. PICK m \in Meal : ReadRecipe(t, m)
    BY <1>6
  <2> DEFINE seen    == CHOOSE e \in request[t].read : e.meal = m
             visible == ~recipe.private \/ t \in OwnerTab
             todo    == request[t].todo \ {m}
             read    == (request[t].read \ {seen}) \cup
                          (IF visible THEN {[seen EXCEPT !.edition = recipe.edition]} ELSE {})
             late    == request[t].late \/ ~visible
  <2>2. meals' = meals /\ request' = [request EXCEPT ![t].todo = todo, ![t].read = read, ![t].late = late]
    BY <2>1, Zenon DEF ReadRecipe
  <2> HIDE DEF todo, read, late
  <2>3. QED
    BY <2>2 DEF PlannerInv, RequestsThere
<1>7. QED
  BY <1>1, <1>2, <1>3, <1>4, <1>5, <1>6

\* What a step may do to the meals of the week.
KeepsMeals ==
    \A m \in In("target") :
        meals'[m] # meals[m] => \E t \in PlanTab : m \in request[t].meal /\ request'[t] # request[t]

LEMMA PlannerStep ==
    ASSUME PlannerInv, [PlannerNext]_plannerVars
    PROVE  PlannerInv' /\ KeepsMeals
<1>1. ASSUME RequestsThere', UNCHANGED meals PROVE PlannerInv' /\ KeepsMeals
  BY <1>1 DEF PlannerInv, RequestsThere, KeepsMeals
<1>2. ASSUME NEW t \in PlanTab, NEW k, NEW pc, NEW chosen, NEW servings,
             Start(t, k, pc, chosen, servings)
      PROVE  PlannerInv' /\ KeepsMeals
  BY <1>1, <1>2, DoorsKeep
<1>3. ASSUME NEW t \in PlanTab,
             \/ PlanAction(t) \/ MealPlansPost(t) \/ MealPlanItemPatch(t) \/ ClonePost(t)
             \/ GeneratePost(t) \/ ShoppingAction(t) \/ DetailAction(t) \/ RecipeEdit(t)
             \/ AddRecipeToPlan(t) \/ UpdateMealPlanServings(t) \/ CopyPreviousMealPlan(t)
             \/ GenerateShoppingList(t)
      PROVE  PlannerInv' /\ KeepsMeals
  BY <1>2, <1>3 DEF PlanAction, MealPlansPost, MealPlanItemPatch, ClonePost, GeneratePost, ShoppingAction,
     DetailAction, RecipeEdit, AddRecipeToPlan, UpdateMealPlanServings, CopyPreviousMealPlan,
     GenerateShoppingList
<1>4. ASSUME NEW t \in PlanTab,
             \/ LookAtRecipe(t) \/ ReadServings(t) \/ Ensure(t) \/ AddCheck(t)
             \/ CopySource(t) \/ CopyTarget(t) \/ EditRecipe(t) \/ PlansUsing(t)
             \/ PrivateCheck(t) \/ SetVisibility(t) \/ RefreshStart(t) \/ ReadPlan(t)
             \/ StoreList(t) \/ CutOff(t) \/ \E m \in Meal : ReadRecipe(t, m)
      PROVE  PlannerInv' /\ KeepsMeals
  BY <1>1, <1>4, QuietSteps
<1>5. ASSUME NEW t \in PlanTab, NEW m \in Meal, AddPush(t, m)
      PROVE  PlannerInv' /\ KeepsMeals
  <2>1. RequestsThere'
    BY <1>5, RequestsStay DEF AddPush
  <2>2. DOMAIN meals' = Meal /\ \A n \in Meal : n # m => meals'[n] = meals[n]
    BY <1>5 DEF AddPush, PlannerInv
  <2>3. meals[m].week = "none"
    BY <1>5 DEF AddPush, FreshMeals, In
  <2>4. QED
    BY <2>1, <2>2, <2>3 DEF PlannerInv, RequestsThere, KeepsMeals, In
<1>6. ASSUME NEW t \in PlanTab, RemoveItem(t)
      PROVE  PlannerInv' /\ KeepsMeals
  <2>1. RequestsThere' /\ request'[t].pc \in {"refresh", "idle"}
    BY <1>6, RequestsStay DEF RemoveItem
  <2>2. DOMAIN meals' = Meal /\ \A n \in Meal \ request[t].meal : meals'[n] = meals[n]
    BY <1>6 DEF RemoveItem
  <2>3. request'[t] # request[t]
    BY <1>6, <2>1 DEF RemoveItem, At
  <2>4. QED
    BY <2>1, <2>2, <2>3 DEF PlannerInv, RequestsThere, KeepsMeals, In
<1>7. ASSUME NEW t \in PlanTab, UpdateServings(t)
      PROVE  PlannerInv' /\ KeepsMeals
  <2>1. RequestsThere' /\ request'[t].pc \in {"refresh", "idle"}
    BY <1>7, RequestsStay DEF UpdateServings
  <2>2. DOMAIN meals' = Meal /\ \A n \in Meal \ request[t].meal : meals'[n] = meals[n]
    BY <1>7 DEF UpdateServings, PlannerInv
  <2>3. request'[t] # request[t]
    BY <1>7, <2>1 DEF UpdateServings, At
  <2>4. QED
    BY <2>1, <2>2, <2>3 DEF PlannerInv, RequestsThere, KeepsMeals, In
\* The copies are written only into a week without meals.
<1>8. ASSUME NEW t \in PlanTab, NEW new, CopyWrite(t, new)
      PROVE  PlannerInv' /\ KeepsMeals
  <2>1. RequestsThere'
    BY <1>8, RequestsStay DEF CopyWrite
  <2>2. DOMAIN meals' = Meal /\ (In("target") # {} => meals' = meals)
    BY <1>8 DEF CopyWrite, StillEmpty, PlannerInv
  <2>3. QED
    BY <2>1, <2>2 DEF PlannerInv, RequestsThere, KeepsMeals
<1>9. ASSUME NEW i \in DOMAIN lists, NEW checked \in BOOLEAN, ToggleMark(i, checked)
      PROVE  PlannerInv' /\ KeepsMeals
  BY <1>1, <1>9 DEF ToggleMark, PlannerInv, RequestsThere
<1>10. CASE UNCHANGED plannerVars
  BY <1>1, <1>10 DEF plannerVars, PlannerInv, RequestsThere
<1>11. QED
  BY <1>3, <1>4, <1>5, <1>6, <1>7, <1>8, <1>9, <1>10 DEF PlannerNext

\* A meal leaves its week, or gets other servings, only by a request for that meal,
\* for any number of meals and requests (plans.ts: copyWeek, addItem, removeItem).
THEOREM MealsAreKeptHolds == PlannerSpec => MealsAreKept
<1>1. PlannerInv /\ [PlannerNext]_plannerVars => PlannerInv'
  BY PlannerStep
<1>2. PlannerInv /\ [PlannerNext]_plannerVars => [KeepsMeals]_plannerVars
  BY PlannerStep
<1>3. [][KeepsMeals]_plannerVars <=> MealsAreKept
  BY DEF KeepsMeals, MealsAreKept
<1>4. QED
  BY <1>1, <1>2, <1>3, PlannerInitially, PTL DEF PlannerSpec

-------------------------------------------------------------------------------
(* The shopping list of a week.                                                *)

TabField == {"pc", "kind", "meal", "list", "todo", "read", "late"}

Shapes ==
    /\ DOMAIN meals = Meal /\ \A m \in Meal : "week" \in DOMAIN meals[m]
    /\ DOMAIN request = PlanTab /\ \A t \in PlanTab : TabField \subseteq DOMAIN request[t]
    /\ "edition" \in DOMAIN recipe
    /\ \E Line : lists \in Seq(Line)
    /\ \A i \in DOMAIN lists : "content" \in DOMAIN lists[i]

OneMeal(t) == \A a, b \in request[t].meal : a = b

\* What a handler has read of the plan is the plan, until the handler is late.
ReadsCurrent(t) ==
    request[t].pc = "recipes" =>
        /\ planned
        /\ request[t].late \/ (request[t].read = Current /\ request[t].todo \subseteq In("target"))

\* The tab is on its way to write what becomes the latest list.
WillRefresh(t) ==
    \/ request[t].pc = "refresh"
    \/ request[t].pc = "using" /\ In("target") # {}
    \/ /\ request[t].pc \in {"plan", "recipes"}
       /\ request[t].kind = "generate" \/ request[t].list = Len(lists)

ListIsComing ==
    ~overtaken /\ ~cut /\ lists # <<>> /\ lists[Len(lists)].content # Current
    => \E t \in PlanTab : WillRefresh(t)

ListInv ==
    /\ Shapes
    /\ \A t \in PlanTab : OneMeal(t) /\ ReadsCurrent(t)
    /\ lists # <<>> => planned
    /\ ListIsComing

LEMMA ListsInitially == PlannerInit => ListInv
<1> SUFFICES ASSUME PlannerInit PROVE ListInv
  OBVIOUS
<1>1. \A m \in Meal : "week" \in DOMAIN meals[m]
  BY DEF PlannerInit, NoMeal
<1>2. \A t \in PlanTab : request[t] = Idle
  BY DEF PlannerInit
<1>3. \A t \in PlanTab : TabField \subseteq DOMAIN request[t] /\ OneMeal(t) /\ ReadsCurrent(t)
  BY <1>2 DEF Idle, TabField, OneMeal, ReadsCurrent
<1>4. lists = <<>> /\ lists \in Seq({})
  BY DEF PlannerInit
<1>5. QED
  BY <1>1, <1>3, <1>4 DEF PlannerInit, ListInv, Shapes, ListIsComing

\* The week is the same, as a list adds it up.
LEMMA WeekStays ==
    ASSUME meals' = meals, recipe'.edition = recipe.edition
    PROVE  Current' = Current /\ In("target")' = In("target")
BY DEF Current, Entry, In

\* A step of one handler that changes neither the week nor a list.
LEMMA HandlerGoesOnPlanning ==
    ASSUME ListInv, NEW t \in PlanTab,
           Shapes', UNCHANGED <<meals, lists, overtaken>>, recipe'.edition = recipe.edition,
           planned => planned', cut => cut',
           \A u \in PlanTab \ {t} : request'[u] = request[u],
           OneMeal(t)', ReadsCurrent(t)', WillRefresh(t) => cut' \/ WillRefresh(t)'
    PROVE  ListInv'
<1>1. Current' = Current /\ In("target")' = In("target")
  BY WeekStays
<1>2. \A u \in PlanTab \ {t} : OneMeal(u)' /\ ReadsCurrent(u)' /\ (WillRefresh(u)' <=> WillRefresh(u))
  BY <1>1 DEF ListInv, OneMeal, ReadsCurrent, WillRefresh
<1>3. ListIsComing'
  BY <1>1, <1>2 DEF ListInv, ListIsComing
<1>4. QED
  BY <1>2, <1>3 DEF ListInv

\* A step that changes the week: it refreshes the list, and whoever was computing
\* one is late.
LEMMA WeekChanges ==
    ASSUME ListInv, NEW t \in PlanTab, NEW pc \in {"refresh", "using"}, Changed(t, pc),
           DOMAIN meals' = Meal, \A m \in Meal : "week" \in DOMAIN meals'[m],
           "edition" \in DOMAIN recipe', UNCHANGED <<planned, lists, overtaken, cut>>,
           pc = "refresh" \/ (meals' = meals /\ (In("target") = {} => Current' = Current)),
           ~ WillRefresh(t)
    PROVE  ListInv'
<1>1. /\ request'[t].pc = pc /\ request'[t].meal = request[t].meal /\ TabField \subseteq DOMAIN request'[t]
  BY DEF Changed, ListInv, Shapes, TabField
<1>2. ASSUME NEW u \in PlanTab \ {t}
      PROVE  /\ request'[u].pc = request[u].pc /\ request'[u].kind = request[u].kind
             /\ request'[u].list = request[u].list /\ request'[u].meal = request[u].meal
             /\ TabField \subseteq DOMAIN request'[u]
             /\ request[u].pc = "recipes" => request'[u].late
  BY <1>2 DEF Changed, ListInv, Shapes, TabField
<1>3. Shapes'
  <2>1. DOMAIN request' = PlanTab
    BY DEF Changed
  <2>2. QED
    BY <1>1, <1>2, <2>1 DEF ListInv, Shapes
<1>4. \A u \in PlanTab : OneMeal(u)' /\ ReadsCurrent(u)'
  BY <1>1, <1>2 DEF ListInv, OneMeal, ReadsCurrent
<1>5. ListIsComing'
  <2>1. CASE pc = "refresh"
    BY <1>1, <2>1 DEF ListIsComing, WillRefresh
  <2>2. CASE pc = "using" /\ In("target") # {}
    BY <1>1, <2>2 DEF ListIsComing, WillRefresh, In
  <2>3. CASE pc = "using" /\ In("target") = {}
    <3>1. Current' = Current /\ In("target")' = In("target")
      BY <2>3 DEF In
    <3>2. \A u \in PlanTab \ {t} : WillRefresh(u) => WillRefresh(u)'
      BY <1>2, <3>1 DEF WillRefresh
    <3>3. QED
      BY <3>1, <3>2 DEF ListInv, ListIsComing
  <2>4. QED
    BY <2>1, <2>2, <2>3
<1>6. QED
  BY <1>3, <1>4, <1>5 DEF ListInv

LEMMA ListDoorsOpen ==
    ASSUME ListInv, NEW t \in PlanTab, NEW k, NEW pc, NEW chosen, NEW servings,
           Start(t, k, pc, chosen, servings), pc # "recipes", \A a, b \in chosen : a = b
    PROVE  ListInv'
<1>1. /\ request[t].pc = "idle" /\ UNCHANGED <<meals, planned, recipe, lists, overtaken, cut>>
      /\ request' = [request EXCEPT ![t] = [Idle EXCEPT !.pc = pc, !.kind = k, !.meal = chosen,
                                                        !.servings = servings]]
  BY DEF Start
<1>2. request'[t].pc = pc /\ request'[t].meal = chosen /\ TabField \subseteq DOMAIN request'[t]
  BY <1>1 DEF Idle, ListInv, Shapes, TabField
<1>3. Shapes'
  BY <1>1, <1>2 DEF ListInv, Shapes
<1>4. OneMeal(t)' /\ ReadsCurrent(t)' /\ ~ WillRefresh(t)
  BY <1>1, <1>2 DEF OneMeal, ReadsCurrent, WillRefresh
<1>5. \A u \in PlanTab \ {t} : request'[u] = request[u]
  BY <1>1
<1>6. QED
  BY <1>1, <1>3, <1>4, <1>5, HandlerGoesOnPlanning

\* A handler goes on, or is over.
LEMMA GotoKeepsLists ==
    ASSUME ListInv, NEW t \in PlanTab, NEW pc, Goto(t, pc), pc # "recipes",
           UNCHANGED <<meals, recipe, lists, overtaken, cut>>, planned => planned',
           WillRefresh(t) => pc = "refresh"
    PROVE  ListInv'
<1>1. /\ request'[t].pc = pc /\ request'[t].meal = request[t].meal /\ TabField \subseteq DOMAIN request'[t]
      /\ DOMAIN request' = PlanTab /\ \A u \in PlanTab \ {t} : request'[u] = request[u]
  BY DEF Goto, ListInv, Shapes, TabField
<1>2. Shapes'
  BY <1>1 DEF ListInv, Shapes
<1>3. OneMeal(t)' /\ ReadsCurrent(t)' /\ (WillRefresh(t) => WillRefresh(t)')
  BY <1>1 DEF ListInv, OneMeal, ReadsCurrent, WillRefresh
<1>4. QED
  BY <1>1, <1>2, <1>3, HandlerGoesOnPlanning

LEMMA EndKeepsLists ==
    ASSUME ListInv, NEW t \in PlanTab, End(t), "edition" \in DOMAIN recipe',
           recipe'.edition = recipe.edition,
           UNCHANGED <<meals, planned, lists, overtaken>>, cut => cut', WillRefresh(t) => cut'
    PROVE  ListInv'
<1>1. /\ request'[t] = Idle /\ DOMAIN request' = PlanTab
      /\ \A u \in PlanTab \ {t} : request'[u] = request[u]
  BY DEF End, ListInv, Shapes
<1>2. Shapes'
  BY <1>1 DEF ListInv, Shapes, Idle, TabField
<1>3. OneMeal(t)' /\ ReadsCurrent(t)'
  BY <1>1 DEF OneMeal, ReadsCurrent, Idle
<1>4. QED
  BY <1>1, <1>2, <1>3, HandlerGoesOnPlanning

\* The handlers before and after the change of the week.
LEMMA HandlersKeepLists ==
    ASSUME ListInv, NEW t \in PlanTab,
           \/ LookAtRecipe(t) \/ ReadServings(t) \/ Ensure(t) \/ AddCheck(t) \/ CopySource(t)
           \/ CopyTarget(t) \/ PlansUsing(t) \/ PrivateCheck(t) \/ SetVisibility(t) \/ CutOff(t)
    PROVE  ListInv'
<1>1. CASE LookAtRecipe(t) \/ Ensure(t) \/ AddCheck(t) \/ CopyTarget(t) \/ PrivateCheck(t)
  <2>1. ~ WillRefresh(t)
    BY <1>1 DEF LookAtRecipe, Ensure, AddCheck, CopyTarget, PrivateCheck, At, WillRefresh
  <2>2. UNCHANGED <<meals, recipe, lists, overtaken, cut>>
    BY <1>1 DEF LookAtRecipe, Ensure, AddCheck, CopyTarget, PrivateCheck
  <2>p. planned' = planned \/ (planned' /\ ~ End(t))
    <3>1. CASE Ensure(t)
      <4>1. request'[t].pc # "idle" /\ planned'
        BY <3>1 DEF Ensure, Goto, ListInv, Shapes, TabField
      <4>2. ~ End(t)
        BY <4>1 DEF End, Idle, ListInv, Shapes
      <4>3. QED
        BY <4>1, <4>2
    <3>2. CASE ~ Ensure(t)
      BY <1>1, <3>2 DEF LookAtRecipe, AddCheck, CopyTarget, PrivateCheck
    <3>3. QED
      BY <3>1, <3>2
  <2>3. End(t) \/ \E pc \in {"ensure", "target", "share", "push", "copy", "visible"} : Goto(t, pc)
    BY <1>1 DEF LookAtRecipe, Ensure, AddCheck, CopyTarget, PrivateCheck
  <2>4. CASE End(t)
    <3>1. /\ "edition" \in DOMAIN recipe' /\ recipe'.edition = recipe.edition
          /\ UNCHANGED <<meals, planned, lists, overtaken>> /\ (cut => cut')
      BY <2>2, <2>p, <2>4 DEF ListInv, Shapes
    <3>2. QED
      BY <2>1, <2>4, <3>1, EndKeepsLists
  <2>5. ASSUME NEW pc \in {"ensure", "target", "share", "push", "copy", "visible"}, Goto(t, pc) PROVE ListInv'
    <3>1. UNCHANGED <<meals, recipe, lists, overtaken, cut>> /\ (planned => planned') /\ pc # "recipes"
      BY <2>2, <2>p
    <3>2. QED
      BY <2>1, <2>5, <3>1, GotoKeepsLists
  <2>6. QED
    BY <2>3, <2>4, <2>5
<1>2. CASE ReadServings(t) \/ CopySource(t)
  <2>1. ~ WillRefresh(t) /\ UNCHANGED <<meals, planned, recipe, lists, overtaken, cut>>
    BY <1>2 DEF ReadServings, CopySource, At, WillRefresh
  <2>2. CASE End(t)
    BY <2>1, <2>2, EndKeepsLists DEF ListInv, Shapes
  <2>3. CASE ~ End(t)
    <3>1. \/ \E servings : request' = [request EXCEPT ![t].pc = "set", ![t].servings = servings]
          \/ \E from : request' = [request EXCEPT ![t].pc = "ensure", ![t].source = from]
      BY <1>2, <2>3 DEF ReadServings, CopySource
    <3>2. /\ request'[t].pc \in {"set", "ensure"} /\ request'[t].meal = request[t].meal
          /\ TabField \subseteq DOMAIN request'[t] /\ DOMAIN request' = PlanTab
          /\ \A u \in PlanTab \ {t} : request'[u] = request[u]
      BY <3>1 DEF ListInv, Shapes, TabField
    <3>3. Shapes'
      BY <2>1, <3>2 DEF ListInv, Shapes
    <3>4. OneMeal(t)' /\ ReadsCurrent(t)'
      BY <3>2 DEF ListInv, OneMeal, ReadsCurrent
    <3>5. QED
      BY <2>1, <3>2, <3>3, <3>4, HandlerGoesOnPlanning
  <2>4. QED
    BY <2>2, <2>3
<1>3. CASE PlansUsing(t)
  <2>1. request[t].pc = "using" /\ UNCHANGED <<meals, planned, recipe, lists, overtaken, cut>>
    BY <1>3 DEF PlansUsing, At
  <2>2. CASE In("target") = {}
    BY <1>3, <2>1, <2>2, EndKeepsLists DEF PlansUsing, WillRefresh, ListInv, Shapes
  <2>3. CASE In("target") # {}
    BY <1>3, <2>1, <2>3, GotoKeepsLists DEF PlansUsing
  <2>4. QED
    BY <2>2, <2>3
<1>4. CASE SetVisibility(t)
  <2>1. ~ WillRefresh(t) /\ End(t) /\ UNCHANGED <<meals, planned, lists, overtaken, cut>>
    BY <1>4 DEF SetVisibility, At, WillRefresh
  <2>2. "edition" \in DOMAIN recipe' /\ recipe'.edition = recipe.edition
    <3>1. PICK private : recipe' = [recipe EXCEPT !.private = private]
      BY <1>4 DEF SetVisibility
    <3>2. QED
      BY <3>1 DEF ListInv, Shapes
  <2>3. QED
    BY <2>1, <2>2, EndKeepsLists
<1>5. CASE CutOff(t)
  BY <1>5, EndKeepsLists DEF CutOff, ListInv, Shapes
<1>6. QED
  BY <1>1, <1>2, <1>3, <1>4, <1>5

\* The changes of the week.
LEMMA ChangesKeepLists ==
    ASSUME ListInv, NEW t \in PlanTab,
           \/ \E m \in Meal : AddPush(t, m)
           \/ RemoveItem(t) \/ UpdateServings(t) \/ EditRecipe(t) \/ \E new : CopyWrite(t, new)
    PROVE  ListInv'
<1>s. Shapes /\ ~ WillRefresh(t)
  BY DEF ListInv, AddPush, RemoveItem, UpdateServings, EditRecipe, CopyWrite, At, WillRefresh
<1>1. CASE \E m \in Meal : AddPush(t, m)
  <2>1. PICK m \in Meal : AddPush(t, m)
    BY <1>1
  <2>2. DOMAIN meals' = Meal /\ \A n \in Meal : "week" \in DOMAIN meals'[n]
    BY <1>s, <2>1 DEF AddPush, NoMeal, Shapes
  <2>3. QED
    BY <1>s, <2>1, <2>2, WeekChanges DEF AddPush, Shapes
<1>2. CASE RemoveItem(t)
  <2>1. DOMAIN meals' = Meal /\ \A n \in Meal : "week" \in DOMAIN meals'[n]
    BY <1>s, <1>2 DEF RemoveItem, Shapes
  <2>2. UNCHANGED <<planned, recipe, lists, overtaken, cut>>
    BY <1>2 DEF RemoveItem
  <2>3. CASE request[t].meal \subseteq In("target")
    BY <1>s, <1>2, <2>1, <2>2, <2>3, WeekChanges DEF RemoveItem, Shapes
  \* No plan has the item any more.
  <2>4. CASE ~ request[t].meal \subseteq In("target")
    <3>1. End(t) /\ request[t].meal \cap In("target") = {}
      BY <1>2, <2>4 DEF RemoveItem, ListInv, OneMeal
    <3>2. In("target")' = In("target") /\ \A m \in In("target") : meals'[m] = meals[m]
      BY <1>s, <1>2, <3>1 DEF RemoveItem, In, Shapes
    <3>3. \A m \in In("target") : Entry(m)' = Entry(m)
      BY <2>2, <3>2 DEF Entry
    <3>4. Current' = Current
      BY <3>2, <3>3 DEF Current
    <3>5. /\ request'[t] = Idle /\ DOMAIN request' = PlanTab
          /\ \A u \in PlanTab \ {t} : request'[u] = request[u]
      BY <1>s, <3>1 DEF End, Shapes
    <3>6. Shapes'
      BY <1>s, <2>1, <2>2, <3>5 DEF Shapes, Idle, TabField
    <3>7. \A u \in PlanTab : OneMeal(u)' /\ ReadsCurrent(u)'
      BY <2>2, <3>2, <3>4, <3>5 DEF ListInv, OneMeal, ReadsCurrent, Idle
    <3>8. \A u \in PlanTab : WillRefresh(u) => WillRefresh(u)'
      BY <1>s, <2>2, <3>2, <3>5 DEF WillRefresh
    <3>9. ListIsComing'
      BY <2>2, <3>4, <3>8 DEF ListInv, ListIsComing
    <3>10. QED
      BY <2>2, <3>6, <3>7, <3>9 DEF ListInv
  <2>5. QED
    BY <2>3, <2>4
<1>3. CASE UpdateServings(t)
  <2>1. UNCHANGED <<planned, recipe, lists, overtaken, cut>>
    BY <1>3 DEF UpdateServings
  <2>2. CASE request[t].meal \cap In("target") = {}
    BY <1>s, <1>3, <2>1, <2>2, EndKeepsLists DEF UpdateServings, Shapes
  <2>3. CASE request[t].meal \cap In("target") # {}
    <3>1. DOMAIN meals' = Meal /\ \A n \in Meal : "week" \in DOMAIN meals'[n]
      BY <1>s, <1>3, <2>3 DEF UpdateServings, Shapes
    <3>2. QED
      BY <1>s, <1>3, <2>1, <2>3, <3>1, WeekChanges DEF UpdateServings, Shapes
  <2>4. QED
    BY <2>2, <2>3
<1>4. CASE EditRecipe(t)
  <2>1. Changed(t, "using") /\ UNCHANGED <<meals, planned, lists, overtaken, cut>> /\ "edition" \in DOMAIN recipe'
    BY <1>s, <1>4 DEF EditRecipe, Shapes
  <2>2. In("target") = {} => Current' = Current
    BY <2>1 DEF Current, In
  <2>3. QED
    BY <1>s, <2>1, <2>2, WeekChanges DEF Shapes
<1>5. CASE \E new : CopyWrite(t, new)
  <2>1. PICK new : CopyWrite(t, new)
    BY <1>5
  <2>2. UNCHANGED <<planned, recipe, lists, overtaken, cut>>
    BY <2>1 DEF CopyWrite
  <2>3. CASE StillEmpty
    <3>1. DOMAIN meals' = Meal /\ \A n \in Meal : "week" \in DOMAIN meals'[n]
      <4>1. DOMAIN meals' = Meal
        BY <2>1, <2>3 DEF CopyWrite
      <4>2. ASSUME NEW n \in Meal
            PROVE  \/ \E servings : meals'[n] = [week |-> "target", servings |-> servings]
                   \/ meals'[n] = [meals[n] EXCEPT !.week = "removed"]
                   \/ meals'[n] = meals[n]
        BY <2>1, <2>3 DEF CopyWrite
      <4>3. QED
        BY <1>s, <4>1, <4>2 DEF Shapes
    <3>2. QED
      BY <1>s, <2>1, <2>2, <2>3, <3>1, WeekChanges DEF CopyWrite, Shapes
  <2>4. CASE ~ StillEmpty
    BY <1>s, <2>1, <2>2, <2>4, GotoKeepsLists DEF CopyWrite
  <2>5. QED
    BY <2>3, <2>4
<1>6. QED
  BY <1>1, <1>2, <1>3, <1>4, <1>5

\* The commands that compute a list.
LEMMA ReadingKeepsLists ==
    ASSUME ListInv, NEW t \in PlanTab,
           RefreshStart(t) \/ ReadPlan(t) \/ \E m \in Meal : ReadRecipe(t, m)
    PROVE  ListInv'
<1>0. UNCHANGED <<meals, planned, recipe, lists, overtaken, cut>>
  <2>1. (\E m \in Meal : ReadRecipe(t, m)) => UNCHANGED <<meals, planned, recipe, lists, overtaken, cut>>
    BY Zenon DEF ReadRecipe
  <2>2. QED
    BY <2>1 DEF RefreshStart, ReadPlan
<1>w. Current' = Current /\ In("target")' = In("target")
  BY <1>0, WeekStays
<1>1. CASE RefreshStart(t)
  <2>1. CASE lists = <<>>
    <3>1. /\ request'[t] = Idle /\ DOMAIN request' = PlanTab
          /\ \A u \in PlanTab \ {t} : request'[u] = request[u]
      BY <1>1, <2>1 DEF RefreshStart, End, ListInv, Shapes
    <3>2. Shapes'
      BY <1>0, <3>1 DEF ListInv, Shapes, Idle, TabField
    <3>3. \A u \in PlanTab : OneMeal(u)' /\ ReadsCurrent(u)'
      BY <1>0, <1>w, <3>1 DEF ListInv, OneMeal, ReadsCurrent, Idle
    <3>4. QED
      BY <1>0, <2>1, <3>2, <3>3 DEF ListInv, ListIsComing
  <2>2. CASE lists # <<>>
    <3> DEFINE list   == Len(lists)
               marked == lists[list].marked
    <3>1. request' = [request EXCEPT ![t].pc = "plan", ![t].list = list, ![t].marked = marked]
      BY <1>1, <2>2, Zenon DEF RefreshStart
    <3> HIDE DEF marked
    <3>2. /\ request'[t].pc = "plan" /\ request'[t].list = Len(lists) /\ request'[t].meal = request[t].meal
          /\ TabField \subseteq DOMAIN request'[t] /\ DOMAIN request' = PlanTab
          /\ \A u \in PlanTab \ {t} : request'[u] = request[u]
      BY <3>1 DEF ListInv, Shapes, TabField
    <3>3. Shapes'
      BY <1>0, <3>2 DEF ListInv, Shapes
    <3>4. OneMeal(t)' /\ ReadsCurrent(t)' /\ WillRefresh(t)'
      BY <1>0, <3>2 DEF ListInv, OneMeal, ReadsCurrent, WillRefresh
    <3>5. QED
      BY <1>0, <3>2, <3>3, <3>4, HandlerGoesOnPlanning
  <2>3. QED
    BY <2>1, <2>2
<1>2. CASE ReadPlan(t)
  <2>1. CASE ~ planned
    <3>1. /\ request'[t] = Idle /\ DOMAIN request' = PlanTab
          /\ \A u \in PlanTab \ {t} : request'[u] = request[u]
      BY <1>2, <2>1 DEF ReadPlan, End, ListInv, Shapes
    <3>2. Shapes'
      BY <1>0, <3>1 DEF ListInv, Shapes, Idle, TabField
    <3>3. \A u \in PlanTab : OneMeal(u)' /\ ReadsCurrent(u)'
      BY <1>0, <1>w, <3>1 DEF ListInv, OneMeal, ReadsCurrent, Idle
    <3>4. QED
      BY <1>0, <2>1, <3>2, <3>3 DEF ListInv, ListIsComing
  <2>2. CASE planned
    <3> DEFINE todo == In("target")
               read == Current
    <3>1. request' = [request EXCEPT ![t].pc = "recipes", ![t].todo = todo, ![t].read = read, ![t].late = FALSE]
      BY <1>2, <2>2, Zenon DEF ReadPlan
    <3> HIDE DEF todo, read
    <3>2. /\ request'[t].pc = "recipes" /\ request'[t].list = request[t].list
          /\ request'[t].kind = request[t].kind /\ request'[t].meal = request[t].meal
          /\ request'[t].todo = todo /\ request'[t].read = read
          /\ TabField \subseteq DOMAIN request'[t] /\ DOMAIN request' = PlanTab
          /\ \A u \in PlanTab \ {t} : request'[u] = request[u]
      BY <3>1 DEF ListInv, Shapes, TabField
    <3>3. Shapes'
      BY <1>0, <3>2 DEF ListInv, Shapes
    <3>4. OneMeal(t)' /\ ReadsCurrent(t)'
      BY <1>0, <1>w, <2>2, <3>2 DEF ListInv, OneMeal, ReadsCurrent, todo, read
    <3>5. WillRefresh(t) => WillRefresh(t)'
      BY <1>0, <1>2, <3>2 DEF ReadPlan, At, WillRefresh
    <3>6. QED
      BY <1>0, <3>2, <3>3, <3>4, <3>5, HandlerGoesOnPlanning
  <2>3. QED
    BY <2>1, <2>2
<1>3. CASE \E m \in Meal : ReadRecipe(t, m)
  <2>1. PICK m \in Meal : ReadRecipe(t, m)
    BY <1>3
  <2> DEFINE seen    == CHOOSE e \in request[t].read : e.meal = m
             visible == ~recipe.private \/ t \in OwnerTab
             todo    == request[t].todo \ {m}
             read    == (request[t].read \ {seen}) \cup
                          (IF visible THEN {[seen EXCEPT !.edition = recipe.edition]} ELSE {})
             late    == request[t].late \/ ~visible
  <2>2. /\ request[t].pc = "recipes" /\ m \in request[t].todo
        /\ request' = [request EXCEPT ![t].todo = todo, ![t].read = read, ![t].late = late]
    BY <2>1, Zenon DEF ReadRecipe, At
  <2>m. m \in request[t].todo
    BY <2>1, Zenon DEF ReadRecipe
  <2>3. planned /\ (request[t].late \/ (request[t].read = Current /\ request[t].todo \subseteq In("target")))
    BY <2>2, Zenon DEF ListInv, ReadsCurrent
  \* The entry that is read again is the entry of the plan.
  <2>4. late \/ (read = Current /\ todo \subseteq In("target"))
    <3> SUFFICES ASSUME ~ late PROVE read = Current /\ todo \subseteq In("target")
      OBVIOUS
    <3>1. visible /\ request[t].read = Current /\ request[t].todo \subseteq In("target")
      BY <2>3
    <3>2. Entry(m) \in Current /\ Entry(m).meal = m /\ Entry(m).edition = recipe.edition
      <4>1. m \in In("target")
        BY <2>m, <3>1
      <4>2. Entry(m) \in Current
        BY <4>1 DEF Current
      <4>3. QED
        BY <4>2 DEF Entry
    <3>3. \A e \in Current : e.meal = m => e = Entry(m)
      BY DEF Current, Entry
    <3>4. seen = Entry(m)
      BY <3>1, <3>2, <3>3
    <3>5. [seen EXCEPT !.edition = recipe.edition] = Entry(m)
      <4>1. ASSUME NEW e, NEW servings, NEW edition, NEW k,
                   e = [meal |-> m, servings |-> servings, edition |-> edition],
                   k = [e EXCEPT !.edition = edition]
            PROVE  k = e
        BY <4>1
      <4>2. \A e : e = Entry(m) => [e EXCEPT !.edition = recipe.edition] = e
        BY <4>1 DEF Entry
      <4>3. QED
        BY <3>4, <4>2
    <3>6. QED
      BY <3>1, <3>2, <3>4, <3>5
  <2> HIDE DEF todo, read, late
  <2>5. /\ request'[t].pc = "recipes" /\ request'[t].list = request[t].list
        /\ request'[t].kind = request[t].kind /\ request'[t].meal = request[t].meal
        /\ request'[t].todo = todo /\ request'[t].read = read /\ request'[t].late = late
        /\ TabField \subseteq DOMAIN request'[t] /\ DOMAIN request' = PlanTab
        /\ \A u \in PlanTab \ {t} : request'[u] = request[u]
    BY <2>2 DEF ListInv, Shapes, TabField
  <2>6. Shapes'
    BY <1>0, <2>5 DEF ListInv, Shapes
  <2>7. OneMeal(t)'
    BY <2>5 DEF ListInv, OneMeal
  <2>8. ReadsCurrent(t)'
    BY <1>0, <1>w, <2>3, <2>4, <2>5, Zenon DEF ReadsCurrent
  <2>9. WillRefresh(t) => WillRefresh(t)'
    BY <1>0, <2>2, <2>5 DEF WillRefresh
  <2>10. QED
    BY <1>0, <2>5, <2>6, <2>7, <2>8, <2>9, HandlerGoesOnPlanning
<1>4. QED
  BY <1>1, <1>2, <1>3

\* The list is written: it is the week as it is, unless the handler is late.
LEMMA StoreKeepsLists ==
    ASSUME ListInv, NEW t \in PlanTab, StoreList(t)
    PROVE  ListInv'
<1> DEFINE stored == [content |-> request[t].read, marked |-> request[t].marked /\ request[t].read # {}]
           at     == request[t].list
<1>1. /\ request[t].pc = "recipes" /\ End(t) /\ UNCHANGED <<meals, planned, recipe, cut>>
      /\ IF request[t].kind = "generate" THEN lists' = Append(lists, stored)
         ELSE lists' = [lists EXCEPT ![at] = stored]
  BY Zenon DEF StoreList, At
<1>2. ~ overtaken' => ~ overtaken /\ ~ request[t].late
  BY Zenon DEF StoreList
<1>3. planned /\ (~ overtaken' => request[t].read = Current)
  BY <1>1, <1>2, Zenon DEF ListInv, ReadsCurrent
<1>4. stored.content = request[t].read /\ "content" \in DOMAIN stored
  OBVIOUS
<1> HIDE DEF stored
<1>5. Current' = Current /\ In("target")' = In("target")
  <2>1. meals' = meals /\ recipe' = recipe
    BY <1>1
  <2>2. QED
    BY <2>1, WeekStays
<1>6. /\ request'[t] = Idle /\ DOMAIN request' = PlanTab
      /\ \A u \in PlanTab \ {t} : request'[u] = request[u]
  BY <1>1 DEF End, ListInv, Shapes
<1>7. PICK Line : lists \in Seq(Line)
  BY DEF ListInv, Shapes
<1>8. /\ \E OneMore : lists' \in Seq(OneMore)
      /\ \A i \in DOMAIN lists' : "content" \in DOMAIN lists'[i]
      /\ ~ overtaken' /\ lists' # <<>> /\ lists'[Len(lists')].content # Current
         => /\ request[t].kind # "generate" /\ at # Len(lists)
            /\ Len(lists') = Len(lists) /\ lists # <<>> /\ lists[Len(lists)] = lists'[Len(lists)]
  <2> DEFINE OneMore == Line \cup {stored}
  <2>1. lists \in Seq(OneMore) /\ stored \in OneMore
    BY <1>7
  <2>2. \A i \in DOMAIN lists : "content" \in DOMAIN lists[i]
    BY DEF ListInv, Shapes
  <2>3. CASE request[t].kind = "generate"
    <3>1. lists' = Append(lists, stored)
      BY <1>1, <2>3
    <3>2. /\ lists' \in Seq(OneMore) /\ Len(lists') = Len(lists) + 1 /\ lists'[Len(lists')] = stored
          /\ \A i \in DOMAIN lists' : (i \in DOMAIN lists /\ lists'[i] = lists[i]) \/ lists'[i] = stored
      BY <2>1, <3>1
    <3>3. \A i \in DOMAIN lists' : "content" \in DOMAIN lists'[i]
      BY <1>4, <2>2, <3>2
    <3>4. QED
      BY <1>3, <1>4, <3>2, <3>3
  <2>4. CASE request[t].kind # "generate"
    <3>1. lists' = [lists EXCEPT ![at] = stored]
      BY <1>1, <2>4
    <3>2. lists' \in Seq(OneMore) /\ Len(lists') = Len(lists) /\ DOMAIN lists' = DOMAIN lists
      <4>1. Len(lists) \in Nat /\ lists \in [1 .. Len(lists) -> OneMore]
        BY <2>1
      <4>2. lists' \in [1 .. Len(lists) -> OneMore]
        BY <2>1, <3>1, <4>1
      <4>3. QED
        BY <4>1, <4>2
    <3>3. \A i \in DOMAIN lists : lists'[i] = IF i = at THEN stored ELSE lists[i]
      BY <2>1, <3>1
    <3>4. lists' # <<>> => lists # <<>> /\ Len(lists) \in DOMAIN lists
      BY <2>1, <3>2
    <3>5. QED
      BY <1>3, <1>4, <2>2, <2>4, <3>2, <3>3, <3>4
  <2>5. QED
    BY <2>3, <2>4
<1>9. Shapes'
  BY <1>1, <1>6, <1>8 DEF ListInv, Shapes, Idle, TabField
<1>10. \A u \in PlanTab : OneMeal(u)' /\ ReadsCurrent(u)'
  BY <1>1, <1>5, <1>6 DEF ListInv, OneMeal, ReadsCurrent, Idle
<1>11. ListIsComing'
  <2> SUFFICES ASSUME ~ overtaken', ~ cut', lists' # <<>>, lists'[Len(lists')].content # Current
               PROVE  \E u \in PlanTab : WillRefresh(u)'
    BY <1>5 DEF ListIsComing
  <2>1. /\ request[t].kind # "generate" /\ at # Len(lists)
        /\ Len(lists') = Len(lists) /\ lists # <<>> /\ lists[Len(lists)] = lists'[Len(lists)]
    BY <1>8
  <2>2. PICK u \in PlanTab : WillRefresh(u)
    BY <1>1, <1>2, <2>1 DEF ListInv, ListIsComing
  <2>3. u # t
    BY <1>1, <2>1, <2>2 DEF WillRefresh
  <2>4. WillRefresh(u)'
    BY <1>5, <1>6, <2>1, <2>2, <2>3 DEF WillRefresh
  <2>5. QED
    BY <2>4
<1>12. QED
  BY <1>1, <1>3, <1>9, <1>10, <1>11 DEF ListInv

LEMMA ToggleKeepsLists ==
    ASSUME ListInv, NEW i \in DOMAIN lists, NEW checked \in BOOLEAN, ToggleMark(i, checked)
    PROVE  ListInv'
<1>1. /\ lists' = [lists EXCEPT ![i] = [lists[i] EXCEPT !.marked = checked]]
      /\ UNCHANGED <<meals, planned, recipe, request, overtaken, cut>>
  BY DEF ToggleMark
<1>2. PICK Line : lists \in Seq(Line)
  BY DEF ListInv, Shapes
<1> DEFINE line == [lists[i] EXCEPT !.marked = checked]
<1>3. line.content = lists[i].content /\ "content" \in DOMAIN line
  BY DEF ListInv, Shapes
<1> HIDE DEF line
<1>4. /\ lists' \in Seq(Line \cup {line}) /\ Len(lists') = Len(lists) /\ DOMAIN lists' = DOMAIN lists
      /\ \A j \in DOMAIN lists : lists'[j] = IF j = i THEN line ELSE lists[j]
      /\ Len(lists) \in DOMAIN lists /\ lists # <<>>
  <2>1. lists \in Seq(Line \cup {line}) /\ lists' = [lists EXCEPT ![i] = line]
    BY <1>1, <1>2 DEF line
  <2>2. QED
    BY <2>1
<1>5. Shapes'
  BY <1>1, <1>3, <1>4 DEF ListInv, Shapes
<1>6. Current' = Current /\ In("target")' = In("target")
  BY <1>1, WeekStays
<1>7. \A u \in PlanTab : OneMeal(u)' /\ ReadsCurrent(u)' /\ (WillRefresh(u)' <=> WillRefresh(u))
  BY <1>1, <1>4, <1>6 DEF ListInv, OneMeal, ReadsCurrent, WillRefresh
<1>8. lists'[Len(lists')].content = lists[Len(lists)].content
  BY <1>3, <1>4
<1>9. ListIsComing'
  BY <1>1, <1>4, <1>6, <1>7, <1>8 DEF ListInv, ListIsComing
<1>10. QED
  BY <1>1, <1>4, <1>5, <1>7, <1>9 DEF ListInv

LEMMA ListsKept == ListInv /\ [PlannerNext]_plannerVars => ListInv'
<1> SUFFICES ASSUME ListInv, [PlannerNext]_plannerVars PROVE ListInv'
  OBVIOUS
<1>1. ASSUME NEW t \in PlanTab,
             \/ PlanAction(t) \/ MealPlansPost(t) \/ MealPlanItemPatch(t) \/ ClonePost(t)
             \/ GeneratePost(t) \/ ShoppingAction(t) \/ DetailAction(t) \/ RecipeEdit(t)
             \/ AddRecipeToPlan(t) \/ UpdateMealPlanServings(t) \/ CopyPreviousMealPlan(t)
             \/ GenerateShoppingList(t)
      PROVE  ListInv'
  <2>1. ASSUME NEW k, NEW pc, NEW servings, pc # "recipes",
               Start(t, k, pc, {}, servings) \/ \E m : Start(t, k, pc, {m}, servings)
        PROVE  ListInv'
    <3>1. ASSUME NEW chosen, Start(t, k, pc, chosen, servings), \A a, b \in chosen : a = b
          PROVE  ListInv'
      BY <2>1, <3>1, ListDoorsOpen
    <3>2. /\ \A a, b \in {} : a = b
          /\ \A m : \A a, b \in {m} : a = b
      OBVIOUS
    <3>3. CASE Start(t, k, pc, {}, servings)
      BY <3>1, <3>2, <3>3
    <3>4. CASE \E m : Start(t, k, pc, {m}, servings)
      BY <3>1, <3>2, <3>4
    <3>5. QED
      BY <2>1, <3>3, <3>4
  <2>2. QED
    BY <1>1, <2>1 DEF PlanAction, MealPlansPost, MealPlanItemPatch, ClonePost, GeneratePost, ShoppingAction,
       DetailAction, RecipeEdit, AddRecipeToPlan, UpdateMealPlanServings, CopyPreviousMealPlan,
       GenerateShoppingList
<1>2. ASSUME NEW t \in PlanTab,
             \/ LookAtRecipe(t) \/ ReadServings(t) \/ Ensure(t) \/ AddCheck(t) \/ CopySource(t)
             \/ CopyTarget(t) \/ PlansUsing(t) \/ PrivateCheck(t) \/ SetVisibility(t) \/ CutOff(t)
      PROVE  ListInv'
  BY <1>2, HandlersKeepLists
<1>3. ASSUME NEW t \in PlanTab,
             \/ \E m \in Meal : AddPush(t, m)
             \/ RemoveItem(t) \/ UpdateServings(t) \/ EditRecipe(t) \/ \E new : CopyWrite(t, new)
      PROVE  ListInv'
  BY <1>3, ChangesKeepLists
<1>4. ASSUME NEW t \in PlanTab,
             RefreshStart(t) \/ ReadPlan(t) \/ \E m \in Meal : ReadRecipe(t, m)
      PROVE  ListInv'
  BY <1>4, ReadingKeepsLists
<1>5. ASSUME NEW t \in PlanTab, StoreList(t) PROVE ListInv'
  BY <1>5, StoreKeepsLists
<1>6. ASSUME NEW i \in DOMAIN lists, NEW checked \in BOOLEAN, ToggleMark(i, checked) PROVE ListInv'
  BY <1>6, ToggleKeepsLists
<1>7. CASE UNCHANGED plannerVars
  BY <1>7 DEF plannerVars, ListInv, Shapes, OneMeal, ReadsCurrent, ListIsComing, WillRefresh, In, Entry, Current
<1>8. QED
  BY <1>1, <1>2, <1>3, <1>4, <1>5, <1>6, <1>7 DEF PlannerNext

\* Once nothing is in flight the latest list adds up the week as it is, unless a list
\* was stored late or without a hidden recipe, or a request was cut off: every change
\* of the week or of a recipe in it leaves a handler that will refresh (shopping.ts:
\* refreshPlan, refreshRecipe, generate).
THEOREM RestingListIsCurrentHolds == PlannerSpec => []RestingListIsCurrent
<1>1. ListInv => RestingListIsCurrent
  BY DEF ListInv, ListIsComing, WillRefresh, RestingListIsCurrent
<1>2. QED
  BY <1>1, ListsInitially, ListsKept, PTL DEF PlannerSpec

-------------------------------------------------------------------------------
(* The catalogue import.                                                       *)

SheetRow == 1 .. FileLength
ImportPlace == {"off", "read", "checkpoint", "facets", "finish"}

WebImportTypeOK ==
    /\ sheet \in [SheetRow -> FileRow]
    /\ catalog \in [SourceId -> 0 .. FileLength]
    /\ \A i \in SourceId : catalog[i] # 0 => sheet[catalog[i]].id = i
    /\ importRun \in [status : {"none", "running", "failed", "paused", "completed"},
                      checkpoint : 0 .. FileLength, imported : Int, rejected : Int]
    /\ importer \in [at : ImportPlace, limit : Nat, start : 0 .. FileLength, row : 0 .. FileLength,
                     imported : Nat, batch : SUBSET SheetRow]
    /\ caught \in BOOLEAN

\* Until it has passed the rows it skips, a process has neither a batch nor anything
\* imported; from there on its batch are the rows since the checkpoint.
BatchSinceCheckpoint ==
    importer.at # "off" =>
        /\ importer.batch = importRun.checkpoint + 1 .. importer.row
        /\ importer.start <= importRun.checkpoint
        /\ importer.row <= importer.start => importer.imported = 0
        /\ IF importer.row < importer.start
           THEN importer.at = "read" /\ importRun.checkpoint = importer.start
           ELSE importRun.checkpoint <= importer.row

\* A batch that has been flushed is accounted for before it is counted.
FlushedIsAccounted ==
    importer.at \in {"checkpoint", "facets", "finish"} => \A r \in importer.batch : Accounted(r)

UpToCheckpoint ==
    /\ \A r \in 1 .. importRun.checkpoint : Accounted(r)
    /\ importRun.imported + importRun.rejected = importRun.checkpoint

\* The counts of the tags are right from the moment they are refreshed.
TagsCounted ==
    importRun.status \in {"completed", "paused"} \/ importer.at = "finish" =>
        \A t \in TagName : tagDocs[t] \in {-1, TagUses(t)}

DurableInv ==
    /\ WebImportTypeOK
    /\ importer.at # "off" => importRun.status = "running"
    /\ TagsCounted
    /\ ~caught => BatchSinceCheckpoint /\ FlushedIsAccounted /\ UpToCheckpoint

\* Of the rows that carry an id, one is imported.
LEMMA ImportedIsFirst ==
    ASSUME NEW r \in SheetRow, NEW q \in SheetRow, Imported(r), Imported(q), sheet[r].id = sheet[q].id
    PROVE  r = q
<1>1. ~ r < q /\ ~ q < r
  BY WebImportAssumption DEF Imported, Seen, SheetRow
<1>2. QED
  BY <1>1, WebImportAssumption DEF SheetRow

\* What a row comes to depends on the file alone.
LEMMA RowsStay ==
    ASSUME sheet' = sheet, NEW r
    PROVE  /\ Imported(r)' <=> Imported(r)
           /\ IssuesFor(r)' = IssuesFor(r) /\ ToMongoRecipe(r)' = ToMongoRecipe(r)
<1>1. (Seen(r)' <=> Seen(r)) /\ ToMongoRecipe(r)' = ToMongoRecipe(r)
  BY DEF Seen, ToMongoRecipe
<1>2. Imported(r)' <=> Imported(r)
  BY <1>1 DEF Imported
<1>3. IssuesFor(r)' = IssuesFor(r)
  <2>1. CASE Seen(r)
    BY <1>1, <1>2, <2>1 DEF IssuesFor, Imported
  <2>2. CASE ~Seen(r) /\ sheet[r].oversized
    BY <1>1, <1>2, <2>2 DEF IssuesFor, Imported
  <2>3. CASE Imported(r)
    <3>1. IssuesFor(r) = {Issue(r, reason) : reason \in ToMongoRecipe(r).issues}
      BY <2>3 DEF IssuesFor, Imported
    <3>2. IssuesFor(r)' = {Issue(r, reason) : reason \in ToMongoRecipe(r)'.issues}
      BY <1>1, <1>2, <2>3 DEF IssuesFor, Imported
    <3>3. QED
      BY <1>1, <3>1, <3>2
  <2>4. QED
    BY <2>1, <2>2, <2>3 DEF Imported
<1>4. QED
  BY <1>1, <1>2, <1>3

LEMMA TagsAreNamed ==
    ASSUME WebImportTypeOK, NEW r \in SheetRow
    PROVE  sheet[r].id \in SourceId /\ ToMongoRecipe(r).tags \subseteq TagName
<1>1. PICK row \in FileRow : row = sheet[r]
  BY DEF WebImportTypeOK
<1>2. row.id \in SourceId
  BY DEF SourceId
<1> DEFINE mine == Values(row.cells["tags"], row.spellings)
           all  == UNION {q.spellings : q \in FileRow}
<1>3. ToMongoRecipe(r).tags = {NormalizeTag(w) : w \in mine} \ {""}
  BY <1>1 DEF ToMongoRecipe, ParseRecipeRow
<1>4. mine \subseteq row.spellings
  BY Zenon DEF Values
<1>5. row.spellings \subseteq all
  OBVIOUS
<1>6. TagName = {NormalizeTag(w) : w \in all} \ {""}
  BY DEF TagName
<1> HIDE DEF mine, all
<1>7. ToMongoRecipe(r).tags \subseteq TagName
  BY <1>3, <1>4, <1>5, <1>6, Zenon
<1>8. QED
  BY <1>1, <1>2, <1>7

\* Parallel writes of parts of a batch keep what is accounted for, and account for
\* the rows that are in all of them.
LEMMA WritesKeep ==
    ASSUME WebImportTypeOK, sheet' = sheet, NEW rs \in SUBSET SheetRow, \A r \in rs : Imported(r),
           NEW ts, NEW is, WriteRows(rs, ts, is)
    PROVE  /\ catalog' \in [SourceId -> 0 .. FileLength]
           /\ \A i \in SourceId : catalog'[i] # 0 => sheet[catalog'[i]].id = i
           /\ \A r \in SheetRow :
                Accounted(r) \/ (r \in is /\ (Imported(r) => r \in rs /\ r \in ts)) => Accounted(r)'
<1>1. ASSUME NEW i \in SourceId
      PROVE  IF \E r \in rs : sheet[r].id = i THEN catalog'[i] \in rs /\ sheet[catalog'[i]].id = i
             ELSE catalog'[i] = catalog[i]
  BY DEF WriteRows
<1>2. catalog' \in [SourceId -> 0 .. FileLength]
  <2>1. ASSUME NEW i \in SourceId PROVE catalog'[i] \in 0 .. FileLength
    <3>1. \A r \in rs : r \in 0 .. FileLength
      BY WebImportAssumption DEF SheetRow
    <3>2. QED
      BY <1>1, <3>1 DEF WebImportTypeOK
  <2>2. QED
    BY <2>1 DEF WriteRows
<1>3. \A i \in SourceId : catalog'[i] # 0 => sheet[catalog'[i]].id = i
  BY <1>1 DEF WebImportTypeOK
<1>4. ASSUME NEW r \in SheetRow, Imported(r), r \in rs \/ catalog[sheet[r].id] = r
      PROVE  catalog'[sheet[r].id] = r
  <2>1. sheet[r].id \in SourceId
    BY TagsAreNamed
  <2>2. CASE \E q \in rs : sheet[q].id = sheet[r].id
    BY <1>1, <1>4, <2>1, <2>2, ImportedIsFirst
  <2>3. CASE ~ \E q \in rs : sheet[q].id = sheet[r].id
    BY <1>1, <1>4, <2>1, <2>3
  <2>4. QED
    BY <2>2, <2>3
<1>5. ASSUME NEW r \in SheetRow, NEW t \in ToMongoRecipe(r).tags, r \in ts \/ tagDocs[t] # -1
      PROVE  tagDocs'[t] # -1
  <2>1. t \in TagName
    BY TagsAreNamed
  <2>2. tagDocs'[t] = IF tagDocs[t] = -1 /\ (\E q \in ts : t \in ToMongoRecipe(q).tags) THEN 0 ELSE tagDocs[t]
    BY <2>1 DEF WriteRows
  <2>3. QED
    BY <1>5, <2>2
<1>6. ASSUME NEW r \in SheetRow, IssuesFor(r) \subseteq reported \/ r \in is
      PROVE  IssuesFor(r) \subseteq reported'
  BY <1>6 DEF WriteRows
<1>7. ASSUME NEW r \in SheetRow,
             Accounted(r) \/ (r \in is /\ (Imported(r) => r \in rs /\ r \in ts))
      PROVE  Accounted(r)'
  <2>1. /\ Imported(r)' <=> Imported(r)
        /\ IssuesFor(r)' = IssuesFor(r) /\ ToMongoRecipe(r)' = ToMongoRecipe(r)
    BY RowsStay
  <2>2. IssuesFor(r) \subseteq reported'
    BY <1>6, <1>7 DEF Accounted
  <2>3. ASSUME Imported(r)
        PROVE  catalog'[sheet[r].id] = r /\ \A t \in ToMongoRecipe(r).tags : tagDocs'[t] # -1
    BY <1>4, <1>5, <1>7, <2>3 DEF Accounted
  <2>4. QED
    BY <2>1, <2>2, <2>3 DEF Accounted
<1>8. QED
  BY <1>2, <1>3, <1>7

LEMMA CutShortWrites ==
    ASSUME WebImportTypeOK, sheet' = sheet, CutShort
    PROVE  /\ catalog' \in [SourceId -> 0 .. FileLength]
           /\ \A i \in SourceId : catalog'[i] # 0 => sheet[catalog'[i]].id = i
           /\ \A r \in SheetRow : Accounted(r) => Accounted(r)'
<1>1. CASE Flushing
  <2>1. PICK rs \in SUBSET BatchRows, ts \in SUBSET BatchRows, is \in SUBSET importer.batch :
            WriteRows(rs, ts, is)
    BY <1>1 DEF CutShort
  <2>2. rs \in SUBSET SheetRow /\ \A r \in rs : Imported(r)
    BY DEF BatchRows, WebImportTypeOK
  <2>3. QED
    BY <2>1, <2>2, WritesKeep
<1>2. CASE ~Flushing
  BY <1>2, RowsStay DEF CutShort, WebImportTypeOK, Accounted
<1>3. QED
  BY <1>1, <1>2

\* Only so many recipes are stored as the file has rows, so a count is a number.
LEMMA UsesAreCounted ==
    ASSUME WebImportTypeOK, NEW t
    PROVE  TagUses(t) \in Nat
<1> DEFINE used == {i \in SourceId : catalog[i] # 0 /\ t \in ToMongoRecipe(catalog[i]).tags}
           rows == {r \in SheetRow : sheet[r].id \in used}
           f    == [r \in rows |-> sheet[r].id]
<1>1. IsFiniteSet(rows)
  <2>1. IsFiniteSet(1 .. FileLength)
    BY FS_Interval, WebImportAssumption
  <2>2. rows \in SUBSET (1 .. FileLength)
    BY DEF SheetRow
  <2>3. QED
    BY <2>1, <2>2, FS_Subset
<1>2. \A i \in used : catalog[i] \in rows /\ f[catalog[i]] = i
  BY WebImportAssumption DEF WebImportTypeOK, SheetRow
<1>3. f \in Surjection(rows, used)
  BY <1>2 DEF Surjection
<1>4. IsFiniteSet(used)
  BY <1>1, <1>3, FS_Surjection
<1>5. QED
  BY <1>4, FS_CardinalityType DEF TagUses

\* A flush does not come before the rows that are skipped.
LEMMA SkippedFirst ==
    ASSUME WebImportTypeOK, BatchSinceCheckpoint, Flushing
    PROVE  importRun.checkpoint <= importer.row
<1> SUFFICES ASSUME importer.row < importer.start PROVE FALSE
  BY DEF BatchSinceCheckpoint, Flushing
<1>1. /\ importer.batch = importRun.checkpoint + 1 .. importer.row
      /\ importRun.checkpoint = importer.start /\ importer.imported = 0
      /\ importer.row \in 0 .. FileLength /\ importer.start \in 0 .. FileLength /\ importer.limit \in Nat
  BY DEF BatchSinceCheckpoint, WebImportTypeOK, Flushing
<1>2. importer.batch = {}
  BY <1>1, WebImportAssumption
<1>3. ~BatchFull
  BY <1>2, FS_EmptySet, WebImportAssumption DEF BatchFull
<1>4. ~NoMoreRows
  BY <1>1, WebImportAssumption DEF NoMoreRows, ImportLimited
<1>5. QED
  BY <1>3, <1>4 DEF Flushing

\* What a batch adds to the counts: every row of it, stored or rejected.
LEMMA BatchAddsUp ==
    ASSUME WebImportTypeOK
    PROVE  /\ CountBatch.checkpoint = importer.row /\ CountBatch.status = importRun.status
           /\ CountBatch \in [status : {"none", "running", "failed", "paused", "completed"},
                              checkpoint : 0 .. FileLength, imported : Int, rejected : Int]
           /\ /\ importRun.checkpoint <= importer.row
              /\ importer.batch = importRun.checkpoint + 1 .. importer.row
              /\ importRun.imported + importRun.rejected = importRun.checkpoint
              => CountBatch.imported + CountBatch.rejected = importer.row
<1> DEFINE n == Cardinality(importer.batch)
           k == Cardinality(BatchRows)
<1>1. /\ importRun.checkpoint \in Int /\ importer.row \in Int
      /\ importRun.imported \in Int /\ importRun.rejected \in Int
  BY WebImportAssumption DEF WebImportTypeOK
<1>2. n \in Nat /\ k \in Nat
  <2>1. IsFiniteSet(1 .. FileLength)
    BY FS_Interval, WebImportAssumption
  <2>2. importer.batch \in SUBSET (1 .. FileLength) /\ BatchRows \in SUBSET (1 .. FileLength)
    BY DEF BatchRows, WebImportTypeOK, SheetRow
  <2>3. QED
    BY <2>1, <2>2, FS_Subset, FS_CardinalityType
<1>3. ASSUME importRun.checkpoint <= importer.row, importer.batch = importRun.checkpoint + 1 .. importer.row
      PROVE  n = importer.row - importRun.checkpoint
  <2>1. importRun.checkpoint + 1 \in Int
    BY <1>1
  <2>2. n = IF importRun.checkpoint + 1 > importer.row THEN 0
            ELSE importer.row - (importRun.checkpoint + 1) + 1
    BY <1>1, <1>3, <2>1, FS_Interval
  <2>3. QED
    BY <1>1, <1>3, <2>2
<1>4. CountBatch = [importRun EXCEPT !.checkpoint = importer.row, !.imported = @ + k, !.rejected = @ + n - k]
  BY DEF CountBatch
<1> HIDE DEF n, k
<1>5. importRun.imported + k \in Int /\ importRun.rejected + n - k \in Int
  BY <1>1, <1>2
<1>6. /\ CountBatch.checkpoint = importer.row /\ CountBatch.status = importRun.status
      /\ CountBatch.imported = importRun.imported + k /\ CountBatch.rejected = importRun.rejected + n - k
      /\ CountBatch \in [status : {"none", "running", "failed", "paused", "completed"},
                         checkpoint : 0 .. FileLength, imported : Int, rejected : Int]
  BY <1>4, <1>5 DEF WebImportTypeOK
<1>7. ASSUME importRun.checkpoint <= importer.row, importer.batch = importRun.checkpoint + 1 .. importer.row,
             importRun.imported + importRun.rejected = importRun.checkpoint
      PROVE  (importRun.imported + k) + (importRun.rejected + n - k) = importer.row
  <2>1. n = importer.row - importRun.checkpoint
    BY <1>3, <1>7
  <2>2. PICK i, j, c, r \in Int :
          /\ i = importRun.imported /\ j = importRun.rejected
          /\ c = importRun.checkpoint /\ r = importer.row
    BY <1>1
  <2>3. i + j = c /\ n = r - c /\ n \in Int /\ k \in Int
    BY <1>2, <1>7, <2>1, <2>2
  <2>4. (i + k) + (j + n - k) = r
    BY <2>3
  <2>5. QED
    BY <2>2, <2>4
<1>8. QED
  BY <1>6, <1>7

LEMMA ImportInitially == WebImportInit => DurableInv
<1> SUFFICES ASSUME WebImportInit PROVE DurableInv
  OBVIOUS
<1> USE DEF WebImportInit, NoImport
<1>1. WebImportTypeOK
  <2>1. 0 \in 0 .. FileLength
    BY WebImportAssumption
  <2>2. /\ catalog \in [SourceId -> 0 .. FileLength]
        /\ \A i \in SourceId : catalog[i] # 0 => sheet[catalog[i]].id = i
    BY <2>1
  <2>3. importRun \in [status : {"none", "running", "failed", "paused", "completed"},
                      checkpoint : 0 .. FileLength, imported : Int, rejected : Int]
    BY <2>1
  <2>4. importer \in [at : ImportPlace, limit : Nat, start : 0 .. FileLength, row : 0 .. FileLength,
                     imported : Nat, batch : SUBSET SheetRow]
    BY <2>1 DEF ImportPlace
  <2>5. QED
    BY <2>2, <2>3, <2>4 DEF WebImportTypeOK, SheetRow
<1>2. TagsCounted
  BY DEF TagsCounted
<1>3. UpToCheckpoint
  BY DEF UpToCheckpoint
<1>4. QED
  BY <1>1, <1>2, <1>3 DEF DurableInv, BatchSinceCheckpoint, FlushedIsAccounted

\* The process stops, or has not started: all that matters then is the checkpoint.
LEMMA StoppedImport ==
    ASSUME DurableInv, sheet' = sheet, importer' = NoImport,
           catalog' \in [SourceId -> 0 .. FileLength],
           \A i \in SourceId : catalog'[i] # 0 => sheet[catalog'[i]].id = i,
           (\A r \in SheetRow : Accounted(r) => Accounted(r)') \/ caught',
           importRun' \in [status : {"none", "running", "failed", "paused", "completed"},
                           checkpoint : 0 .. FileLength, imported : Int, rejected : Int],
           importRun' = importRun \/ caught', caught' \in BOOLEAN, caught => caught',
           importRun'.status \notin {"completed", "paused"}
    PROVE  DurableInv'
<1>1. WebImportTypeOK'
  BY WebImportAssumption DEF DurableInv, WebImportTypeOK, NoImport, ImportPlace
<1>2. TagsCounted' /\ BatchSinceCheckpoint' /\ FlushedIsAccounted'
  BY DEF TagsCounted, BatchSinceCheckpoint, FlushedIsAccounted, NoImport
<1>3. ASSUME ~caught' PROVE UpToCheckpoint'
  <2>1. 1 .. importRun.checkpoint \subseteq SheetRow
    BY WebImportAssumption DEF DurableInv, WebImportTypeOK, SheetRow
  <2>2. QED
    BY <1>3, <2>1 DEF DurableInv, UpToCheckpoint
<1>4. QED
  BY <1>1, <1>2, <1>3 DEF DurableInv, NoImport

\* What is accounted for stays so when neither the checkpoint nor the counts move.
LEMMA CheckpointStays ==
    ASSUME WebImportTypeOK, UpToCheckpoint, \A r \in SheetRow : Accounted(r) => Accounted(r)',
           importRun'.checkpoint = importRun.checkpoint, importRun'.imported = importRun.imported,
           importRun'.rejected = importRun.rejected
    PROVE  UpToCheckpoint'
<1>1. 1 .. importRun.checkpoint \subseteq SheetRow
  BY WebImportAssumption DEF WebImportTypeOK, SheetRow
<1>2. QED
  BY <1>1 DEF UpToCheckpoint

LEMMA UsesStay ==
    ASSUME UNCHANGED <<sheet, catalog>>, NEW t
    PROVE  TagUses(t)' = TagUses(t)
<1>1. \A i \in SourceId : ToMongoRecipe(catalog[i])' = ToMongoRecipe(catalog[i])
  BY DEF ToMongoRecipe
<1>2. {i \in SourceId : catalog[i] # 0 /\ t \in ToMongoRecipe(catalog[i]).tags}'
          = {i \in SourceId : catalog[i] # 0 /\ t \in ToMongoRecipe(catalog[i]).tags}
  BY <1>1
<1>3. QED
  BY <1>2 DEF TagUses

LEMMA StoreStays ==
    ASSUME UNCHANGED <<sheet, catalog, tagDocs, reported>>
    PROVE  /\ \A r \in SheetRow : Accounted(r) => Accounted(r)'
           /\ \A t \in TagName : TagUses(t)' = TagUses(t)
BY RowsStay, UsesStay DEF Accounted

LEMMA StartImportKeeps ==
    ASSUME DurableInv, NEW limit \in ImportLimit, StartImport(limit)
    PROVE  DurableInv'
<1>1. /\ importRun' = [importRun EXCEPT !.status = "running"]
      /\ importer' = [at |-> "read", limit |-> limit, start |-> importRun.checkpoint, row |-> 0,
                      imported |-> 0, batch |-> {}]
      /\ UNCHANGED <<sheet, catalog, tagDocs, reported, caught>>
  BY DEF StartImport, NoImport
<1>2. WebImportTypeOK /\ importRun.checkpoint \in 0 .. FileLength
  BY DEF DurableInv, WebImportTypeOK
<1>3. WebImportTypeOK'
  BY <1>1, <1>2, WebImportAssumption DEF WebImportTypeOK, ImportPlace
<1>4. /\ importRun'.status = "running" /\ importRun'.checkpoint = importRun.checkpoint
      /\ importRun'.imported = importRun.imported /\ importRun'.rejected = importRun.rejected
  BY <1>1, <1>2 DEF WebImportTypeOK
<1>5. TagsCounted' /\ FlushedIsAccounted'
  BY <1>1, <1>4 DEF TagsCounted, FlushedIsAccounted
<1>6. BatchSinceCheckpoint'
  <2>1. {} = importRun.checkpoint + 1 .. 0
    BY <1>2, WebImportAssumption
  <2>2. QED
    BY <1>1, <1>2, <1>4, <2>1, WebImportAssumption DEF BatchSinceCheckpoint
<1>7. ASSUME ~caught PROVE UpToCheckpoint'
  BY <1>1, <1>2, <1>4, <1>7, StoreStays, CheckpointStays DEF DurableInv
<1>8. QED
  BY <1>1, <1>3, <1>4, <1>5, <1>6, <1>7 DEF DurableInv

LEMMA ReadRowKeeps ==
    ASSUME DurableInv, ReadRow
    PROVE  DurableInv'
<1> DEFINE r == importer.row + 1
<1>1. /\ NextRow /\ importer.at = "read" /\ UNCHANGED <<sheet, catalog, tagDocs, reported, importRun, caught>>
      /\ importer' = IF r <= importer.start THEN [importer EXCEPT !.row = r]
                     ELSE [importer EXCEPT !.row = r, !.batch = @ \cup {r},
                                           !.imported = IF Imported(r) THEN @ + 1 ELSE @]
  BY DEF ReadRow, NextRow
<1>2. WebImportTypeOK
  BY DEF DurableInv
<1>3. r \in SheetRow /\ r \in 0 .. FileLength
  BY <1>1, <1>2, WebImportAssumption DEF NextRow, Flushing, NoMoreRows, WebImportTypeOK, SheetRow
<1>4. /\ importer' \in [at : ImportPlace, limit : Nat, start : 0 .. FileLength, row : 0 .. FileLength,
                        imported : Nat, batch : SUBSET SheetRow]
      /\ importer'.at = "read" /\ importer'.row = r /\ importer'.start = importer.start
      /\ r <= importer.start => importer'.batch = importer.batch /\ importer'.imported = importer.imported
      /\ ~ (r <= importer.start) => importer'.batch = importer.batch \cup {r}
  <2>1. /\ importer.batch \cup {r} \in SUBSET SheetRow
        /\ (IF Imported(r) THEN importer.imported + 1 ELSE importer.imported) \in Nat
    BY <1>2, <1>3 DEF WebImportTypeOK
  <2> HIDE DEF r
  <2>2. CASE r <= importer.start
    BY <1>1, <1>2, <1>3, <2>2 DEF WebImportTypeOK
  <2>3. CASE ~ (r <= importer.start)
    BY <1>1, <1>2, <1>3, <2>1, <2>3 DEF WebImportTypeOK
  <2>4. QED
    BY <2>2, <2>3
<1>5. WebImportTypeOK'
  BY <1>1, <1>2, <1>4 DEF WebImportTypeOK
<1>6. TagsCounted'
  BY <1>1, <1>2, <1>4, StoreStays DEF DurableInv, TagsCounted
<1>7. ASSUME ~caught PROVE BatchSinceCheckpoint'
  <2>1. /\ importer.batch = importRun.checkpoint + 1 .. importer.row /\ importer.start <= importRun.checkpoint
        /\ importer.row <= importer.start => importer.imported = 0
        /\ IF importer.row < importer.start THEN importRun.checkpoint = importer.start
           ELSE importRun.checkpoint <= importer.row
        /\ importer.row \in Nat /\ importer.start \in Nat /\ importRun.checkpoint \in Nat
    BY <1>1, <1>2, <1>7, WebImportAssumption DEF DurableInv, BatchSinceCheckpoint, WebImportTypeOK
  <2>2. CASE r <= importer.start
    <3>1. importRun.checkpoint + 1 .. importer.row = importRun.checkpoint + 1 .. r
      BY <2>1, <2>2
    <3>2. QED
      BY <1>1, <1>4, <2>1, <2>2, <3>1 DEF BatchSinceCheckpoint
  <2>3. CASE ~ (r <= importer.start)
    <3>1. (importRun.checkpoint + 1 .. importer.row) \cup {r} = importRun.checkpoint + 1 .. r
      BY <2>1, <2>3
    <3>2. QED
      BY <1>1, <1>4, <2>1, <2>3, <3>1 DEF BatchSinceCheckpoint
  <2>4. QED
    BY <2>2, <2>3
<1>8. FlushedIsAccounted'
  BY <1>4 DEF FlushedIsAccounted
<1>9. ASSUME ~caught PROVE UpToCheckpoint'
  BY <1>1, <1>2, <1>9, StoreStays, CheckpointStays DEF DurableInv
<1>10. QED
  BY <1>1, <1>4, <1>5, <1>6, <1>7, <1>8, <1>9 DEF DurableInv

LEMMA FlushKeeps ==
    ASSUME DurableInv, Flush
    PROVE  DurableInv'
<1>1. /\ Flushing /\ WriteRows(BatchRows, BatchRows, importer.batch) /\ UNCHANGED <<sheet, importRun, caught>>
      /\ importer' = [importer EXCEPT !.at = IF BatchFull THEN "checkpoint" ELSE "facets"]
  BY DEF Flush
<1>2. WebImportTypeOK /\ importer.at = "read"
  BY <1>1 DEF DurableInv, Flushing
<1>3. BatchRows \in SUBSET SheetRow /\ \A r \in BatchRows : Imported(r)
  BY <1>2 DEF BatchRows, WebImportTypeOK
<1>4. /\ catalog' \in [SourceId -> 0 .. FileLength]
      /\ \A i \in SourceId : catalog'[i] # 0 => sheet[catalog'[i]].id = i
      /\ \A r \in SheetRow :
            Accounted(r) \/ (r \in importer.batch /\ (Imported(r) => r \in BatchRows)) => Accounted(r)'
  BY <1>1, <1>2, <1>3, WritesKeep
<1>5. /\ importer'.at \in {"checkpoint", "facets"} /\ importer'.row = importer.row
      /\ importer'.start = importer.start /\ importer'.batch = importer.batch
      /\ importer'.imported = importer.imported
  BY <1>1, <1>2 DEF WebImportTypeOK
<1>6. WebImportTypeOK'
  BY <1>1, <1>2, <1>4 DEF WebImportTypeOK, ImportPlace
<1>7. TagsCounted' /\ importRun'.status = "running"
  BY <1>1, <1>2, <1>5 DEF DurableInv, TagsCounted
<1>8. ASSUME ~caught PROVE BatchSinceCheckpoint'
  <2>1. importRun.checkpoint <= importer.row
    BY <1>1, <1>2, <1>8, SkippedFirst DEF DurableInv
  <2>2. importer.row \in Nat /\ importer.start \in Nat /\ importRun.checkpoint \in Nat
    BY <1>2, WebImportAssumption DEF WebImportTypeOK
  <2>3. QED
    BY <1>1, <1>2, <1>5, <1>8, <2>1, <2>2 DEF DurableInv, BatchSinceCheckpoint
<1>9. FlushedIsAccounted'
  <2>1. importer.batch \subseteq SheetRow
    BY <1>2 DEF WebImportTypeOK
  <2>2. QED
    BY <1>4, <1>5, <2>1 DEF FlushedIsAccounted, BatchRows
<1>10. ASSUME ~caught PROVE UpToCheckpoint'
  BY <1>1, <1>2, <1>4, <1>10, CheckpointStays DEF DurableInv
<1>11. QED
  BY <1>1, <1>6, <1>7, <1>8, <1>9, <1>10 DEF DurableInv

\* A batch that is counted was flushed, and the counts have the checkpoint with it.
LEMMA CountedIsAccounted ==
    ASSUME DurableInv, ~caught, importer.at \in {"checkpoint", "finish"},
           UNCHANGED <<sheet, catalog, tagDocs, reported>>,
           importRun'.checkpoint = importer.row, importRun'.imported = CountBatch.imported,
           importRun'.rejected = CountBatch.rejected
    PROVE  UpToCheckpoint'
<1>1. WebImportTypeOK /\ BatchSinceCheckpoint /\ FlushedIsAccounted /\ UpToCheckpoint
  BY DEF DurableInv
<1>2. /\ importer.batch = importRun.checkpoint + 1 .. importer.row /\ importRun.checkpoint <= importer.row
      /\ importer.row \in 0 .. FileLength /\ importRun.checkpoint \in 0 .. FileLength
  BY <1>1 DEF BatchSinceCheckpoint, WebImportTypeOK
<1>3. \A r \in 1 .. importer.row : r \in 1 .. importRun.checkpoint \/ r \in importer.batch
  BY <1>2, WebImportAssumption
<1>4. 1 .. importer.row \subseteq SheetRow
  BY <1>2, WebImportAssumption DEF SheetRow
<1>5. \A r \in 1 .. importer.row : Accounted(r)'
  BY <1>1, <1>3, <1>4, StoreStays DEF FlushedIsAccounted, UpToCheckpoint
<1>6. CountBatch.imported + CountBatch.rejected = importer.row
  BY <1>1, <1>2, BatchAddsUp DEF UpToCheckpoint
<1>7. QED
  BY <1>5, <1>6 DEF UpToCheckpoint

LEMMA CheckpointKeeps ==
    ASSUME DurableInv, Checkpoint
    PROVE  DurableInv'
<1>1. /\ importer.at = "checkpoint" /\ importRun' = CountBatch
      /\ importer' = [importer EXCEPT !.at = "read", !.batch = {}]
      /\ UNCHANGED <<sheet, catalog, tagDocs, reported, caught>>
  BY DEF Checkpoint
<1>2. WebImportTypeOK /\ importRun.status = "running"
  BY <1>1 DEF DurableInv
<1>3. /\ importRun'.checkpoint = importer.row /\ importRun'.status = "running"
      /\ importRun' \in [status : {"none", "running", "failed", "paused", "completed"},
                         checkpoint : 0 .. FileLength, imported : Int, rejected : Int]
  BY <1>1, <1>2, BatchAddsUp
<1>4. /\ importer'.at = "read" /\ importer'.row = importer.row /\ importer'.batch = {}
      /\ importer'.start = importer.start /\ importer'.imported = importer.imported
      /\ importer' \in [at : ImportPlace, limit : Nat, start : 0 .. FileLength, row : 0 .. FileLength,
                        imported : Nat, batch : SUBSET SheetRow]
  BY <1>1, <1>2 DEF WebImportTypeOK, ImportPlace
<1>5. WebImportTypeOK'
  BY <1>1, <1>2, <1>3, <1>4 DEF WebImportTypeOK
<1>6. TagsCounted' /\ FlushedIsAccounted'
  BY <1>3, <1>4 DEF TagsCounted, FlushedIsAccounted
<1>7. ASSUME ~caught PROVE BatchSinceCheckpoint'
  <2>1. importer.row \in Nat /\ importer.start \in Nat /\ importRun.checkpoint \in Nat
    BY <1>2, WebImportAssumption DEF WebImportTypeOK
  <2>2. {} = importer.row + 1 .. importer.row
    BY <2>1
  <2>3. QED
    BY <1>1, <1>3, <1>4, <1>7, <2>1, <2>2 DEF DurableInv, BatchSinceCheckpoint
<1>8. ASSUME ~caught PROVE UpToCheckpoint'
  BY <1>1, <1>3, <1>8, CountedIsAccounted
<1>9. QED
  BY <1>1, <1>3, <1>5, <1>6, <1>7, <1>8 DEF DurableInv

LEMMA RefreshFacetsKeeps ==
    ASSUME DurableInv, RefreshFacets
    PROVE  DurableInv'
<1>1. /\ importer.at = "facets" /\ UNCHANGED <<sheet, catalog, reported, importRun, caught>>
      /\ tagDocs' = [t \in TagName |-> IF tagDocs[t] = -1 THEN -1 ELSE TagUses(t)]
      /\ importer' = [importer EXCEPT !.at = "finish"]
  BY DEF RefreshFacets
<1>2. WebImportTypeOK /\ importRun.status = "running"
  BY <1>1 DEF DurableInv
<1>3. /\ importer'.at = "finish" /\ importer'.row = importer.row /\ importer'.batch = importer.batch
      /\ importer'.start = importer.start /\ importer'.imported = importer.imported
  BY <1>1, <1>2 DEF WebImportTypeOK
<1>4. WebImportTypeOK'
  BY <1>1, <1>2 DEF WebImportTypeOK, ImportPlace
<1>5. TagsCounted'
  BY <1>1, UsesStay DEF TagsCounted
<1>6. ASSUME NEW r \in SheetRow, Accounted(r) PROVE Accounted(r)'
  <2>1. \A t \in ToMongoRecipe(r).tags : t \in TagName
    BY <1>2, TagsAreNamed
  <2>2. \A t \in TagName : tagDocs[t] # -1 => tagDocs'[t] # -1
    <3>1. \A t \in TagName : TagUses(t) \in Nat
      BY <1>2, UsesAreCounted
    <3>2. \A t \in TagName : TagUses(t) # -1
      BY <3>1
    <3>3. QED
      BY <1>1, <3>2
  <2>3. QED
    BY <1>1, <1>6, <2>1, <2>2, RowsStay DEF Accounted
<1>7. ASSUME ~caught PROVE BatchSinceCheckpoint' /\ FlushedIsAccounted' /\ UpToCheckpoint'
  <2>1. BatchSinceCheckpoint'
    BY <1>1, <1>3, <1>7 DEF DurableInv, BatchSinceCheckpoint
  <2>2. importer.batch \subseteq SheetRow
    BY <1>2 DEF WebImportTypeOK
  <2>3. FlushedIsAccounted'
    BY <1>1, <1>3, <1>6, <1>7, <2>2 DEF DurableInv, FlushedIsAccounted
  <2>4. UpToCheckpoint'
    BY <1>1, <1>2, <1>6, <1>7, CheckpointStays DEF DurableInv
  <2>5. QED
    BY <2>1, <2>3, <2>4
<1>8. QED
  BY <1>1, <1>2, <1>4, <1>5, <1>7 DEF DurableInv

LEMMA FinishImportKeeps ==
    ASSUME DurableInv, FinishImport
    PROVE  DurableInv'
<1>1. /\ importer.at = "finish" /\ importer' = NoImport
      /\ importRun' = [CountBatch EXCEPT !.status = IF ImportLimited THEN "paused" ELSE "completed"]
      /\ UNCHANGED <<sheet, catalog, tagDocs, reported, caught>>
  BY DEF FinishImport
<1>2. WebImportTypeOK
  BY DEF DurableInv
<1>3. /\ CountBatch.checkpoint = importer.row
      /\ CountBatch \in [status : {"none", "running", "failed", "paused", "completed"},
                         checkpoint : 0 .. FileLength, imported : Int, rejected : Int]
  BY <1>2, BatchAddsUp
<1>4. /\ importRun'.checkpoint = importer.row /\ importRun'.imported = CountBatch.imported
      /\ importRun'.rejected = CountBatch.rejected
      /\ importRun' \in [status : {"none", "running", "failed", "paused", "completed"},
                         checkpoint : 0 .. FileLength, imported : Int, rejected : Int]
  BY <1>1, <1>3
<1>5. WebImportTypeOK'
  BY <1>1, <1>2, <1>4, WebImportAssumption DEF WebImportTypeOK, NoImport, ImportPlace
<1>6. TagsCounted'
  BY <1>1, UsesStay DEF DurableInv, TagsCounted
<1>7. ASSUME ~caught PROVE UpToCheckpoint'
  BY <1>1, <1>4, <1>7, CountedIsAccounted
<1>8. QED
  BY <1>1, <1>5, <1>6, <1>7 DEF DurableInv, BatchSinceCheckpoint, FlushedIsAccounted, NoImport

\* The process is killed, or an exception reaches the catch block.
LEMMA FaultKeeps ==
    ASSUME DurableInv, RowThrows \/ DatabaseThrows \/ ImporterDies
    PROVE  DurableInv'
<1>1. WebImportTypeOK /\ sheet' = sheet /\ importer' = NoImport
  BY DEF DurableInv, RowThrows, DatabaseThrows, ImporterDies, Catch
<1>2. /\ catalog' \in [SourceId -> 0 .. FileLength]
      /\ \A i \in SourceId : catalog'[i] # 0 => sheet[catalog'[i]].id = i
  BY <1>1, CutShortWrites DEF RowThrows, DatabaseThrows, ImporterDies, WebImportTypeOK
<1>3. CASE ImporterDies
  <2>1. \A r \in SheetRow : Accounted(r) => Accounted(r)'
    BY <1>1, <1>3, CutShortWrites DEF ImporterDies
  <2>2. importRun' = importRun /\ caught' = caught /\ importRun.status = "running"
    BY <1>3 DEF ImporterDies, DurableInv
  <2>3. QED
    BY <1>1, <1>2, <2>1, <2>2, StoppedImport DEF WebImportTypeOK
<1>4. CASE RowThrows \/ DatabaseThrows
  <2>1. PICK row : /\ row \in 0 .. FileLength
                   /\ Catch(row)
    <3>1. CASE RowThrows
      <4>1. Catch(importer.row + 1) /\ importer.row # FileLength
        BY <3>1 DEF RowThrows, NextRow, Flushing, NoMoreRows
      <4>2. importer.row + 1 \in 0 .. FileLength
        BY <1>1, <4>1, WebImportAssumption DEF WebImportTypeOK
      <4>3. QED
        BY <4>1, <4>2
    <3>2. CASE DatabaseThrows
      <4>1. Catch(importer.row) /\ importer.row \in 0 .. FileLength
        BY <1>1, <3>2 DEF DatabaseThrows, WebImportTypeOK
      <4>2. QED
        BY <4>1
    <3>3. QED
      BY <1>4, <3>1, <3>2
  <2>2. caught' = TRUE
    BY <1>4 DEF RowThrows, DatabaseThrows, Catch
  <2>3. /\ importRun'.status = "failed"
        /\ importRun' \in [status : {"none", "running", "failed", "paused", "completed"},
                           checkpoint : 0 .. FileLength, imported : Int, rejected : Int]
    BY <1>1, <2>1 DEF Catch, WebImportTypeOK
  <2>4. QED
    BY <1>1, <1>2, <2>2, <2>3, StoppedImport
<1>5. QED
  BY <1>3, <1>4

LEMMA ImportKept == DurableInv /\ [WebImportNext]_importVars => DurableInv'
<1> SUFFICES ASSUME DurableInv, [WebImportNext]_importVars PROVE DurableInv'
  OBVIOUS
<1>1. CASE WebImportNext
  BY <1>1, StartImportKeeps, ReadRowKeeps, FlushKeeps, CheckpointKeeps, RefreshFacetsKeeps,
     FinishImportKeeps, FaultKeeps DEF WebImportNext
<1>2. CASE UNCHANGED importVars
  <2>1. UNCHANGED <<sheet, catalog, tagDocs, reported, importRun, importer, caught>>
    BY <1>2 DEF importVars
  <2>2. WebImportTypeOK /\ WebImportTypeOK' /\ TagsCounted'
    BY <2>1, StoreStays DEF DurableInv, WebImportTypeOK, TagsCounted
  <2>3. ASSUME ~caught PROVE BatchSinceCheckpoint' /\ FlushedIsAccounted' /\ UpToCheckpoint'
    <3>1. BatchSinceCheckpoint'
      BY <2>1, <2>3 DEF DurableInv, BatchSinceCheckpoint
    <3>2. importer.batch \subseteq SheetRow
      BY <2>2 DEF WebImportTypeOK
    <3>3. FlushedIsAccounted'
      BY <2>1, <2>3, <3>2, StoreStays DEF DurableInv, FlushedIsAccounted
    <3>4. UpToCheckpoint'
      BY <2>1, <2>2, <2>3, StoreStays, CheckpointStays DEF DurableInv
    <3>5. QED
      BY <3>1, <3>3, <3>4
  <2>4. QED
    BY <2>1, <2>2, <2>3 DEF DurableInv
<1>3. QED
  BY <1>1, <1>2

\* Killed, cut short between its parallel writes, paused and resumed any number of
\* times, an import accounts for every row up to its checkpoint, its counts add up to
\* it, and those of the tags are right when it has ended (importCatalog).
THEOREM CheckpointIsDurableHolds == WebImportSpec => []CheckpointIsDurable
<1>1. DurableInv => CheckpointIsDurable
  BY DEF DurableInv, TagsCounted, UpToCheckpoint, CheckpointIsDurable
<1>2. QED
  BY <1>1, ImportInitially, ImportKept, PTL DEF WebImportSpec

-------------------------------------------------------------------------------
(* The client of the port.                                                     *)

\* A page and a click are records whose pages and handlers do not matter here.
PageShape(p) == p = [at |-> p.at, waits |-> p.waits, shown |-> p.shown, floor |-> p.floor]
ClickShape(k) == k = [at |-> k.at, handler |-> k.handler, mount |-> k.mount, retry |-> k.retry,
                      answer |-> k.answer, floor |-> k.floor]

Wait == [read : ReadId, due : SUBSET Change]

ClientTypeOK ==
    /\ acked \subseteq changed /\ changed \subseteq Change
    /\ queryCache \in ReadId \cup {NoRead}
    /\ reads \in [ReadId -> [at : {"none", "sent", "served"}, value : SUBSET Change]]
    /\ PageShape(open)
    /\ open.waits \subseteq Wait /\ (open.shown # NoRead => open.shown \subseteq Change) /\ open.floor \subseteq Change
    /\ DOMAIN clicks = Change /\ clicks = [c \in Change |-> clicks[c]]
    /\ \A c \in Change : ClickShape(clicks[c]) /\ clicks[c].mount \in Nat
    /\ mount \in Nat

\* A read that was served is as new as those who wait for it need: an entry of the
\* cache has every change that was acknowledged, a page gets at least what it is due.
EntryIsNew ==
    queryCache # NoRead /\ reads[queryCache].at = "served" => acked \subseteq reads[queryCache].value
WaitsAreNew ==
    \A w \in open.waits :
        /\ w.due \subseteq acked
        /\ reads[w.read].at = "served" => w.due \subseteq reads[w.read].value

\* What the handler of k has been told, and that its page, if it is still open,
\* shows what the handler adds to.
Pending(k) == k.at \in {"token", "sent", "made"}
AddsToPage(k) == k.handler.after \in {"local", "answer"}
Told(k, c) ==
    /\ Pending(k) => k.floor \subseteq acked
    /\ Pending(k) => k.mount <= mount
    /\ Pending(k) /\ AddsToPage(k) /\ k.mount = mount => open.shown # NoRead
    /\ k.at = "made" => c \in changed /\ k.answer \subseteq Change /\ k.floor \cup {c} \subseteq k.answer
HandlersKnow == \A c \in Change : Told(clicks[c], c)

ClientInv == ClientTypeOK /\ EntryIsNew /\ WaitsAreNew /\ HandlersKnow /\ ReadYourWrites

LEMMA ClientInitially == ClientInit => ClientInv
<1> SUFFICES ASSUME ClientInit PROVE ClientInv
  OBVIOUS
<1> USE DEF ClientInit, NoReadYet, NewPage, NoClick, Handler
<1>1. ClientTypeOK
  BY DEF ClientTypeOK, PageShape, ClickShape
<1>2. EntryIsNew /\ WaitsAreNew
  BY DEF EntryIsNew, WaitsAreNew
<1>3. HandlersKnow
  BY DEF HandlersKnow, Told, Pending
<1>4. ReadYourWrites
  BY DEF ReadYourWrites
<1>5. QED
  BY <1>1, <1>2, <1>3, <1>4 DEF ClientInv

\* A step of one handler alone: the others, the pages and the reads are left.
LEMMA HandlerMoves ==
    ASSUME ClientInv, NEW c \in Change, NEW k, clicks' = [clicks EXCEPT ![c] = k],
           ClickShape(k), k.mount \in Nat, Told(k, c)',
           changed \subseteq changed', changed' \subseteq Change, acked' = acked, UNCHANGED pageVars
    PROVE  ClientInv'
<1> USE DEF ClientInv, pageVars
<1>1. ClientTypeOK'
  <2>1. /\ clicks' = [d \in Change |-> clicks'[d]]
        /\ \A d \in Change : clicks'[d] = IF d = c THEN k ELSE clicks[d]
    BY DEF ClientTypeOK
  <2>2. \A d \in Change : ClickShape(clicks'[d]) /\ clicks'[d].mount \in Nat
    BY <2>1 DEF ClientTypeOK
  <2>3. QED
    BY <2>1, <2>2 DEF ClientTypeOK, PageShape, ClickShape
<1>2. EntryIsNew' /\ WaitsAreNew'
  BY DEF EntryIsNew, WaitsAreNew
<1>3. HandlersKnow'
  <2>1. ASSUME NEW d \in Change PROVE Told(clicks[d], d)' \/ d = c
    BY <2>1 DEF HandlersKnow, Told, Pending, AddsToPage, ClientTypeOK
  <2>2. clicks'[c] = k
    BY DEF ClientTypeOK
  <2>3. QED
    BY <2>1, <2>2 DEF HandlersKnow
<1>4. ReadYourWrites'
  BY DEF ReadYourWrites
<1>5. QED
  BY <1>1, <1>2, <1>3, <1>4

LEMMA ClickKeeps ==
    ASSUME ClientInv, NEW c \in Change, NEW h, Click(c, h)
    PROVE  ClientInv'
<1> DEFINE next == [NoClick EXCEPT !.at = IF token = "none" THEN "token" ELSE "sent",
                                   !.handler = h, !.mount = mount, !.floor = acked]
<1>1. PICK k : k = next
  OBVIOUS
<1>2. /\ k.handler = h /\ k.mount = mount /\ k.floor = acked
      /\ k.at \in {"token", "sent"} /\ ClickShape(k)
  BY <1>1 DEF NoClick, ClickShape
<1>3. k.mount \in Nat /\ UNCHANGED <<acked, changed>> /\ changed \subseteq Change
  BY <1>2 DEF Click, ClientInv, ClientTypeOK
<1>4. Told(k, c)'
  BY <1>2, <1>3 DEF Told, Pending, AddsToPage, Click, pageVars, ClientInv, ClientTypeOK
<1>5. clicks' = [clicks EXCEPT ![c] = k] /\ UNCHANGED pageVars
  BY <1>1 DEF Click
<1>6. QED
  BY <1>2, <1>3, <1>4, <1>5, HandlerMoves

\* A handler goes on to be answered or to end, and nothing else happens.
LEMMA HandlerGoesOn ==
    ASSUME ClientInv, NEW c \in Change, Pending(clicks[c]), NEW k, clicks' = [clicks EXCEPT ![c] = k],
           ClickShape(k), k.at \in {"token", "sent", "over"},
           k.at # "over" => /\ k.handler = clicks[c].handler /\ k.mount = clicks[c].mount
                            /\ k.floor = clicks[c].floor,
           k.at = "over" => k.mount = 0,
           UNCHANGED <<changed, acked, pageVars>>
    PROVE  ClientInv'
<1>1. clicks[c].mount \in Nat /\ Told(clicks[c], c)
  BY DEF ClientInv, ClientTypeOK, HandlersKnow
<1>2. Told(k, c)'
  BY <1>1 DEF Told, Pending, AddsToPage, pageVars
<1>3. k.mount \in Nat
  BY <1>1
<1>4. QED
  BY <1>2, <1>3, HandlerMoves DEF ClientInv, ClientTypeOK

LEMMA ApplyKeeps ==
    ASSUME ClientInv, NEW c \in Change, Apply(c)
    PROVE  ClientInv'
<1>1. PICK old, got : old = clicks[c] /\ got = changed'
  OBVIOUS
<1>2. ClickShape(old) /\ old.mount \in Nat /\ Told(old, c) /\ Pending(old)
  BY <1>1 DEF ClientInv, ClientTypeOK, HandlersKnow, Apply, Pending
<1>3. PICK k : clicks' = [clicks EXCEPT ![c] = k] /\ k = [old EXCEPT !.at = "made", !.answer = got]
  <2>1. clicks' = [clicks EXCEPT ![c] = [clicks[c] EXCEPT !.at = "made", !.answer = got]]
    BY <1>1 DEF Apply, ClientInv, ClientTypeOK
  <2>2. QED
    BY <1>1, <2>1
<1>4. /\ k.at = "made" /\ k.answer = got /\ k.handler = old.handler /\ k.mount = old.mount
      /\ k.floor = old.floor /\ ClickShape(k)
  <2>1. PICK h, m, r, a, f, w :
        old = [at |-> w, handler |-> h, mount |-> m, retry |-> r, answer |-> a, floor |-> f]
    BY <1>2 DEF ClickShape
  <2>2. k = [at |-> "made", handler |-> h, mount |-> m, retry |-> r, answer |-> got, floor |-> f]
    BY <1>3, <2>1
  <2>3. QED
    BY <2>1, <2>2 DEF ClickShape
<1>5. k.mount \in Nat
  BY <1>2, <1>4
<1>6. /\ changed' = changed \cup {c} /\ UNCHANGED <<acked, pageVars>>
      /\ acked \subseteq changed /\ changed \subseteq Change
  BY DEF Apply, ClientInv, ClientTypeOK
<1>7. Told(k, c)'
  BY <1>1, <1>2, <1>4, <1>6 DEF Told, AddsToPage, Pending, pageVars
<1>8. QED
  BY <1>3, <1>4, <1>5, <1>6, <1>7, HandlerMoves

\* The steps of a handler between the click and the answer to it.
LEMMA HandlerSteps ==
    ASSUME ClientInv, NEW c \in Change, FetchToken(c) \/ RefuseToken(c) \/ ChangeLost(c)
    PROVE  ClientInv'
<1>1. UNCHANGED <<changed, acked, pageVars>> /\ Pending(clicks[c]) /\ DOMAIN clicks = Change
  BY DEF FetchToken, RefuseToken, ChangeLost, Pending, ClientInv, ClientTypeOK
<1>2. PICK old : old = clicks[c]
  OBVIOUS
<1>3. ClickShape(old)
  BY <1>2 DEF ClientInv, ClientTypeOK
<1>4. CASE FetchToken(c)
  <2>1. PICK k : clicks' = [clicks EXCEPT ![c] = k] /\ k = [old EXCEPT !.at = "sent"]
    BY <1>1, <1>2, <1>4 DEF FetchToken, Goes
  <2>2. /\ k.at = "sent" /\ k.handler = old.handler /\ k.mount = old.mount /\ k.floor = old.floor
        /\ ClickShape(k)
    <3>1. PICK h, m, r, a, f, w :
        old = [at |-> w, handler |-> h, mount |-> m, retry |-> r, answer |-> a, floor |-> f]
      BY <1>3 DEF ClickShape
    <3>2. k = [at |-> "sent", handler |-> h, mount |-> m, retry |-> r, answer |-> a, floor |-> f]
      BY <2>1, <3>1
    <3>3. QED
      BY <3>1, <3>2 DEF ClickShape
  <2>3. QED
    BY <1>1, <1>2, <2>1, <2>2, HandlerGoesOn
<1>5. CASE RefuseToken(c) /\ clicks[c].retry
  <2>1. PICK k : clicks' = [clicks EXCEPT ![c] = k] /\ k = [old EXCEPT !.at = "token", !.retry = FALSE]
    BY <1>1, <1>2, <1>5 DEF RefuseToken
  <2>2. /\ k.at = "token" /\ k.handler = old.handler /\ k.mount = old.mount /\ k.floor = old.floor
        /\ ClickShape(k)
    <3>1. PICK h, m, r, a, f, w :
        old = [at |-> w, handler |-> h, mount |-> m, retry |-> r, answer |-> a, floor |-> f]
      BY <1>3 DEF ClickShape
    <3>2. k = [at |-> "token", handler |-> h, mount |-> m, retry |-> FALSE, answer |-> a, floor |-> f]
      BY <2>1, <3>1
    <3>3. QED
      BY <3>1, <3>2 DEF ClickShape
  <2>3. QED
    BY <1>1, <1>2, <2>1, <2>2, HandlerGoesOn
<1>6. CASE ChangeLost(c) \/ (RefuseToken(c) /\ ~clicks[c].retry)
  <2>1. PICK k : clicks' = [clicks EXCEPT ![c] = k] /\ k = [NoClick EXCEPT !.at = "over"]
    BY <1>6 DEF ChangeLost, RefuseToken, Ends
  <2>2. ClickShape(k) /\ k.at = "over" /\ k.mount = 0
    BY <2>1 DEF ClickShape, NoClick
  <2>3. QED
    BY <1>1, <2>1, <2>2, HandlerGoesOn
<1>7. QED
  BY <1>4, <1>5, <1>6

\* What is left of a click that is over knows nothing, and nothing of it is used.
LEMMA OthersKnow ==
    ASSUME ClientInv, NEW c \in Change, clicks' = [clicks EXCEPT ![c] = [NoClick EXCEPT !.at = "over"]],
           acked \subseteq acked', changed' = changed, mount' \in Nat, mount <= mount',
           mount' = mount => open.shown = NoRead \/ open'.shown # NoRead
    PROVE  /\ HandlersKnow'
           /\ (DOMAIN clicks = Change /\ clicks = [d \in Change |-> clicks[d]])'
           /\ (\A d \in Change : ClickShape(clicks[d]) /\ clicks[d].mount \in Nat)'
<1>1. PICK k : clicks' = [clicks EXCEPT ![c] = k] /\ k = [NoClick EXCEPT !.at = "over"]
  OBVIOUS
<1>2. ClickShape(k) /\ k.mount = 0 /\ k.at = "over"
  BY <1>1 DEF ClickShape, NoClick
<1>3. /\ clicks' = [d \in Change |-> clicks'[d]]
      /\ \A d \in Change : clicks'[d] = IF d = c THEN k ELSE clicks[d]
  BY <1>1 DEF ClientInv, ClientTypeOK
<1>4. ASSUME NEW d \in Change PROVE ClickShape(clicks'[d]) /\ clicks'[d].mount \in Nat
  <2>1. CASE d = c
    <3>1. clicks'[d] = k
      BY <1>3, <2>1
    <3>2. QED
      BY <1>2, <3>1 DEF ClickShape
  <2>2. CASE d # c
    BY <1>3, <2>2 DEF ClientInv, ClientTypeOK
  <2>3. QED
    BY <2>1, <2>2
<1>5. ASSUME NEW d \in Change PROVE Told(clicks[d], d)'
  <2>1. CASE d = c
    BY <1>2, <1>3, <2>1 DEF Told, Pending
  <2>2. CASE d # c
    <3>1. clicks'[d] = clicks[d] /\ Told(clicks[d], d) /\ clicks[d].mount \in Nat /\ mount \in Nat
      BY <1>3, <2>2 DEF ClientInv, ClientTypeOK, HandlersKnow
    <3>2. Pending(clicks[d]) /\ clicks[d].mount = mount' => mount' = mount
      BY <3>1 DEF Told
    <3>3. QED
      BY <3>1, <3>2 DEF Told, Pending, AddsToPage
  <2>3. QED
    BY <2>1, <2>2
<1>6. QED
  BY <1>3, <1>4, <1>5 DEF HandlersKnow, ClickShape

\* What holds of the reads and of those who wait for them.
ReadsInv ==
    /\ queryCache \in ReadId \cup {NoRead}
    /\ reads \in [ReadId -> [at : {"none", "sent", "served"}, value : SUBSET Change]]
    /\ PageShape(open) /\ open.waits \subseteq Wait
    /\ EntryIsNew /\ WaitsAreNew

\* A page asks, and shows what it showed.  It waits for reads of the page that is
\* open, if for any; and what is kept in the cache is the entry, if it is still new.
LEMMA AskedIsNew ==
    ASSUME ReadsInv, NEW p, PageShape(p), p.waits \subseteq open.waits, NEW how, NEW kept,
           acked \subseteq acked', acked' \subseteq Change,
           kept # NoRead => kept = queryCache /\ acked' = acked,
           AskFor(p, how, kept)
    PROVE  ReadsInv' /\ open'.shown = p.shown /\ open'.floor = p.floor
<1> DEFINE w(i) == [read |-> i, due |-> acked']
<1>1. \A i : LET q == [p EXCEPT !.waits = @ \cup {w(i)}]
             IN  /\ PageShape(q) /\ q.waits = p.waits \cup {w(i)} /\ q.shown = p.shown /\ q.floor = p.floor
  BY DEF PageShape
<1>2. CASE how = "cached" /\ kept # NoRead
  <2>1. open' = [p EXCEPT !.waits = @ \cup {w(kept)}] /\ queryCache' = kept /\ reads' = reads
    BY <1>2 DEF AskFor
  <2>2. /\ PageShape(open') /\ open'.waits = p.waits \cup {w(kept)}
        /\ open'.shown = p.shown /\ open'.floor = p.floor
    BY <1>1, <2>1
  <2>3. kept \in ReadId /\ queryCache' = queryCache /\ acked' = acked
    BY <1>2, <2>1 DEF ReadsInv
  <2>4. WaitsAreNew'
    BY <1>2, <2>1, <2>2, <2>3 DEF ReadsInv, WaitsAreNew, EntryIsNew
  <2>5. QED
    BY <2>1, <2>2, <2>3, <2>4 DEF ReadsInv, PageShape, EntryIsNew, Wait
<1>3. CASE ~(how = "cached" /\ kept # NoRead)
  <2>1. PICK i \in ReadId :
          /\ Free(i)
          /\ reads' = [reads EXCEPT ![i] = [at |-> "sent", value |-> {}]]
          /\ open' = [p EXCEPT !.waits = @ \cup {w(i)}]
          /\ queryCache' = IF how = "cached" THEN i ELSE kept
    BY <1>3 DEF AskFor
  <2>2. /\ PageShape(open') /\ open'.waits = p.waits \cup {w(i)}
        /\ open'.shown = p.shown /\ open'.floor = p.floor
    BY <1>1, <2>1
  <2>3. /\ reads' \in [ReadId -> [at : {"none", "sent", "served"}, value : SUBSET Change]]
        /\ reads'[i].at = "sent" /\ \A j \in ReadId \ {i} : reads'[j] = reads[j]
    BY <2>1 DEF ReadsInv
  <2>4. WaitsAreNew'
    BY <2>1, <2>2, <2>3 DEF ReadsInv, WaitsAreNew, Free, Wait
  <2>5. EntryIsNew' /\ (queryCache \in ReadId \cup {NoRead})'
    BY <2>1, <2>3 DEF ReadsInv, EntryIsNew, Free
  <2>6. QED
    BY <2>2, <2>3, <2>4, <2>5 DEF ReadsInv, PageShape, Wait
<1>4. QED
  BY <1>2, <1>3

LEMMA LoadedIsNew ==
    ASSUME ReadsInv, NEW p, PageShape(p), p.waits \subseteq open.waits, NEW kept,
           acked \subseteq acked', acked' \subseteq Change,
           kept # NoRead => kept = queryCache /\ acked' = acked,
           Load(p, kept)
    PROVE  ReadsInv' /\ open'.shown = p.shown /\ open'.floor = p.floor
<1>1. CASE ReadsOf(p.at) = {}
  <2>1. open' = p /\ queryCache' = kept /\ reads' = reads
    BY <1>1 DEF Load
  <2>2. QED
    BY <2>1 DEF ReadsInv, EntryIsNew, WaitsAreNew, PageShape
<1>2. CASE ReadsOf(p.at) # {}
  <2>1. PICK r \in ReadsOf(p.at) : AskFor(p, r.how, kept)
    BY <1>2 DEF Load
  <2>2. QED
    BY <2>1, AskedIsNew
<1>3. QED
  BY <1>1, <1>2

\* A step of the pages: the handlers are left, and what is shown is not taken away.
LEMMA PageMoves ==
    ASSUME ClientInv, UNCHANGED <<changed, acked, clicks>>, ReadsInv', ReadYourWrites',
           (open.shown # NoRead => open.shown \subseteq Change)', (open.floor \subseteq Change)',
           \/ mount' = mount /\ (open.shown = NoRead \/ open'.shown # NoRead)
           \/ mount' = mount + 1
    PROVE  ClientInv'
<1>1. mount \in Nat /\ mount' \in Nat
  BY DEF ClientInv, ClientTypeOK
<1>2. HandlersKnow'
  BY <1>1 DEF ClientInv, ClientTypeOK, HandlersKnow, Told, Pending, AddsToPage
<1>3. (DOMAIN clicks = Change /\ clicks = [c \in Change |-> clicks[c]])'
  BY DEF ClientInv, ClientTypeOK
<1>4. (\A c \in Change : ClickShape(clicks[c]) /\ clicks[c].mount \in Nat)'
  BY DEF ClientInv, ClientTypeOK, ClickShape
<1>5. (acked \subseteq changed /\ changed \subseteq Change)'
  BY DEF ClientInv, ClientTypeOK
<1>6. QED
  BY <1>1, <1>2, <1>3, <1>4, <1>5 DEF ClientInv, ClientTypeOK, ReadsInv

LEMMA OpenPageKeeps ==
    ASSUME ClientInv, NEW p, OpenPage(p)
    PROVE  ClientInv'
<1>1. PICK page : page = NewPage(p)
  OBVIOUS
<1>2. PageShape(page) /\ page.waits = {} /\ page.shown = NoRead /\ page.floor = {}
  BY <1>1 DEF NewPage, PageShape
<1>3. ReadsInv /\ acked \subseteq Change
  BY DEF ClientInv, ClientTypeOK, ReadsInv
<1>4. Load(page, queryCache) /\ UNCHANGED <<changed, acked, clicks>> /\ mount' = mount + 1
  BY <1>1 DEF OpenPage
<1>5. ReadsInv' /\ open'.shown = NoRead /\ open'.floor = {}
  BY <1>2, <1>3, <1>4, LoadedIsNew
<1>6. QED
  BY <1>4, <1>5, PageMoves DEF ReadYourWrites

LEMMA ReadSteps ==
    ASSUME ClientInv, NEW i \in ReadId, ServeRead(i) \/ ReadFails(i)
    PROVE  ClientInv'
<1>1. ReadsInv /\ acked \subseteq changed /\ changed \subseteq Change
  BY DEF ClientInv, ClientTypeOK, ReadsInv
<1>2. UNCHANGED <<changed, acked, clicks, mount>>
  BY DEF ServeRead, ReadFails
<1>3. CASE ServeRead(i)
  <2>1. /\ reads' = [reads EXCEPT ![i] = [at |-> "served", value |-> changed]]
        /\ UNCHANGED <<queryCache, open>>
    BY <1>3 DEF ServeRead
  <2>2. /\ reads' \in [ReadId -> [at : {"none", "sent", "served"}, value : SUBSET Change]]
        /\ reads'[i].value = changed /\ \A j \in ReadId \ {i} : reads'[j] = reads[j]
    BY <1>1, <2>1 DEF ReadsInv
  <2>3. EntryIsNew'
    BY <1>1, <1>2, <2>1, <2>2 DEF EntryIsNew, ReadsInv
  <2>4. WaitsAreNew'
    BY <1>1, <1>2, <2>1, <2>2 DEF WaitsAreNew, ReadsInv, Wait
  <2>5. ReadsInv'
    BY <1>1, <2>1, <2>2, <2>3, <2>4 DEF ReadsInv, PageShape
  <2>6. QED
    BY <1>2, <2>1, <2>5, PageMoves DEF ClientInv, ClientTypeOK, ReadYourWrites
<1>4. CASE ReadFails(i)
  <2>1. /\ reads' = [reads EXCEPT ![i] = [at |-> "none", value |-> {}]]
        /\ queryCache' \in {queryCache, NoRead} /\ queryCache' # i
        /\ open' = [open EXCEPT !.waits = {w \in open.waits : w.read # i}]
    BY <1>4, PortClientAssumption DEF ReadFails, NoReadYet
  <2>2. /\ reads' \in [ReadId -> [at : {"none", "sent", "served"}, value : SUBSET Change]]
        /\ reads'[i].at = "none" /\ \A j \in ReadId \ {i} : reads'[j] = reads[j]
    BY <1>1, <2>1 DEF ReadsInv
  <2>3. /\ PageShape(open') /\ open'.waits = {w \in open.waits : w.read # i}
        /\ open'.shown = open.shown /\ open'.floor = open.floor
    BY <1>1, <2>1 DEF ReadsInv, PageShape
  <2>4. EntryIsNew'
    BY <1>1, <1>2, <2>1, <2>2 DEF EntryIsNew, ReadsInv
  <2>5. WaitsAreNew'
    BY <1>1, <1>2, <2>2, <2>3 DEF WaitsAreNew, ReadsInv, Wait
  <2>6. ReadsInv'
    BY <1>1, <2>1, <2>2, <2>3, <2>4, <2>5 DEF ReadsInv, PageShape
  <2>7. QED
    BY <1>2, <2>3, <2>6, PageMoves DEF ClientInv, ClientTypeOK, ReadYourWrites
<1>5. QED
  BY <1>3, <1>4

LEMMA AnswerSteps ==
    ASSUME ClientInv, NEW w \in open.waits, TakeAnswer(w) \/ LoadFails(w)
    PROVE  ClientInv'
<1>1. ReadsInv /\ w \in Wait /\ acked \subseteq Change
  BY DEF ClientInv, ClientTypeOK, ReadsInv
<1>2. UNCHANGED <<changed, acked, clicks, mount, reads, queryCache>>
  BY DEF TakeAnswer, LoadFails
<1>3. PageShape(open') /\ open'.waits = open.waits \ {w}
  BY <1>1 DEF TakeAnswer, LoadFails, ReadsInv, PageShape
<1>4. ReadsInv'
  BY <1>1, <1>2, <1>3 DEF ReadsInv, PageShape, EntryIsNew, WaitsAreNew
<1>5. CASE TakeAnswer(w)
  <2>1. reads[w.read].at = "served" /\ open'.shown = reads[w.read].value /\ open'.floor = w.due
    BY <1>1, <1>5 DEF TakeAnswer, ReadsInv, PageShape
  <2>2. w.due \subseteq reads[w.read].value /\ w.due \subseteq Change /\ reads[w.read].value \in SUBSET Change
    BY <1>1, <2>1 DEF ReadsInv, WaitsAreNew, Wait
  <2>3. open'.shown # NoRead
    BY <2>1, <2>2, PortClientAssumption
  <2>4. QED
    BY <1>2, <1>4, <2>1, <2>2, <2>3, PageMoves DEF ReadYourWrites
<1>6. CASE LoadFails(w)
  <2>1. open'.shown = open.shown /\ open'.floor = open.floor
    BY <1>1, <1>6 DEF LoadFails, ReadsInv, PageShape
  <2>2. QED
    BY <1>2, <1>4, <2>1, PageMoves DEF ClientInv, ClientTypeOK, ReadYourWrites
<1>7. QED
  BY <1>5, <1>6

LEMMA SessionSteps ==
    ASSUME ClientInv, ExpireEntry \/ TokenEnds
    PROVE  ClientInv'
<1>1. UNCHANGED <<changed, acked, clicks, mount, reads, open>> /\ queryCache' \in {queryCache, NoRead}
  BY DEF ExpireEntry, TokenEnds, pageVars
<1>2. ReadsInv
  BY DEF ClientInv, ClientTypeOK, ReadsInv
<1>3. ReadsInv'
  BY <1>1, <1>2 DEF ReadsInv, PageShape, EntryIsNew, WaitsAreNew
<1>4. QED
  BY <1>1, <1>3, PageMoves DEF ClientInv, ClientTypeOK, ReadYourWrites

\* The answer to a change comes, and the cache has no entry that is older.
LEMMA AcknowledgeKeeps ==
    ASSUME ClientInv, NEW c \in Change, Acknowledge(c)
    PROVE  ClientInv'
<1>1. PICK k : k = clicks[c]
  OBVIOUS
<1>2. /\ ReadsInv /\ ReadYourWrites /\ mount \in Nat /\ PageShape(open)
      /\ acked \subseteq changed /\ changed \subseteq Change
      /\ (open.shown # NoRead => open.shown \subseteq Change) /\ open.floor \subseteq Change
  BY DEF ClientInv, ClientTypeOK, ReadsInv
<1>3. /\ c \in changed /\ k.answer \subseteq Change /\ k.floor \cup {c} \subseteq k.answer
      /\ AddsToPage(k) /\ k.mount = mount => open.shown # NoRead
  BY <1>1 DEF ClientInv, HandlersKnow, Told, Acknowledge, Pending
<1>4. /\ acked' = acked \cup {c} /\ changed' = changed
      /\ clicks' = [clicks EXCEPT ![c] = [NoClick EXCEPT !.at = "over"]]
      /\ mount' = IF k.handler.after = "leave" THEN mount + 1 ELSE mount
  BY <1>1 DEF Acknowledge, Ends
<1>5. acked \subseteq acked' /\ acked' \subseteq changed' /\ changed' \subseteq Change /\ acked' \subseteq Change
  BY <1>2, <1>3, <1>4
<1>6. mount' \in Nat /\ mount <= mount'
  BY <1>2, <1>4
<1>7. \/ /\ k.handler.after = "answer" /\ k.mount = mount
         /\ open' = [open EXCEPT !.shown = k.answer, !.floor = k.floor \cup {c}]
         /\ queryCache' = NoRead /\ reads' = reads
      \/ /\ k.handler.after = "local" /\ k.mount = mount
         /\ open' = [open EXCEPT !.shown = open.shown \cup {c}, !.floor = open.floor \cup {c}]
         /\ queryCache' = NoRead /\ reads' = reads
      \/ k.handler.after = "again" /\ AskFor(open, "direct", NoRead)
      \/ k.handler.after = "reload" /\ Load(open, NoRead)
      \/ k.handler.after = "leave" /\ Load(NewPage(k.handler.to), NoRead)
      \/ k.handler.after # "leave" /\ queryCache' = NoRead /\ UNCHANGED <<open, reads>>
  BY <1>1 DEF Acknowledge, Invalidated
<1>8. SUFFICES /\ ReadsInv' /\ ReadYourWrites'
               /\ (open.shown # NoRead => open.shown \subseteq Change)' /\ open'.floor \subseteq Change
               /\ mount' = mount => open.shown = NoRead \/ open'.shown # NoRead
  BY <1>4, <1>5, <1>6, OthersKnow DEF ClientInv, ClientTypeOK, ReadsInv
<1>9. ASSUME queryCache' = NoRead, reads' = reads, PageShape(open'), open'.waits = open.waits
      PROVE  ReadsInv'
  BY <1>2, <1>5, <1>9 DEF ReadsInv, EntryIsNew, WaitsAreNew, PageShape
<1>10. CASE /\ k.handler.after = "answer" /\ k.mount = mount
            /\ open' = [open EXCEPT !.shown = k.answer, !.floor = k.floor \cup {c}]
            /\ queryCache' = NoRead /\ reads' = reads
  <2>1. /\ PageShape(open') /\ open'.waits = open.waits
        /\ open'.shown = k.answer /\ open'.floor = k.floor \cup {c}
    BY <1>2, <1>10 DEF PageShape
  <2>2. QED
    BY <1>3, <1>9, <1>10, <2>1, PortClientAssumption DEF ReadYourWrites
<1>11. CASE /\ k.handler.after = "local" /\ k.mount = mount
            /\ open' = [open EXCEPT !.shown = open.shown \cup {c}, !.floor = open.floor \cup {c}]
            /\ queryCache' = NoRead /\ reads' = reads
  <2>1. /\ PageShape(open') /\ open'.waits = open.waits
        /\ open'.shown = open.shown \cup {c} /\ open'.floor = open.floor \cup {c}
    BY <1>2, <1>11 DEF PageShape
  <2>2. open.shown # NoRead
    BY <1>3, <1>11 DEF AddsToPage
  <2>3. open'.shown \subseteq Change /\ open'.floor \subseteq Change /\ open'.floor \subseteq open'.shown
    BY <1>2, <2>1, <2>2 DEF ReadYourWrites
  <2>4. QED
    BY <1>9, <1>11, <2>1, <2>3, PortClientAssumption DEF ReadYourWrites
<1>12. CASE (k.handler.after = "again" /\ AskFor(open, "direct", NoRead))
            \/ (k.handler.after = "reload" /\ Load(open, NoRead))
  <2>1. ReadsInv' /\ open'.shown = open.shown /\ open'.floor = open.floor
    BY <1>2, <1>5, <1>12, AskedIsNew, LoadedIsNew
  <2>2. QED
    BY <1>2, <2>1 DEF ReadYourWrites
<1>13. CASE k.handler.after = "leave" /\ Load(NewPage(k.handler.to), NoRead)
  <2>1. PICK page : page = NewPage(k.handler.to)
    OBVIOUS
  <2>2. PageShape(page) /\ page.waits = {} /\ page.shown = NoRead /\ page.floor = {}
    BY <2>1 DEF NewPage, PageShape
  <2>3. Load(page, NoRead) /\ mount' # mount
    BY <1>2, <1>4, <1>13, <2>1
  <2>4. ReadsInv' /\ open'.shown = NoRead /\ open'.floor = {}
    BY <1>2, <1>5, <2>2, <2>3, LoadedIsNew
  <2>5. QED
    BY <2>3, <2>4 DEF ReadYourWrites
<1>14. CASE k.handler.after # "leave" /\ queryCache' = NoRead /\ UNCHANGED <<open, reads>>
  BY <1>2, <1>9, <1>14 DEF ReadYourWrites
<1>15. QED
  BY <1>7, <1>10, <1>11, <1>12, <1>13, <1>14

LEMMA ClientKept == ClientInv /\ [ClientNext]_clientVars => ClientInv'
<1> SUFFICES ASSUME ClientInv, [ClientNext]_clientVars PROVE ClientInv'
  OBVIOUS
<1>1. ASSUME NEW p \in Page, OpenPage(p) PROVE ClientInv'
  BY <1>1, OpenPageKeeps
<1>2. ASSUME NEW i \in ReadId, ServeRead(i) \/ ReadFails(i) PROVE ClientInv'
  BY <1>2, ReadSteps
<1>3. ASSUME NEW w \in open.waits, TakeAnswer(w) \/ LoadFails(w) PROVE ClientInv'
  BY <1>3, AnswerSteps
<1>4. CASE ExpireEntry \/ TokenEnds
  BY <1>4, SessionSteps
<1>5. ASSUME NEW c \in Change, NEW h \in HandlersOf(open.at), Click(c, h) PROVE ClientInv'
  BY <1>5, ClickKeeps
<1>6. ASSUME NEW c \in Change,
             FetchToken(c) \/ RefuseToken(c) \/ Apply(c) \/ Acknowledge(c) \/ ChangeLost(c)
      PROVE  ClientInv'
  BY <1>6, HandlerSteps, ApplyKeeps, AcknowledgeKeeps
<1>7. CASE UNCHANGED clientVars
  <2>1. ReadsInv'
    BY <1>7 DEF clientVars, ClientInv, ClientTypeOK, ReadsInv, PageShape, EntryIsNew, WaitsAreNew
  <2>2. QED
    BY <1>7, <2>1, PageMoves DEF clientVars, ClientInv, ClientTypeOK, ReadYourWrites
<1>8. QED
  BY <1>1, <1>2, <1>3, <1>4, <1>5, <1>6, <1>7 DEF ClientNext

\* A page shows the changes of its client that were acknowledged when it asked, for
\* any number of changes, reads and pages, whatever fails (api.ts: cachedRequest,
\* perform; the handlers of the pages).
THEOREM ReadYourWritesHolds == ClientSpec => []ReadYourWrites
<1>1. ClientInv => ReadYourWrites
  BY DEF ClientInv
<1>2. QED
  BY <1>1, ClientInitially, ClientKept, PTL DEF ClientSpec

-------------------------------------------------------------------------------
(* Sequences: what the operators hold that put a plan together.               *)

\* A set of numbers has a least one.
LEMMA LeastNatural ==
    ASSUME NEW T, T \subseteq Nat, T # {}
    PROVE  \E n \in T : \A m \in T : n <= m
<1> DEFINE R == OpToRel(<, Nat)
<1>1. IsWellFoundedOn(R, Nat)
  BY NatLessThanWellFounded
<1>2. \A m, n \in Nat : m < n => <<m, n>> \in R
  BY DEF OpToRel
<1> HIDE DEF R
<1>3. PICK n \in T : \A m \in T : ~ (<<m, n>> \in R)
  BY <1>1, WFMin, Zenon
<1>4. \A m \in T : ~ (m < n)
  BY <1>2, <1>3, Zenon
<1>5. QED
  BY <1>4

\* Induction on the numbers of a set.
LEMMA InductionOnSet ==
    ASSUME NEW T, 0 \in T, \A n \in Nat : n \in T => n + 1 \in T
    PROVE  Nat \subseteq T
<1> SUFFICES ASSUME Nat \ T # {} PROVE FALSE
  OBVIOUS
<1>1. PICK n \in Nat \ T : \A m \in Nat \ T : n <= m
  BY LeastNatural
<1>2. n # 0 /\ n - 1 \in Nat
  BY <1>1
<1>3. n - 1 \in T
  BY <1>1, <1>2
<1>4. n \in T
  BY <1>2, <1>3
<1>5. QED
  BY <1>4

\* What FlattenSeq comes to, one sequence after the other.
Flattens(f, seqs, n) == f = [i \in 1 .. n |-> IF i = 1 THEN seqs[i] ELSE f[i - 1] \o seqs[i]]

\* There is such a function, of every length.
LEMMA FlattenExists ==
    ASSUME NEW S, NEW seqs \in Seq(Seq(S))
    PROVE  \A n \in Nat : n # 0 /\ n <= Len(seqs) => \E f \in [1 .. n -> Seq(S)] : Flattens(f, seqs, n)
<1> DEFINE P(n) == n # 0 /\ n <= Len(seqs) => \E f \in [1 .. n -> Seq(S)] : Flattens(f, seqs, n)
           T == {n \in Nat : P(n)}
<1>1. \A i \in 1 .. Len(seqs) : seqs[i] \in Seq(S)
  OBVIOUS
<1>2. ASSUME NEW n \in Nat, P(n), n + 1 <= Len(seqs)
      PROVE  \E g \in [1 .. n + 1 -> Seq(S)] : Flattens(g, seqs, n + 1)
  <2>1. CASE n = 0
    <3> DEFINE g == [i \in 1 .. 1 |-> seqs[1]]
    <3>0. seqs[1] \in Seq(S)
      BY <1>1, <1>2, <2>1
    <3>1. g \in [1 .. 1 -> Seq(S)]
      BY <3>0
    <3>2. g = [i \in 1 .. 1 |-> IF i = 1 THEN seqs[i] ELSE g[i - 1] \o seqs[i]]
      OBVIOUS
    <3>3. n + 1 = 1
      BY <2>1
    <3>4. QED
      BY <3>1, <3>2, <3>3 DEF Flattens
  <2>2. CASE n # 0
    <3>1. PICK f \in [1 .. n -> Seq(S)] : Flattens(f, seqs, n)
      BY <1>2, <2>2
    <3>f. \A i \in 1 .. n : f[i] = IF i = 1 THEN seqs[i] ELSE f[i - 1] \o seqs[i]
      BY <3>1 DEF Flattens
    <3> DEFINE g == [i \in 1 .. n + 1 |-> IF i = n + 1 THEN f[n] \o seqs[n + 1] ELSE f[i]]
    <3>2. f[n] \o seqs[n + 1] \in Seq(S)
      <4>1. f[n] \in Seq(S) /\ seqs[n + 1] \in Seq(S)
        BY <1>1, <1>2, <2>2
      <4>2. QED
        BY <4>1
    <3>3. g \in [1 .. n + 1 -> Seq(S)]
      BY <3>2
    <3>4. \A i \in 1 .. n + 1 : g[i] = IF i = 1 THEN seqs[i] ELSE g[i - 1] \o seqs[i]
      <4>1. ASSUME NEW i \in 1 .. n + 1 PROVE g[i] = IF i = 1 THEN seqs[i] ELSE g[i - 1] \o seqs[i]
        <5>1. CASE i = n + 1
          <6>1. i # 1 /\ i - 1 = n /\ n \in 1 .. n + 1 /\ n # n + 1
            BY <2>2, <5>1
          <6>2. g[n] = f[n] /\ g[i] = f[n] \o seqs[n + 1]
            BY <5>1, <6>1
          <6>3. QED
            BY <5>1, <6>1, <6>2
        <5>2. CASE i # n + 1 /\ i # 1
          <6>1. i \in 1 .. n /\ i - 1 \in 1 .. n /\ g[i] = f[i] /\ g[i - 1] = f[i - 1]
            BY <4>1, <5>2
          <6>2. QED
            BY <3>f, <5>2, <6>1
        <5>3. CASE i # n + 1 /\ i = 1
          <6>1. i \in 1 .. n /\ g[i] = f[i]
            BY <2>2, <4>1, <5>3
          <6>2. QED
            BY <3>f, <5>3, <6>1
        <5>4. QED
          BY <5>1, <5>2, <5>3
      <4>2. QED
        BY <4>1
    <3>5. Flattens(g, seqs, n + 1)
      BY <3>4 DEF Flattens
    <3>6. QED
      BY <3>3, <3>5
  <2>3. QED
    BY <2>1, <2>2
<1>3. \A n \in Nat : P(n) => P(n + 1)
  <2> HIDE DEF T
  <2> SUFFICES ASSUME NEW n \in Nat, P(n), n + 1 <= Len(seqs)
               PROVE  \E g \in [1 .. n + 1 -> Seq(S)] : Flattens(g, seqs, n + 1)
    OBVIOUS
  <2>1. QED
    BY <1>2
<1>t. 0 \in T /\ \A n \in Nat : n \in T => n + 1 \in T
  <2> HIDE DEF P
  <2>1. P(0)
    BY DEF P
  <2>2. QED
    BY <1>3, <2>1
<1>4. Nat \subseteq T
  BY <1>t, InductionOnSet
<1>5. QED
  BY <1>4

\* One sequence after the other has the elements of both.
LEMMA ConcatRange ==
    ASSUME NEW S, NEW s \in Seq(S), NEW t \in Seq(S)
    PROVE  s \o t \in Seq(S) /\ Range(s \o t) = Range(s) \cup Range(t)
<1>1. /\ s \o t \in Seq(S) /\ DOMAIN (s \o t) = 1 .. Len(s) + Len(t)
      /\ \A k \in 1 .. Len(s) + Len(t) : (s \o t)[k] = IF k <= Len(s) THEN s[k] ELSE t[k - Len(s)]
  OBVIOUS
<1>2. Range(s \o t) \subseteq Range(s) \cup Range(t)
  <2> SUFFICES ASSUME NEW k \in 1 .. Len(s) + Len(t) PROVE (s \o t)[k] \in Range(s) \cup Range(t)
    BY <1>1 DEF Range
  <2>1. CASE k <= Len(s)
    BY <1>1, <2>1 DEF Range
  <2>2. CASE ~ k <= Len(s)
    <3>1. k - Len(s) \in DOMAIN t /\ (s \o t)[k] = t[k - Len(s)]
      BY <1>1, <2>2
    <3>2. QED
      BY <3>1 DEF Range
  <2>3. QED
    BY <2>1, <2>2
<1>3. \A k \in DOMAIN s : s[k] \in Range(s \o t)
  <2> SUFFICES ASSUME NEW k \in DOMAIN s PROVE s[k] \in Range(s \o t)
    OBVIOUS
  <2>1. k \in DOMAIN (s \o t) /\ (s \o t)[k] = s[k]
    BY <1>1
  <2>2. QED
    BY <2>1 DEF Range
<1>4. \A k \in DOMAIN t : t[k] \in Range(s \o t)
  <2> SUFFICES ASSUME NEW k \in DOMAIN t PROVE t[k] \in Range(s \o t)
    OBVIOUS
  <2>1. Len(s) + k \in DOMAIN (s \o t) /\ (s \o t)[Len(s) + k] = t[k]
    <3>1. Len(s) \in Nat /\ k \in 1 .. Len(t) /\ Len(t) \in Nat
      OBVIOUS
    <3>2. Len(s) + k \in 1 .. Len(s) + Len(t) /\ ~ Len(s) + k <= Len(s) /\ (Len(s) + k) - Len(s) = k
      BY <3>1
    <3>3. QED
      BY <1>1, <3>2
  <2>2. QED
    BY <2>1 DEF Range
<1>5. QED
  BY <1>1, <1>2, <1>3, <1>4 DEF Range

\* FlattenSeq has the elements of all its sequences.
LEMMA FlattenSeqRange ==
    ASSUME NEW S, NEW seqs \in Seq(Seq(S))
    PROVE  /\ FlattenSeq(seqs) \in Seq(S)
           /\ Range(FlattenSeq(seqs)) = UNION {Range(seqs[i]) : i \in DOMAIN seqs}
<1>1. CASE Len(seqs) = 0
  <2>1. FlattenSeq(seqs) = seqs /\ seqs = <<>> /\ DOMAIN seqs = {}
    BY <1>1 DEF FlattenSeq
  <2>2. QED
    BY <2>1 DEF Range
<1>2. CASE Len(seqs) # 0
  <2> DEFINE f == CHOOSE f : Flattens(f, seqs, Len(seqs))
             Upto(n) == UNION {Range(seqs[i]) : i \in 1 .. n}
  <2>1. PICK g \in [1 .. Len(seqs) -> Seq(S)] : Flattens(g, seqs, Len(seqs))
    BY <1>2, FlattenExists
  <2>2. Flattens(f, seqs, Len(seqs))
    BY <2>1, Zenon
  <2>3. FlattenSeq(seqs) = f[Len(seqs)]
    BY <1>2 DEF FlattenSeq, Flattens
  <2> HIDE DEF f
  <2>4. \A i \in 1 .. Len(seqs) : f[i] = IF i = 1 THEN seqs[i] ELSE f[i - 1] \o seqs[i]
    BY <2>2 DEF Flattens
  <2>d. \A i \in 1 .. Len(seqs) : seqs[i] \in Seq(S)
    OBVIOUS
  <2>n. Len(seqs) \in Nat
    OBVIOUS
  \* It is the function that exists, and has its type.
  <2> DEFINE Good(n) == f[n] \in Seq(S) /\ Range(f[n]) = Upto(n)
             P(n)    == n # 0 /\ n <= Len(seqs) => Good(n)
             U       == {n \in Nat : P(n)}
  <2>5. ASSUME NEW n \in Nat, P(n), n + 1 <= Len(seqs) PROVE Good(n + 1)
    <3>1. CASE n = 0
      <4>1. f[1] = seqs[1] /\ seqs[1] \in Seq(S) /\ 1 .. 1 = {1}
        <5>1. 1 \in 1 .. Len(seqs)
          BY <2>5, <2>n, <3>1
        <5>2. f[1] = seqs[1] /\ seqs[1] \in Seq(S)
          BY <2>4, <2>d, <5>1
        <5>3. QED
          BY <5>2
      <4>2. Upto(1) = Range(seqs[1])
        BY <4>1
      <4>3. QED
        BY <3>1, <4>1, <4>2
    <3>2. CASE n # 0
      <4>1. f[n] \in Seq(S) /\ Range(f[n]) = Upto(n)
        <5>1. n <= Len(seqs)
          BY <2>5, <2>n
        <5>2. QED
          BY <2>5, <3>2, <5>1
      <4>2. n + 1 \in 1 .. Len(seqs) /\ n + 1 # 1 /\ (n + 1) - 1 = n
        BY <2>5, <2>n, <3>2
      <4>3. f[n + 1] = f[n] \o seqs[n + 1] /\ seqs[n + 1] \in Seq(S)
        BY <2>4, <2>d, <4>2
      <4>4. f[n + 1] \in Seq(S) /\ Range(f[n + 1]) = Upto(n) \cup Range(seqs[n + 1])
        BY <4>1, <4>3, ConcatRange
      <4>5. 1 .. n + 1 = (1 .. n) \cup {n + 1}
        BY <3>2
      <4>6. Upto(n + 1) = Upto(n) \cup Range(seqs[n + 1])
        BY <4>5
      <4>7. QED
        BY <4>4, <4>6
    <3>3. QED
      BY <3>1, <3>2
  <2>6. Nat \subseteq U
    <3> HIDE DEF Good
    <3>1. \A n \in Nat : P(n) => P(n + 1)
      <4> SUFFICES ASSUME NEW n \in Nat, P(n), n + 1 <= Len(seqs) PROVE Good(n + 1)
        OBVIOUS
      <4>1. QED
        BY <2>5
    <3>2. P(0)
      OBVIOUS
    <3> HIDE DEF P
    <3>3. 0 \in U /\ \A n \in Nat : n \in U => n + 1 \in U
      BY <3>1, <3>2
    <3> HIDE DEF U
    <3>4. QED
      BY <3>3, InductionOnSet
  <2>7. Good(Len(seqs))
    <3> HIDE DEF Good
    <3>1. QED
      BY <1>2, <2>6, <2>n
  <2>8. Upto(Len(seqs)) = UNION {Range(seqs[i]) : i \in DOMAIN seqs}
    <3>1. DOMAIN seqs = 1 .. Len(seqs)
      OBVIOUS
    <3>2. QED
      BY <3>1, Zenon
  <2>9. QED
    BY <2>3, <2>7, <2>8
<1>3. QED
  BY <1>1, <1>2

\* SetToSeq puts the elements of a finite set one after the other.
LEMMA SetToSeqRange ==
    ASSUME NEW S, IsFiniteSet(S)
    PROVE  SetToSeq(S) \in Seq(S) /\ Range(SetToSeq(S)) = S
<1> DEFINE n == Cardinality(S)
           f == SetToSeq(S)
<1>1. n \in Nat /\ ExistsBijection(1 .. n, S)
  BY FS_CardinalityType
<1>2. PICK g : g \in Bijection(1 .. n, S)
  BY <1>1 DEF ExistsBijection
<1>3. g \in [1 .. n -> S] /\ IsInjective(g)
  BY <1>2 DEF Bijection, Injection, IsInjective
<1>4. f \in [1 .. n -> S] /\ IsInjective(f)
  BY <1>3, Zenon DEF SetToSeq
<1> HIDE DEF f
<1>5. f \in Injection(1 .. n, S)
  BY <1>4 DEF Injection, IsInjective
<1>6. IsFiniteSet(1 .. n) /\ Cardinality(1 .. n) = n
  BY <1>1, FS_Interval
<1>7. f \in Surjection(1 .. n, S)
  BY <1>5, <1>6, FS_Injection
<1>8. f \in Seq(S) /\ Range(f) = S
  BY <1>1, <1>4, <1>7 DEF Surjection, Range
<1>9. QED
  BY <1>8 DEF f

\* What a sequence holds is of its set.
LEMMA ElementOfSeq ==
    ASSUME NEW S, NEW s \in Seq(S), NEW k \in DOMAIN s
    PROVE  s[k] \in S
OBVIOUS

-------------------------------------------------------------------------------
(* The indexes.                                                                *)

Command == {Drop(n) : n \in IndexName} \cup {Create(Managed[k]) : k \in DOMAIN Managed}

IndexTypeOK ==
    /\ indexes \in [IndexName -> IndexShape \cup {NoIndex}]
    /\ syncPlan \in Seq(Command)
    /\ syncPhase \in {"fresh", "idle", "applying", "done", "failed"}

\* A plan drops no index that is as the schema wants it, nor one it has created.
KeepsGood(plan, actual) ==
    \A k \in DOMAIN plan, n \in ManagedNames : plan[k] = Drop(n) =>
        /\ actual[n] # ManagedIndexes[n]
        /\ \A j \in 1 .. k - 1 : plan[j].name = n => plan[j].type = "drop"

\* A plan creates what is missing and drops what is not wanted.
LeadsToManaged(plan, actual) ==
    \A n \in IndexName :
        IF n \in ManagedNames
        THEN \/ actual[n] = ManagedIndexes[n]
             \/ \E k \in DOMAIN plan : plan[k] = [type |-> "create", name |-> n, shape |-> ManagedIndexes[n]]
        ELSE actual[n] = NoIndex \/ \E k \in DOMAIN plan : plan[k] = Drop(n)

IndexInv ==
    /\ IndexTypeOK
    /\ syncPhase = "applying" => KeepsGood(syncPlan, indexes) /\ LeadsToManaged(syncPlan, indexes)
    /\ SyncedIsManaged

\* A managed index is found under its name.
LEMMA ManagedByName ==
    /\ ManagedNames \subseteq IndexName
    /\ \A k \in DOMAIN Managed :
          /\ Managed[k].name \in ManagedNames /\ Managed[k].shape \in IndexShape
          /\ ManagedIndexes[Managed[k].name] = Managed[k].shape
    /\ \A n \in IndexName : n \notin ManagedNames => ManagedIndexes[n] = NoIndex
    /\ \A n \in ManagedNames : \E k \in DOMAIN Managed : n = Managed[k].name /\ ManagedIndexes[n] = Managed[k].shape
    /\ \A n \in ManagedNames : ManagedIndexes[n] # NoIndex
<1>1. \A k \in DOMAIN Managed : Managed[k].name \in IndexName /\ Managed[k].shape \in IndexShape
  <2> DEFINE Listed == [name : IndexName, shape : IndexShape]
  <2>1. Managed \in Seq(Listed)
    BY IndexAssumption
  <2> HIDE DEF Listed
  <2>2. \A k \in DOMAIN Managed : Managed[k] \in Listed
    BY <2>1, ElementOfSeq
  <2>3. QED
    BY <2>2 DEF Listed
<1>2. ManagedNames \subseteq IndexName
  BY <1>1 DEF ManagedNames
<1>3. ASSUME NEW k \in DOMAIN Managed
      PROVE  Managed[k].name \in ManagedNames /\ ManagedIndexes[Managed[k].name] = Managed[k].shape
  <2> DEFINE i == CHOOSE i \in DOMAIN Managed : Managed[i].name = Managed[k].name
  <2>1. i \in DOMAIN Managed /\ Managed[i].name = Managed[k].name
    BY <1>3
  <2>2. i = k
    BY <2>1, IndexAssumption
  <2>3. Managed[k].name \in ManagedNames
    BY DEF ManagedNames
  <2>4. ManagedIndexes[Managed[k].name] = Managed[i].shape
    BY <1>2, <2>3 DEF ManagedIndexes
  <2>5. QED
    BY <2>2, <2>3, <2>4
<1>4. \A n \in ManagedNames : \E k \in DOMAIN Managed : n = Managed[k].name
  BY DEF ManagedNames
<1>5. \A n \in IndexName : n \notin ManagedNames => ManagedIndexes[n] = NoIndex
  BY DEF ManagedIndexes
<1>6. QED
  BY <1>1, <1>2, <1>3, <1>4, <1>5, IndexAssumption

\* A sequence over a set is one over a larger set.
LEMMA SeqGrows ==
    ASSUME NEW S, NEW Larger, S \subseteq Larger, NEW s \in Seq(S)
    PROVE  s \in Seq(Larger)
OBVIOUS

\* The sequences of one element and of none.
LEMMA RangeOfOne ==
    /\ \A x : Range(<<x>>) = {x}
    /\ Range(<<>>) = {}
    /\ \A S : <<>> \in Seq(S)
    /\ \A S : \A x \in S : <<x>> \in Seq(S)
<1>1. \A x : DOMAIN <<x>> = {1} /\ <<x>>[1] = x
  OBVIOUS
<1>2. \A x : Range(<<x>>) = {x}
  BY <1>1 DEF Range
<1>3. QED
  BY <1>2 DEF Range

\* There are finitely many indexes to drop for the sake of another.
LEMMA EquivalentIsFinite ==
    ASSUME NEW i, NEW actual
    PROVE  IsFiniteSet(Equivalent(i, actual)) /\ Equivalent(i, actual) \subseteq IndexName
<1>1. Equivalent(i, actual) \in SUBSET IndexName
  BY DEF Equivalent
<1>2. QED
  BY <1>1, IndexAssumption, FS_Subset

\* As many drops as there are names.
LEMMA DropsAreFinite ==
    ASSUME NEW Names, IsFiniteSet(Names)
    PROVE  IsFiniteSet({Drop(n) : n \in Names})
<1> DEFINE f == [n \in Names |-> Drop(n)]
<1>1. f \in Surjection(Names, {Drop(n) : n \in Names})
  BY DEF Surjection
<1>2. QED
  BY <1>1, FS_Surjection

\* What has to go before a managed index can be created.
LEMMA PreDropsRange ==
    ASSUME NEW actual, NEW i, i.name \in IndexName
    PROVE  /\ PreDrops(i, actual) \in Seq({Drop(n) : n \in IndexName})
           /\ Range(PreDrops(i, actual)) =
                 IF Matches(i, actual) THEN {}
                 ELSE (IF actual[i.name] # NoIndex THEN {Drop(i.name)} ELSE {})
                      \cup {Drop(n) : n \in Equivalent(i, actual)}
<1> DEFINE Drops    == {Drop(n) : n \in IndexName}
           namesake == IF actual[i.name] # NoIndex THEN <<Drop(i.name)>> ELSE <<>>
           renamed  == {Drop(n) : n \in Equivalent(i, actual)}
<1>1. SetToSeq(renamed) \in Seq(renamed) /\ Range(SetToSeq(renamed)) = renamed
  BY EquivalentIsFinite, DropsAreFinite, SetToSeqRange
<1>2. renamed \subseteq Drops
  BY DEF Equivalent
<1>3. SetToSeq(renamed) \in Seq(Drops)
  BY <1>1, <1>2, SeqGrows
<1>4. namesake \in Seq(Drops) /\ Range(namesake) = IF actual[i.name] # NoIndex THEN {Drop(i.name)} ELSE {}
  <2>1. CASE actual[i.name] # NoIndex
    <3>1. Drop(i.name) \in Drops
      OBVIOUS
    <3>2. namesake = <<Drop(i.name)>>
      BY <2>1
    <3>3. QED
      BY <2>1, <3>1, <3>2, RangeOfOne
  <2>2. CASE ~ (actual[i.name] # NoIndex)
    <3>1. namesake = <<>>
      BY <2>2
    <3>2. QED
      BY <2>2, <3>1, RangeOfOne
  <2>3. QED
    BY <2>1, <2>2
<1> HIDE DEF Drops, namesake, renamed
<1>5. /\ namesake \o SetToSeq(renamed) \in Seq(Drops)
      /\ Range(namesake \o SetToSeq(renamed)) = Range(namesake) \cup renamed
  <2>1. namesake \in Seq(Drops)
    BY <1>4
  <2>2. QED
    BY <1>1, <1>3, <2>1, ConcatRange
<1>6. CASE Matches(i, actual)
  <2>1. PreDrops(i, actual) = <<>>
    BY <1>6 DEF PreDrops
  <2>2. QED
    BY <1>6, <2>1, RangeOfOne DEF Drops
<1>7. CASE ~ Matches(i, actual)
  <2>1. PreDrops(i, actual) = namesake \o SetToSeq(renamed)
    BY <1>7 DEF PreDrops, namesake, renamed
  <2>2. Range(PreDrops(i, actual)) = Range(namesake) \cup renamed
    BY <1>5, <2>1
  <2>3. QED
    BY <1>4, <1>5, <1>7, <2>1, <2>2 DEF Drops, renamed, namesake
<1>8. QED
  BY <1>6, <1>7

\* The creates of a plan are those of the wanted indexes.
LEMMA CreatesRange ==
    ASSUME NEW wanted
    PROVE  LET creates == FlattenSeq([k \in DOMAIN Managed |->
                              IF k \in wanted THEN <<Create(Managed[k])>> ELSE <<>>])
           IN  /\ creates \in Seq(Command)
               /\ Range(creates) = {Create(Managed[k]) : k \in DOMAIN Managed \cap wanted}
<1> DEFINE one(k) == IF k \in wanted THEN <<Create(Managed[k])>> ELSE <<>>
           seqs   == [k \in DOMAIN Managed |-> one(k)]
<1>1. \A k \in DOMAIN Managed : Create(Managed[k]) \in Command
  BY DEF Command
<1>2. \A k \in DOMAIN Managed : one(k) \in Seq(Command)
  BY <1>1, RangeOfOne
<1>3. \A k \in DOMAIN Managed : Range(one(k)) = IF k \in wanted THEN {Create(Managed[k])} ELSE {}
  BY RangeOfOne
<1> HIDE DEF one
<1>4. seqs \in Seq(Seq(Command)) /\ DOMAIN seqs = DOMAIN Managed /\ \A k \in DOMAIN Managed : seqs[k] = one(k)
  <2>1. Len(Managed) \in Nat /\ DOMAIN Managed = 1 .. Len(Managed)
    BY IndexAssumption
  <2>2. QED
    BY <1>2, <2>1
<1> HIDE DEF seqs
<1>5. FlattenSeq(seqs) \in Seq(Command) /\ Range(FlattenSeq(seqs)) = UNION {Range(seqs[k]) : k \in DOMAIN seqs}
  BY <1>4, FlattenSeqRange
<1>6. UNION {Range(seqs[k]) : k \in DOMAIN seqs} = {Create(Managed[k]) : k \in DOMAIN Managed \cap wanted}
  <2>1. \A k \in DOMAIN seqs : Range(seqs[k]) = IF k \in wanted THEN {Create(Managed[k])} ELSE {}
    BY <1>3, <1>4
  <2>2. QED
    BY <1>4, <2>1
<1>7. QED
  BY <1>5, <1>6 DEF seqs, one

\* Where the elements of two sequences are when one follows the other.
LEMMA ConcatAt ==
    ASSUME NEW S, NEW s \in Seq(S), NEW t \in Seq(S), NEW k \in DOMAIN (s \o t)
    PROVE  \/ /\ k \in DOMAIN s
              /\ \A j \in 1 .. k : (s \o t)[j] = s[j] /\ j \in DOMAIN s
           \/ (s \o t)[k] \in Range(t)
<1>1. /\ Len(s) \in Nat /\ Len(t) \in Nat /\ DOMAIN s = 1 .. Len(s) /\ DOMAIN t = 1 .. Len(t)
      /\ DOMAIN (s \o t) = 1 .. Len(s) + Len(t)
      /\ \A j \in 1 .. Len(s) + Len(t) : (s \o t)[j] = IF j <= Len(s) THEN s[j] ELSE t[j - Len(s)]
  OBVIOUS
<1>2. CASE k <= Len(s)
  <2>1. \A j \in 1 .. k : j \in 1 .. Len(s) + Len(t) /\ j <= Len(s) /\ j \in 1 .. Len(s)
    BY <1>1, <1>2
  <2>2. k \in 1 .. Len(s)
    BY <1>1, <1>2
  <2>3. QED
    BY <1>1, <2>1, <2>2
<1>3. CASE ~ k <= Len(s)
  <2>1. k - Len(s) \in DOMAIN t /\ (s \o t)[k] = t[k - Len(s)]
    BY <1>1, <1>3
  <2>2. QED
    BY <2>1 DEF Range
<1>4. QED
  BY <1>2, <1>3

\* A command tells its kind and its index.
LEMMA CommandsDiffer ==
    /\ \A m, n : Drop(m) = Drop(n) => m = n
    /\ \A m, i : Drop(m) # Create(i)
    /\ \A n : Drop(n).type = "drop" /\ Drop(n).name = n
    /\ \A i : Create(i).type = "create" /\ Create(i).name = i.name /\ Create(i).shape = i.shape
<1>1. \A n : Drop(n).type = "drop" /\ Drop(n).name = n
  BY DEF Drop
<1>2. \A i : Create(i).type = "create" /\ Create(i).name = i.name /\ Create(i).shape = i.shape
  BY DEF Create
<1>3. QED
  BY <1>1, <1>2

\* The plan of a sync drops nothing good, and ends with the indexes of the schema.
LEMMA PlanIsGood ==
    ASSUME NEW actual \in [IndexName -> IndexShape \cup {NoIndex}]
    PROVE  /\ PlanSync(actual) \in Seq(Command)
           /\ KeepsGood(PlanSync(actual), actual)
           /\ LeadsToManaged(PlanSync(actual), actual)
<1> DEFINE replaced == {k \in DOMAIN Managed : PreDrops(Managed[k], actual) # <<>>}
           missing  == {k \in DOMAIN Managed \ replaced : ~Matches(Managed[k], actual)}
           Creates(wanted) == FlattenSeq([k \in DOMAIN Managed |->
                                  IF k \in wanted THEN <<Create(Managed[k])>> ELSE <<>>])
           preDrops == FlattenSeq([i \in DOMAIN Managed |-> PreDrops(Managed[i], actual)])
           Dropped  == {preDrops[k].name : k \in DOMAIN preDrops}
           Obsolete == {n \in IndexName : actual[n] # NoIndex /\ n \notin ManagedNames \cup Dropped}
           A == Creates(missing)
           B == preDrops
           C == Creates(replaced)
           D == SetToSeq({Drop(n) : n \in Obsolete})
           plan == A \o B \o C \o D
<1>p. PlanSync(actual) = plan
  BY DEF PlanSync
<1>m. /\ Len(Managed) \in Nat /\ DOMAIN Managed = 1 .. Len(Managed)
      /\ \A k \in DOMAIN Managed : Managed[k].name \in IndexName
  BY IndexAssumption, ManagedByName
\* The parts of the plan.
<1>a. A \in Seq(Command) /\ Range(A) = {Create(Managed[k]) : k \in missing}
  <2>1. DOMAIN Managed \cap missing = missing
    OBVIOUS
  <2>2. QED
    BY <2>1, CreatesRange
<1>c. C \in Seq(Command) /\ Range(C) = {Create(Managed[k]) : k \in replaced}
  <2>1. DOMAIN Managed \cap replaced = replaced
    OBVIOUS
  <2>2. QED
    BY <2>1, CreatesRange
<1>b. B \in Seq(Command) /\ Range(B) = UNION {Range(PreDrops(Managed[k], actual)) : k \in DOMAIN Managed}
  <2> DEFINE seqs == [i \in DOMAIN Managed |-> PreDrops(Managed[i], actual)]
  <2>1. \A k \in DOMAIN Managed : PreDrops(Managed[k], actual) \in Seq({Drop(n) : n \in IndexName})
    BY <1>m, PreDropsRange
  <2>2. {Drop(n) : n \in IndexName} \subseteq Command
    BY DEF Command
  <2>3. \A k \in DOMAIN Managed : PreDrops(Managed[k], actual) \in Seq(Command)
    BY <2>1, <2>2, SeqGrows
  <2>4. seqs \in Seq(Seq(Command)) /\ DOMAIN seqs = DOMAIN Managed
    BY <1>m, <2>3
  <2>5. Range(FlattenSeq(seqs)) = UNION {Range(seqs[k]) : k \in DOMAIN seqs} /\ FlattenSeq(seqs) \in Seq(Command)
    BY <2>4, FlattenSeqRange
  <2>6. QED
    BY <2>4, <2>5
<1>d. D \in Seq(Command) /\ Range(D) = {Drop(n) : n \in Obsolete}
  <2>1. IsFiniteSet(Obsolete)
    BY IndexAssumption, FS_Subset
  <2>2. D \in Seq({Drop(n) : n \in Obsolete}) /\ Range(D) = {Drop(n) : n \in Obsolete}
    BY <2>1, DropsAreFinite, SetToSeqRange
  <2>3. {Drop(n) : n \in Obsolete} \subseteq Command
    BY DEF Command
  <2>4. QED
    BY <2>2, <2>3, SeqGrows
<1> HIDE DEF A, B, C, D
<1> DEFINE AB  == A \o B
           ABC == AB \o C
<1>e. AB \in Seq(Command) /\ Range(AB) = Range(A) \cup Range(B)
  BY <1>a, <1>b, ConcatRange
<1> HIDE DEF AB
<1>f. ABC \in Seq(Command) /\ Range(ABC) = Range(AB) \cup Range(C)
  BY <1>c, <1>e, ConcatRange
<1> HIDE DEF ABC
<1>g. plan = ABC \o D
  BY DEF AB, ABC
<1>h. plan \in Seq(Command) /\ Range(plan) = Range(A) \cup Range(B) \cup Range(C) \cup Range(D)
  <2>1. ABC \o D \in Seq(Command) /\ Range(ABC \o D) = Range(ABC) \cup Range(D)
    <3>1. D \in Seq(Command) /\ ABC \in Seq(Command)
      BY <1>d, <1>f
    <3>2. QED
      BY <3>1, ConcatRange
  <2>2. QED
    BY <1>e, <1>f, <1>g, <2>1
<1> HIDE DEF plan
\* What is dropped for the sake of a managed index is there, and is not as it should be.
<1>1. ASSUME NEW c \in Range(B)
      PROVE  \E n \in IndexName : /\ c = Drop(n) /\ actual[n] # NoIndex
                                  /\ n \in ManagedNames => actual[n] # ManagedIndexes[n]
  <2>1. PICK k \in DOMAIN Managed : c \in Range(PreDrops(Managed[k], actual))
    BY <1>1, <1>b
  <2> DEFINE i == Managed[k]
  <2>2. /\ i.name \in IndexName /\ i.name \in ManagedNames /\ i.shape \in IndexShape /\ i.shape # NoIndex
        /\ ManagedIndexes[i.name] = i.shape
    BY <1>m, ManagedByName, IndexAssumption
  <2>3. /\ ~ Matches(i, actual)
        /\ \/ actual[i.name] # NoIndex /\ c = Drop(i.name)
           \/ \E n \in Equivalent(i, actual) : c = Drop(n)
    <3>1. Range(PreDrops(i, actual)) =
              IF Matches(i, actual) THEN {}
              ELSE (IF actual[i.name] # NoIndex THEN {Drop(i.name)} ELSE {})
                   \cup {Drop(n) : n \in Equivalent(i, actual)}
      BY <2>2, PreDropsRange
    <3>2. QED
      BY <2>1, <3>1
  <2>4. CASE actual[i.name] # NoIndex /\ c = Drop(i.name)
    BY <2>2, <2>3, <2>4 DEF Matches
  <2>5. CASE \E n \in Equivalent(i, actual) : c = Drop(n)
    <3>1. PICK n \in Equivalent(i, actual) : c = Drop(n)
      BY <2>5
    <3>2. n \in IndexName /\ n # i.name /\ actual[n] = i.shape
      BY <3>1 DEF Equivalent
    \* No other managed index has this shape.
    <3>3. ASSUME n \in ManagedNames PROVE actual[n] # ManagedIndexes[n]
      <4>1. PICK l \in DOMAIN Managed : n = Managed[l].name /\ ManagedIndexes[n] = Managed[l].shape
        BY <3>3, ManagedByName
      <4>2. l # k
        BY <3>2, <4>1
      <4>3. Managed[l].shape # Managed[k].shape
        BY <4>2, IndexAssumption
      <4>4. QED
        BY <3>2, <4>1, <4>3
    <3>4. QED
      BY <2>2, <3>1, <3>2, <3>3
  <2>6. QED
    BY <2>3, <2>4, <2>5
\* An index that is missing is not there, under any name.
<1>2. ASSUME NEW k \in missing
      PROVE  actual[Managed[k].name] = NoIndex
  <2>1. /\ k \in DOMAIN Managed /\ PreDrops(Managed[k], actual) = <<>> /\ ~ Matches(Managed[k], actual)
    BY <1>2
  <2>2. Range(PreDrops(Managed[k], actual)) = {}
    BY <2>1, RangeOfOne
  <2>3. QED
    <3>1. Managed[k].name \in IndexName
      BY <1>m, <2>1
    <3>2. Drop(Managed[k].name) \notin Range(PreDrops(Managed[k], actual))
      BY <2>2
    <3>3. QED
      BY <2>1, <3>1, <3>2, PreDropsRange
<1>3. KeepsGood(plan, actual)
  <2> SUFFICES ASSUME NEW k \in DOMAIN plan, NEW n \in ManagedNames, plan[k] = Drop(n)
               PROVE  /\ actual[n] # ManagedIndexes[n]
                      /\ \A j \in 1 .. k - 1 : plan[j].name = n => plan[j].type = "drop"
    BY DEF KeepsGood
  <2>1. plan[k] \notin Range(D) /\ plan[k] \notin Range(C) /\ plan[k] \notin Range(A)
    BY <1>a, <1>c, <1>d, CommandsDiffer
  <2>2. k \in DOMAIN ABC /\ \A j \in 1 .. k : plan[j] = ABC[j] /\ j \in DOMAIN ABC
    BY <1>d, <1>f, <1>g, <2>1, ConcatAt
  <2>3. k \in 1 .. k
    BY <1>f
  <2>4. k \in DOMAIN AB /\ \A j \in 1 .. k : ABC[j] = AB[j] /\ j \in DOMAIN AB
    <3>1. ABC = AB \o C /\ ABC[k] \notin Range(C)
      BY <2>1, <2>2, <2>3 DEF ABC
    <3>2. QED
      BY <1>c, <1>e, <2>2, <3>1, ConcatAt
  <2>5. \A j \in 1 .. k : plan[j] = AB[j] /\ plan[j] \in Range(A) \cup Range(B)
    BY <1>e, <2>2, <2>4 DEF Range
  <2>6. plan[k] \in Range(B)
    BY <2>1, <2>3, <2>5
  <2>7. actual[n] # NoIndex /\ actual[n] # ManagedIndexes[n]
    BY <1>1, <2>6, CommandsDiffer
  <2>8. ASSUME NEW j \in 1 .. k - 1, plan[j].name = n PROVE plan[j].type = "drop"
    <3>1. j \in 1 .. k
      BY <2>3
    <3>2. CASE plan[j] \in Range(B)
      BY <1>1, <3>2, CommandsDiffer
    <3>3. CASE plan[j] \in Range(A)
      <4>1. PICK l \in missing : plan[j] = Create(Managed[l])
        BY <1>a, <3>3
      <4>2. QED
        BY <1>2, <2>7, <2>8, <4>1, CommandsDiffer
    <3>4. QED
      BY <2>5, <3>1, <3>2, <3>3
  <2>9. QED
    BY <2>7, <2>8
<1>4. LeadsToManaged(plan, actual)
  <2>1. ASSUME NEW k \in DOMAIN Managed, ~ Matches(Managed[k], actual)
        PROVE  Create(Managed[k]) \in Range(plan)
    <3>1. k \in missing \/ k \in replaced
      BY <2>1
    <3>2. QED
      BY <1>a, <1>c, <1>h, <3>1
  <2>2. ASSUME NEW n \in ManagedNames
        PROVE  \/ actual[n] = ManagedIndexes[n]
               \/ \E k \in DOMAIN plan : plan[k] = [type |-> "create", name |-> n, shape |-> ManagedIndexes[n]]
    <3>1. PICK k \in DOMAIN Managed : n = Managed[k].name /\ ManagedIndexes[n] = Managed[k].shape
      BY ManagedByName
    <3>2. CASE Matches(Managed[k], actual)
      BY <3>1, <3>2 DEF Matches
    <3>3. CASE ~ Matches(Managed[k], actual)
      <4>1. Create(Managed[k]) \in Range(plan)
        BY <2>1, <3>3
      <4>2. Create(Managed[k]) = [type |-> "create", name |-> n, shape |-> ManagedIndexes[n]]
        BY <3>1 DEF Create
      <4>3. QED
        BY <4>1, <4>2 DEF Range
    <3>4. QED
      BY <3>2, <3>3
  <2>3. ASSUME NEW n \in IndexName, n \notin ManagedNames, actual[n] # NoIndex
        PROVE  \E k \in DOMAIN plan : plan[k] = Drop(n)
    <3>1. CASE n \in Dropped
      <4>1. PICK k \in DOMAIN B : B[k].name = n
        BY <3>1 DEF B
      <4>2. B[k] \in Range(B)
        BY <4>1 DEF Range
      <4>3. B[k] = Drop(n)
        BY <1>1, <4>1, <4>2, CommandsDiffer
      <4>4. Drop(n) \in Range(plan)
        BY <1>h, <4>2, <4>3
      <4>5. QED
        BY <4>4 DEF Range
    <3>2. CASE n \notin Dropped
      <4>1. n \in Obsolete
        BY <2>3, <3>2
      <4>2. Drop(n) \in Range(plan)
        BY <1>d, <1>h, <4>1
      <4>3. QED
        BY <4>2 DEF Range
    <3>3. QED
      BY <3>1, <3>2
  <2>4. QED
    BY <2>2, <2>3 DEF LeadsToManaged
<1>5. QED
  BY <1>h, <1>p, <1>3, <1>4

\* The invariant holds of a database without the collection.
LEMMA IndexInitially == IndexInit => IndexInv
BY RangeOfOne DEF IndexInit, IndexInv, IndexTypeOK, SyncedIsManaged

\* What a step may do to the good indexes.
KeepsIndexes ==
    \A n \in ManagedNames :
        syncPhase = "applying" /\ indexes[n] = ManagedIndexes[n] => indexes'[n] = indexes[n]

\* One command of the plan keeps the invariant, whether the server takes it or not.
LEMMA CommandKeeps ==
    ASSUME IndexInv, ApplyNext
    PROVE  IndexInv' /\ KeepsIndexes
<1> DEFINE c == Head(syncPlan)
<1>1. /\ syncPhase = "applying" /\ syncPlan # <<>> /\ syncPlan \in Seq(Command)
      /\ indexes \in [IndexName -> IndexShape \cup {NoIndex}]
      /\ KeepsGood(syncPlan, indexes) /\ LeadsToManaged(syncPlan, indexes)
  BY DEF ApplyNext, IndexInv, IndexTypeOK
<1>2. /\ 1 \in DOMAIN syncPlan /\ c = syncPlan[1] /\ c \in Command /\ Tail(syncPlan) \in Seq(Command)
      /\ \A k \in DOMAIN Tail(syncPlan) : k + 1 \in DOMAIN syncPlan /\ Tail(syncPlan)[k] = syncPlan[k + 1]
      /\ \A k \in DOMAIN syncPlan : k = 1 \/ (k - 1 \in DOMAIN Tail(syncPlan) /\ Tail(syncPlan)[k - 1] = syncPlan[k])
  BY <1>1, ElementOfSeq
<1>3. CASE Refuses(c, indexes)
  <2>1. syncPhase' = "failed" /\ syncPlan' = <<>> /\ indexes' = indexes
    BY <1>3 DEF ApplyNext
  <2>2. QED
    BY <1>1, <2>1, RangeOfOne DEF IndexInv, IndexTypeOK, SyncedIsManaged, KeepsIndexes
<1>4. CASE ~ Refuses(c, indexes)
  <2>1. indexes' = Applied(c, indexes) /\ syncPlan' = Tail(syncPlan) /\ syncPhase' = syncPhase
    BY <1>4 DEF ApplyNext
  <2>2. \/ \E n \in IndexName : c = Drop(n)
        \/ \E n \in ManagedNames : c = [type |-> "create", name |-> n, shape |-> ManagedIndexes[n]]
    <3>1. CASE \E n \in IndexName : c = Drop(n)
      BY <3>1
    <3>2. CASE \E k \in DOMAIN Managed : c = Create(Managed[k])
      <4>1. PICK k \in DOMAIN Managed : c = Create(Managed[k])
        BY <3>2
      <4>2. Managed[k].name \in ManagedNames /\ ManagedIndexes[Managed[k].name] = Managed[k].shape
        BY ManagedByName
      <4>3. QED
        BY <4>1, <4>2 DEF Create
    <3>3. QED
      BY <1>2, <3>1, <3>2 DEF Command
  <2>h. syncPlan[1] = c
    BY <1>2
  <2> HIDE DEF c
  \* An index is taken away that is not as it should be.
  <2>3. ASSUME NEW m \in IndexName, c = Drop(m) PROVE IndexInv' /\ KeepsIndexes
    <3>1. indexes' = [indexes EXCEPT ![m] = NoIndex]
      BY <2>1, <2>3, CommandsDiffer DEF Applied
    <3>2. m \in ManagedNames => indexes[m] # ManagedIndexes[m]
      <4>1. 1 \in DOMAIN syncPlan /\ syncPlan[1] = Drop(m)
        BY <1>2, <2>h, <2>3
      <4>2. QED
        BY <1>1, <4>1 DEF KeepsGood
    <3>3. IndexTypeOK'
      BY <1>1, <1>2, <2>1, <3>1 DEF IndexTypeOK, IndexInv
    <3>4. KeepsGood(syncPlan', indexes')
      <4> SUFFICES ASSUME NEW k \in DOMAIN Tail(syncPlan), NEW n \in ManagedNames, Tail(syncPlan)[k] = Drop(n)
                   PROVE  /\ indexes'[n] # ManagedIndexes[n]
                          /\ \A j \in 1 .. k - 1 : Tail(syncPlan)[j].name = n => Tail(syncPlan)[j].type = "drop"
        BY <2>1 DEF KeepsGood
      <4>1. k + 1 \in DOMAIN syncPlan /\ syncPlan[k + 1] = Drop(n)
        BY <1>2
      <4>2. /\ indexes[n] # ManagedIndexes[n]
            /\ \A j \in 1 .. k : syncPlan[j].name = n => syncPlan[j].type = "drop"
        <5>1. k \in Nat /\ (k + 1) - 1 = k
          BY <1>2
        <5>2. QED
          BY <1>1, <4>1, <5>1 DEF KeepsGood
      <4>3. indexes'[n] # ManagedIndexes[n]
        BY <1>1, <3>1, <4>2, ManagedByName
      <4>4. ASSUME NEW j \in 1 .. k - 1 PROVE Tail(syncPlan)[j] = syncPlan[j + 1] /\ j + 1 \in 1 .. k
        BY <1>1, <1>2
      <4>5. QED
        BY <4>2, <4>3, <4>4
    <3>5. LeadsToManaged(syncPlan', indexes')
      <4>1. ASSUME NEW n \in ManagedNames
            PROVE  \/ indexes'[n] = ManagedIndexes[n]
                   \/ \E k \in DOMAIN Tail(syncPlan) :
                         Tail(syncPlan)[k] = [type |-> "create", name |-> n, shape |-> ManagedIndexes[n]]
        <5>1. CASE indexes[n] = ManagedIndexes[n]
          BY <1>1, <3>1, <3>2, <5>1, ManagedByName
        <5>2. CASE indexes[n] # ManagedIndexes[n]
          <6>1. PICK k \in DOMAIN syncPlan :
                    syncPlan[k] = [type |-> "create", name |-> n, shape |-> ManagedIndexes[n]]
            BY <1>1, <5>2, ManagedByName DEF LeadsToManaged
          <6>2. k # 1
            BY <2>h, <2>3, <6>1 DEF Drop
          <6>3. QED
            BY <1>2, <6>1, <6>2
        <5>3. QED
          BY <5>1, <5>2
      <4>2. ASSUME NEW n \in IndexName, n \notin ManagedNames
            PROVE  indexes'[n] = NoIndex \/ \E k \in DOMAIN Tail(syncPlan) : Tail(syncPlan)[k] = Drop(n)
        <5>1. CASE n = m \/ indexes[n] = NoIndex
          BY <1>1, <3>1, <5>1
        <5>2. CASE n # m /\ indexes[n] # NoIndex
          <6>1. PICK k \in DOMAIN syncPlan : syncPlan[k] = Drop(n)
            BY <1>1, <4>2, <5>2 DEF LeadsToManaged
          <6>2. k # 1
            BY <2>h, <2>3, <5>2, <6>1 DEF Drop
          <6>3. QED
            BY <1>2, <6>1, <6>2
        <5>3. QED
          BY <5>1, <5>2
      <4>3. QED
        BY <2>1, <4>1, <4>2 DEF LeadsToManaged
    <3>6. KeepsIndexes
      BY <1>1, <3>1, <3>2 DEF KeepsIndexes
    <3>7. QED
      BY <1>1, <2>1, <3>3, <3>4, <3>5, <3>6 DEF IndexInv, SyncedIsManaged
  \* An index of the schema is made.
  <2>4. ASSUME NEW m \in ManagedNames, c = [type |-> "create", name |-> m, shape |-> ManagedIndexes[m]]
        PROVE  IndexInv' /\ KeepsIndexes
    <3>1. m \in IndexName /\ indexes' = [indexes EXCEPT ![m] = ManagedIndexes[m]]
      BY <2>1, <2>4, ManagedByName DEF Applied
    <3>2. IndexTypeOK'
      <4>1. ManagedIndexes[m] \in IndexShape
        BY ManagedByName
      <4>2. QED
        BY <1>1, <1>2, <2>1, <3>1, <4>1 DEF IndexTypeOK, IndexInv
    \* From here on the plan does not touch it.
    <3>3. KeepsGood(syncPlan', indexes')
      <4> SUFFICES ASSUME NEW k \in DOMAIN Tail(syncPlan), NEW n \in ManagedNames, Tail(syncPlan)[k] = Drop(n)
                   PROVE  /\ indexes'[n] # ManagedIndexes[n]
                          /\ \A j \in 1 .. k - 1 : Tail(syncPlan)[j].name = n => Tail(syncPlan)[j].type = "drop"
        BY <2>1 DEF KeepsGood
      <4>1. k + 1 \in DOMAIN syncPlan /\ syncPlan[k + 1] = Drop(n)
        BY <1>2
      <4>0. k \in Nat \ {0} /\ (k + 1) - 1 = k
        BY <1>1, <1>2
      <4>2. /\ indexes[n] # ManagedIndexes[n]
            /\ \A j \in 1 .. k : syncPlan[j].name = n => syncPlan[j].type = "drop"
        BY <1>1, <4>0, <4>1 DEF KeepsGood
      <4>3. n # m
        <5>1. syncPlan[1].name = m /\ syncPlan[1].type = "create"
          BY <2>h, <2>4
        <5>2. 1 \in 1 .. k
          BY <4>0
        <5>3. QED
          BY <4>2, <5>1, <5>2
      <4>4. indexes'[n] # ManagedIndexes[n]
        BY <1>1, <3>1, <4>2, <4>3, ManagedByName
      <4>5. ASSUME NEW j \in 1 .. k - 1 PROVE Tail(syncPlan)[j] = syncPlan[j + 1] /\ j + 1 \in 1 .. k
        BY <1>1, <1>2
      <4>6. QED
        BY <4>2, <4>4, <4>5
    <3>4. LeadsToManaged(syncPlan', indexes')
      <4>1. ASSUME NEW n \in ManagedNames
            PROVE  \/ indexes'[n] = ManagedIndexes[n]
                   \/ \E k \in DOMAIN Tail(syncPlan) :
                         Tail(syncPlan)[k] = [type |-> "create", name |-> n, shape |-> ManagedIndexes[n]]
        <5>1. CASE n = m \/ indexes[n] = ManagedIndexes[n]
          BY <1>1, <3>1, <5>1, ManagedByName
        <5>2. CASE n # m /\ indexes[n] # ManagedIndexes[n]
          <6>1. PICK k \in DOMAIN syncPlan :
                    syncPlan[k] = [type |-> "create", name |-> n, shape |-> ManagedIndexes[n]]
            BY <1>1, <5>2, ManagedByName DEF LeadsToManaged
          <6>2. k # 1
            <7>1. syncPlan[1].name = m /\ syncPlan[k].name = n
              BY <2>h, <2>4, <6>1
            <7>2. QED
              BY <5>2, <7>1
          <6>3. QED
            BY <1>2, <6>1, <6>2
        <5>3. QED
          BY <5>1, <5>2
      <4>2. ASSUME NEW n \in IndexName, n \notin ManagedNames
            PROVE  indexes'[n] = NoIndex \/ \E k \in DOMAIN Tail(syncPlan) : Tail(syncPlan)[k] = Drop(n)
        <5>1. CASE indexes[n] = NoIndex
          BY <1>1, <3>1, <4>2, <5>1
        <5>2. CASE indexes[n] # NoIndex
          <6>1. PICK k \in DOMAIN syncPlan : syncPlan[k] = Drop(n)
            BY <1>1, <4>2, <5>2 DEF LeadsToManaged
          <6>2. k # 1
            <7>1. syncPlan[1].type = "create" /\ syncPlan[k].type = "drop"
              BY <2>h, <2>4, <6>1 DEF Drop
            <7>2. QED
              BY <7>1
          <6>3. QED
            BY <1>2, <6>1, <6>2
        <5>3. QED
          BY <5>1, <5>2
      <4>3. QED
        BY <2>1, <4>1, <4>2 DEF LeadsToManaged
    <3>5. KeepsIndexes
      BY <1>1, <3>1 DEF KeepsIndexes
    <3>6. QED
      BY <1>1, <2>1, <3>2, <3>3, <3>4, <3>5 DEF IndexInv, SyncedIsManaged
  <2>5. QED
    BY <2>2, <2>3, <2>4
<1>5. QED
  BY <1>3, <1>4

\* The invariant is kept by every step of the scripts.
LEMMA IndexStep ==
    ASSUME IndexInv, [IndexNext]_indexVars
    PROVE  IndexInv' /\ KeepsIndexes
<1>1. ASSUME NEW old \in IndexSets, Deployed(old) PROVE IndexInv' /\ KeepsIndexes
  <2>1. old \in [IndexName -> IndexShape \cup {NoIndex}]
    BY DEF IndexSets
  <2>2. QED
    BY <1>1, <2>1 DEF Deployed, IndexInv, IndexTypeOK, SyncedIsManaged, KeepsIndexes
<1>2. CASE Migrate
  <2>1. syncPhase # "applying" /\ syncPhase' \in {"idle", "failed"} /\ UNCHANGED syncPlan
    BY <1>2 DEF Migrate
  <2>2. \/ indexes' = indexes
        \/ indexes' = [n \in IndexName |-> IF n \in ManagedNames THEN ManagedIndexes[n] ELSE indexes[n]]
    BY <1>2 DEF Migrate
  <2>3. indexes' \in [IndexName -> IndexShape \cup {NoIndex}]
    <3>1. \A n \in ManagedNames : ManagedIndexes[n] \in IndexShape
      BY ManagedByName
    <3>2. QED
      BY <2>2, <3>1 DEF IndexInv, IndexTypeOK
  <2>4. QED
    BY <2>1, <2>3 DEF IndexInv, IndexTypeOK, SyncedIsManaged, KeepsIndexes
<1>3. ASSUME NEW e, NEW dryRun, NEW confirmed, StartSync(e, dryRun, confirmed) PROVE IndexInv' /\ KeepsIndexes
  <2>1. CASE dryRun
    <3>1. syncPhase # "applying" /\ UNCHANGED <<indexes, syncPlan, syncPhase>>
      BY <1>3, <2>1 DEF StartSync
    <3>2. QED
      BY <3>1 DEF IndexInv, IndexTypeOK, SyncedIsManaged, KeepsIndexes
  <2>2. CASE ~ dryRun
    <3>1. syncPhase # "applying" /\ syncPlan' = PlanSync(indexes) /\ syncPhase' = "applying" /\ indexes' = indexes
      BY <1>3, <2>2 DEF StartSync
    <3>2. indexes \in [IndexName -> IndexShape \cup {NoIndex}]
      BY DEF IndexInv, IndexTypeOK
    <3>3. syncPlan' \in Seq(Command) /\ KeepsGood(syncPlan', indexes') /\ LeadsToManaged(syncPlan', indexes')
      BY <3>1, <3>2, PlanIsGood
    <3>4. QED
      BY <3>1, <3>2, <3>3 DEF IndexInv, IndexTypeOK, SyncedIsManaged, KeepsIndexes
  <2>3. QED
    BY <2>1, <2>2
<1>4. CASE ApplyNext
  BY <1>4, CommandKeeps
\* Nothing is left of the plan, so nothing is left to do.
<1>5. CASE EndSync
  <2>1. syncPlan = <<>> /\ DOMAIN syncPlan = {} /\ syncPhase' = "done" /\ UNCHANGED <<indexes, syncPlan>>
    BY <1>5 DEF EndSync
  <2>2. \A n \in IndexName : indexes[n] = ManagedIndexes[n]
    BY <1>5, <2>1, ManagedByName DEF EndSync, IndexInv, LeadsToManaged
  <2>3. indexes = ManagedIndexes
    BY <2>2 DEF IndexInv, IndexTypeOK, ManagedIndexes
  <2>4. QED
    BY <2>1, <2>3 DEF IndexInv, IndexTypeOK, SyncedIsManaged, KeepsIndexes, ManagedIndexes, ManagedNames
<1>6. CASE Interrupt
  BY <1>6, RangeOfOne DEF Interrupt, IndexInv, IndexTypeOK, SyncedIsManaged, KeepsIndexes
<1>7. CASE UNCHANGED indexVars
  BY <1>7 DEF indexVars, IndexInv, IndexTypeOK, SyncedIsManaged, KeepsIndexes
<1>8. QED
  BY <1>1, <1>2, <1>3, <1>4, <1>5, <1>6, <1>7 DEF IndexNext

\* A sync that reports success has made the indexes those of the schema, for any
\* schema and whatever it found (index-sync.ts: planCollectionIndexSync).
THEOREM SyncedIsManagedHolds == IndexSpec => []SyncedIsManaged
<1>1. IndexInv /\ [IndexNext]_indexVars => IndexInv'
  BY IndexStep
<1>2. IndexInv => SyncedIsManaged
  BY DEF IndexInv
<1>3. QED
  BY <1>1, <1>2, IndexInitially, PTL DEF IndexSpec

\* A sync never takes away an index that is as the schema wants it (index-sync.ts:
\* the drops of planCollectionIndexSync).
THEOREM GoodIndexesStayHolds == IndexSpec => GoodIndexesStay
<1>1. IndexInv /\ [IndexNext]_indexVars => IndexInv'
  BY IndexStep
<1>2. IndexInv /\ [IndexNext]_indexVars => [KeepsIndexes]_indexVars
  BY IndexStep
<1>3. [][KeepsIndexes]_indexVars <=> GoodIndexesStay
  BY DEF KeepsIndexes, GoodIndexesStay
<1>4. QED
  BY <1>1, <1>2, <1>3, IndexInitially, PTL DEF IndexSpec

-------------------------------------------------------------------------------
(* The shopping list: what its items add up to, and where their marks come     *)
(* from.  Adding up is a fold over the inputs of all meals, so its value for a  *)
(* sequence longer by one comes first; then one input, one meal and all meals. *)

\* What a fold from the left comes to: its value on each set of the first numbers.
FoldsInputs(f, s, n) ==
    f = [t \in SUBSET (1 .. n) |-> IF t = {} THEN <<>> ELSE AddInput(f[t \ {Max(t)}], s[Max(t)])]

\* Max of a set of numbers below a bound is in it, and none is greater.
LEMMA GreatestOf ==
    ASSUME NEW n \in Nat, NEW S \in SUBSET (1 .. n), S # {}
    PROVE  Max(S) \in S /\ \A m \in S : m <= Max(S)
<1> DEFINE T == {n - m : m \in S}
<1>1. T \subseteq Nat /\ T # {}
  <2>1. \A m \in S : n - m \in Nat
    OBVIOUS
  <2>2. QED
    BY <2>1
<1> HIDE DEF T
<1>2. PICK k \in T : \A m \in T : k <= m
  BY <1>1, LeastNatural
<1> USE DEF T
<1>3. PICK g \in S : k = n - g
  BY <1>2
<1>4. \A m \in S : n - m \in T
  OBVIOUS
<1>5. \A m \in S : g >= m
  BY <1>1, <1>2, <1>3, <1>4
<1>6. \E x \in S : \A m \in S : x >= m
  BY <1>5
<1>7. Max(S) \in S /\ \A m \in S : Max(S) >= m
  BY <1>6, Zenon DEF Max
<1>8. QED
  BY <1>7

\* The greatest of the first numbers, and what remains without it.
LEMMA GreatestOfFirst ==
    ASSUME NEW n \in Nat
    PROVE  /\ 1 .. 0 = {} /\ 1 .. n + 1 # {} /\ Max(1 .. n + 1) = n + 1
           /\ (1 .. n + 1) \ {n + 1} = 1 .. n
<1>1. n + 1 \in 1 .. n + 1 /\ n + 1 \in Nat
  OBVIOUS
<1>2. Max(1 .. n + 1) \in 1 .. n + 1 /\ n + 1 <= Max(1 .. n + 1)
  BY <1>1, GreatestOf
<1>3. QED
  BY <1>2

\* The fold that adds up inputs has a value on each set of the first numbers.
LEMMA InputsFoldExists ==
    ASSUME NEW s
    PROVE  \A n \in Nat : \E f : FoldsInputs(f, s, n)
<1> DEFINE P(n) == \E f : FoldsInputs(f, s, n)
           T    == {n \in Nat : P(n)}
<1>1. P(0)
  <2> DEFINE f == [t \in SUBSET (1 .. 0) |-> <<>>]
  <2>1. \A t \in SUBSET (1 .. 0) : t = {}
    OBVIOUS
  <2>2. f = [t \in SUBSET (1 .. 0) |-> IF t = {} THEN <<>> ELSE AddInput(f[t \ {Max(t)}], s[Max(t)])]
    BY <2>1
  <2> HIDE DEF f
  <2>3. QED
    BY <2>2 DEF FoldsInputs
<1>2. ASSUME NEW n \in Nat, P(n) PROVE P(n + 1)
  <2>1. PICK f : FoldsInputs(f, s, n)
    BY <1>2
  <2> DEFINE g == [t \in SUBSET (1 .. n + 1) |->
                      IF n + 1 \in t THEN AddInput(f[t \ {n + 1}], s[n + 1]) ELSE f[t]]
  <2>2. ASSUME NEW t \in SUBSET (1 .. n + 1)
        PROVE  g[t] = IF t = {} THEN <<>> ELSE AddInput(g[t \ {Max(t)}], s[Max(t)])
    <3>1. CASE n + 1 \in t
      <4>1. Max(t) = n + 1
        <5>1. n + 1 \in Nat
          OBVIOUS
        <5>2. Max(t) \in 1 .. n + 1 /\ n + 1 <= Max(t)
          BY <3>1, <5>1, GreatestOf
        <5>3. QED
          BY <5>2
      <4>2. t \ {n + 1} \in SUBSET (1 .. n + 1) /\ n + 1 \notin t \ {n + 1}
        OBVIOUS
      <4>3. g[t] = AddInput(f[t \ {n + 1}], s[n + 1]) /\ g[t \ {n + 1}] = f[t \ {n + 1}]
        BY <3>1, <4>2
      <4>4. QED
        BY <3>1, <4>1, <4>3
    <3>2. CASE n + 1 \notin t
      <4>1. t \in SUBSET (1 .. n)
        BY <3>2
      <4>2. g[t] = f[t] /\ f[t] = IF t = {} THEN <<>> ELSE AddInput(f[t \ {Max(t)}], s[Max(t)])
        BY <2>1, <3>2, <4>1 DEF FoldsInputs
      <4>3. t \ {Max(t)} \in SUBSET (1 .. n + 1) /\ n + 1 \notin t \ {Max(t)}
        BY <3>2
      <4>4. g[t \ {Max(t)}] = f[t \ {Max(t)}]
        BY <4>3
      <4>5. QED
        BY <4>2, <4>4
    <3>3. QED
      BY <3>1, <3>2
  <2>3. g = [t \in SUBSET (1 .. n + 1) |-> g[t]]
    OBVIOUS
  <2> HIDE DEF g
  <2>4. FoldsInputs(g, s, n + 1)
    BY <2>2, <2>3 DEF FoldsInputs
  <2>5. QED
    BY <2>4
<1>3. Nat \subseteq T
  <2> HIDE DEF P
  <2>1. 0 \in T /\ \A n \in Nat : n \in T => n + 1 \in T
    BY <1>1, <1>2
  <2> HIDE DEF T
  <2>2. QED
    BY <2>1, InductionOnSet
<1>4. QED
  BY <1>3

\* Adding up a longer sequence goes on where the shorter one ended.
LEMMA AggregateStep ==
    ASSUME NEW S, NEW s \in Seq(S), NEW x \in S
    PROVE  /\ AggregateIngredients(<<>>) = <<>>
           /\ AggregateIngredients(Append(s, x)) = AddInput(AggregateIngredients(s), x)
<1> DEFINE Folded(q) == CHOOSE f : FoldsInputs(f, q, Len(q))
           n == Len(s)
<1>1. ASSUME NEW q \in Seq(S)
      PROVE  AggregateIngredients(q) = Folded(q)[1 .. Len(q)] /\ FoldsInputs(Folded(q), q, Len(q))
  <2>1. Len(q) \in Nat /\ DOMAIN q = 1 .. Len(q)
    OBVIOUS
  <2>2. FoldsInputs(Folded(q), q, Len(q))
    BY <2>1, InputsFoldExists, Zenon
  <2>3. QED
    BY <2>1, <2>2 DEF AggregateIngredients, FoldLeft, MapThenFoldSet, FoldsInputs
<1> HIDE DEF Folded
<1>2. Append(s, x) \in Seq(S) /\ Len(Append(s, x)) = n + 1 /\ n \in Nat /\ Append(s, x)[n + 1] = x
  OBVIOUS
<1>3. \A i \in 1 .. n : Append(s, x)[i] = s[i]
  OBVIOUS
<1> DEFINE f == Folded(s)
           g == Folded(Append(s, x))
<1>4. FoldsInputs(f, s, n) /\ AggregateIngredients(s) = f[1 .. n]
  BY <1>1
<1>5. FoldsInputs(g, Append(s, x), n + 1) /\ AggregateIngredients(Append(s, x)) = g[1 .. n + 1]
  BY <1>1, <1>2
<1> HIDE DEF f, g
<1>6. ASSUME NEW m \in Nat, m < n
      PROVE  f[1 .. m + 1] = AddInput(f[1 .. m], s[m + 1])
  <2>1. 1 .. m + 1 # {} /\ Max(1 .. m + 1) = m + 1 /\ (1 .. m + 1) \ {m + 1} = 1 .. m
    BY GreatestOfFirst
  <2>i. 1 .. m + 1 \in SUBSET (1 .. n)
    BY <1>2, <1>6
  <2>2. QED
    BY <1>4, <2>1, <2>i DEF FoldsInputs
<1>7. ASSUME NEW m \in Nat, m < n + 1
      PROVE  g[1 .. m + 1] = AddInput(g[1 .. m], Append(s, x)[m + 1])
  <2>1. 1 .. m + 1 # {} /\ Max(1 .. m + 1) = m + 1 /\ (1 .. m + 1) \ {m + 1} = 1 .. m
    BY GreatestOfFirst
  <2>i. 1 .. m + 1 \in SUBSET (1 .. n + 1)
    BY <1>2, <1>7
  <2>2. QED
    BY <1>5, <2>1, <2>i DEF FoldsInputs
<1>8. f[1 .. 0] = <<>> /\ g[1 .. 0] = <<>>
  <2>1. 1 .. 0 = {} /\ {} \in SUBSET (1 .. n) /\ {} \in SUBSET (1 .. n + 1)
    OBVIOUS
  <2>2. QED
    BY <1>4, <1>5, <2>1 DEF FoldsInputs
<1> DEFINE P(m) == m <= n => g[1 .. m] = f[1 .. m]
           T    == {m \in Nat : P(m)}
<1>9. ASSUME NEW m \in Nat, P(m) PROVE P(m + 1)
  <2> SUFFICES ASSUME m + 1 <= n PROVE g[1 .. m + 1] = f[1 .. m + 1]
    OBVIOUS
  <2>1. m < n /\ m < n + 1 /\ m + 1 \in 1 .. n /\ m <= n
    BY <1>2
  <2>2. Append(s, x)[m + 1] = s[m + 1]
    BY <1>3, <2>1
  <2>3. g[1 .. m] = f[1 .. m]
    BY <1>9, <2>1
  <2>4. QED
    BY <1>6, <1>7, <2>1, <2>2, <2>3
<1>10. Nat \subseteq T
  <2>1. P(0)
    BY <1>8
  <2> HIDE DEF P
  <2>2. 0 \in T /\ \A m \in Nat : m \in T => m + 1 \in T
    BY <1>9, <2>1
  <2> HIDE DEF T
  <2>3. QED
    BY <2>2, InductionOnSet
<1>11. g[1 .. n] = f[1 .. n]
  BY <1>2, <1>10
<1>12. AggregateIngredients(Append(s, x)) = AddInput(AggregateIngredients(s), x)
  BY <1>2, <1>4, <1>5, <1>7, <1>11
<1>13. AggregateIngredients(<<>>) = <<>>
  <2> DEFINE e == <<>>
  <2>1. e \in Seq(S) /\ Len(e) = 0
    OBVIOUS
  <2>2. AggregateIngredients(e) = Folded(e)[1 .. 0] /\ FoldsInputs(Folded(e), e, 0)
    BY <1>1, <2>1
  <2>3. 1 .. 0 = {} /\ {} \in SUBSET (1 .. 0)
    OBVIOUS
  <2>4. Folded(e)[{}] = <<>>
    BY <2>2, <2>3 DEF FoldsInputs
  <2>5. QED
    BY <2>2, <2>3, <2>4
<1>14. QED
  BY <1>12, <1>13

\* Demand(r) of any meals, and what one meal adds to it.
AddDemand(r, sum, meal) == sum + IF meal.recipe = r THEN Scale(meal) ELSE 0
DemandOf(r, menu) == FoldLeft(LAMBDA sum, meal : sum + IF meal.recipe = r THEN Scale(meal) ELSE 0, 0, menu)
FoldsDemand(f, r, s, n) ==
    f = [t \in SUBSET (1 .. n) |-> IF t = {} THEN 0 ELSE AddDemand(r, f[t \ {Max(t)}], s[Max(t)])]

\* The fold that adds up the demand has a value on each set of the first numbers.
LEMMA DemandFoldExists ==
    ASSUME NEW r, NEW s
    PROVE  \A n \in Nat : \E f : FoldsDemand(f, r, s, n)
<1> DEFINE P(n) == \E f : FoldsDemand(f, r, s, n)
           T    == {n \in Nat : P(n)}
<1>1. P(0)
  <2> DEFINE f == [t \in SUBSET (1 .. 0) |-> 0]
  <2>1. \A t \in SUBSET (1 .. 0) : t = {}
    OBVIOUS
  <2>2. f = [t \in SUBSET (1 .. 0) |-> IF t = {} THEN 0 ELSE AddDemand(r, f[t \ {Max(t)}], s[Max(t)])]
    BY <2>1
  <2> HIDE DEF f
  <2>3. QED
    BY <2>2 DEF FoldsDemand
<1>2. ASSUME NEW n \in Nat, P(n) PROVE P(n + 1)
  <2>1. PICK f : FoldsDemand(f, r, s, n)
    BY <1>2
  <2> DEFINE g == [t \in SUBSET (1 .. n + 1) |->
                      IF n + 1 \in t THEN AddDemand(r, f[t \ {n + 1}], s[n + 1]) ELSE f[t]]
  <2>2. ASSUME NEW t \in SUBSET (1 .. n + 1)
        PROVE  g[t] = IF t = {} THEN 0 ELSE AddDemand(r, g[t \ {Max(t)}], s[Max(t)])
    <3>1. CASE n + 1 \in t
      <4>1. Max(t) = n + 1
        <5>1. n + 1 \in Nat
          OBVIOUS
        <5>2. Max(t) \in 1 .. n + 1 /\ n + 1 <= Max(t)
          BY <3>1, <5>1, GreatestOf
        <5>3. QED
          BY <5>2
      <4>2. t \ {n + 1} \in SUBSET (1 .. n + 1) /\ n + 1 \notin t \ {n + 1}
        OBVIOUS
      <4>3. g[t] = AddDemand(r, f[t \ {n + 1}], s[n + 1]) /\ g[t \ {n + 1}] = f[t \ {n + 1}]
        BY <3>1, <4>2
      <4>4. QED
        BY <3>1, <4>1, <4>3
    <3>2. CASE n + 1 \notin t
      <4>1. t \in SUBSET (1 .. n)
        BY <3>2
      <4>2. g[t] = f[t] /\ f[t] = IF t = {} THEN 0 ELSE AddDemand(r, f[t \ {Max(t)}], s[Max(t)])
        BY <2>1, <3>2, <4>1 DEF FoldsDemand
      <4>3. t \ {Max(t)} \in SUBSET (1 .. n + 1) /\ n + 1 \notin t \ {Max(t)}
        BY <3>2
      <4>4. g[t \ {Max(t)}] = f[t \ {Max(t)}]
        BY <4>3
      <4>5. QED
        BY <4>2, <4>4
    <3>3. QED
      BY <3>1, <3>2
  <2>3. g = [t \in SUBSET (1 .. n + 1) |-> g[t]]
    OBVIOUS
  <2> HIDE DEF g
  <2>4. FoldsDemand(g, r, s, n + 1)
    BY <2>2, <2>3 DEF FoldsDemand
  <2>5. QED
    BY <2>4
<1>3. Nat \subseteq T
  <2> HIDE DEF P
  <2>1. 0 \in T /\ \A n \in Nat : n \in T => n + 1 \in T
    BY <1>1, <1>2
  <2> HIDE DEF T
  <2>2. QED
    BY <2>1, InductionOnSet
<1>4. QED
  BY <1>3

\* A meal more adds what it asks for to the demand.
LEMMA DemandStep ==
    ASSUME NEW r, NEW S, NEW s \in Seq(S), NEW x \in S
    PROVE  /\ DemandOf(r, <<>>) = 0
           /\ DemandOf(r, Append(s, x)) = AddDemand(r, DemandOf(r, s), x)
<1> DEFINE Folded(q) == CHOOSE f : FoldsDemand(f, r, q, Len(q))
           n == Len(s)
<1>1. ASSUME NEW q \in Seq(S)
      PROVE  DemandOf(r, q) = Folded(q)[1 .. Len(q)] /\ FoldsDemand(Folded(q), r, q, Len(q))
  <2>1. Len(q) \in Nat /\ DOMAIN q = 1 .. Len(q)
    OBVIOUS
  <2>2. FoldsDemand(Folded(q), r, q, Len(q))
    BY <2>1, DemandFoldExists, Zenon
  <2>3. QED
    BY <2>1, <2>2 DEF DemandOf, AddDemand, FoldLeft, MapThenFoldSet, FoldsDemand
<1> HIDE DEF Folded
<1>2. Append(s, x) \in Seq(S) /\ Len(Append(s, x)) = n + 1 /\ n \in Nat /\ Append(s, x)[n + 1] = x
  OBVIOUS
<1>3. \A i \in 1 .. n : Append(s, x)[i] = s[i]
  OBVIOUS
<1> DEFINE f == Folded(s)
           g == Folded(Append(s, x))
<1>4. FoldsDemand(f, r, s, n) /\ DemandOf(r, s) = f[1 .. n]
  BY <1>1
<1>5. FoldsDemand(g, r, Append(s, x), n + 1) /\ DemandOf(r, Append(s, x)) = g[1 .. n + 1]
  BY <1>1, <1>2
<1> HIDE DEF f, g
<1>6. ASSUME NEW m \in Nat, m < n
      PROVE  f[1 .. m + 1] = AddDemand(r, f[1 .. m], s[m + 1])
  <2>1. 1 .. m + 1 # {} /\ Max(1 .. m + 1) = m + 1 /\ (1 .. m + 1) \ {m + 1} = 1 .. m
    BY GreatestOfFirst
  <2>i. 1 .. m + 1 \in SUBSET (1 .. n)
    BY <1>2, <1>6
  <2>2. QED
    BY <1>4, <2>1, <2>i DEF FoldsDemand
<1>7. ASSUME NEW m \in Nat, m < n + 1
      PROVE  g[1 .. m + 1] = AddDemand(r, g[1 .. m], Append(s, x)[m + 1])
  <2>1. 1 .. m + 1 # {} /\ Max(1 .. m + 1) = m + 1 /\ (1 .. m + 1) \ {m + 1} = 1 .. m
    BY GreatestOfFirst
  <2>i. 1 .. m + 1 \in SUBSET (1 .. n + 1)
    BY <1>2, <1>7
  <2>2. QED
    BY <1>5, <2>1, <2>i DEF FoldsDemand
<1>8. f[1 .. 0] = 0 /\ g[1 .. 0] = 0
  <2>1. 1 .. 0 = {} /\ {} \in SUBSET (1 .. n) /\ {} \in SUBSET (1 .. n + 1)
    OBVIOUS
  <2>2. QED
    BY <1>4, <1>5, <2>1 DEF FoldsDemand
<1> DEFINE P(m) == m <= n => g[1 .. m] = f[1 .. m]
           T    == {m \in Nat : P(m)}
<1>9. ASSUME NEW m \in Nat, P(m) PROVE P(m + 1)
  <2> SUFFICES ASSUME m + 1 <= n PROVE g[1 .. m + 1] = f[1 .. m + 1]
    OBVIOUS
  <2>1. m < n /\ m < n + 1 /\ m + 1 \in 1 .. n /\ m <= n
    BY <1>2
  <2>2. Append(s, x)[m + 1] = s[m + 1]
    BY <1>3, <2>1
  <2>3. g[1 .. m] = f[1 .. m]
    BY <1>9, <2>1
  <2>4. QED
    BY <1>6, <1>7, <2>1, <2>2, <2>3
<1>10. Nat \subseteq T
  <2>1. P(0)
    BY <1>8
  <2> HIDE DEF P
  <2>2. 0 \in T /\ \A m \in Nat : m \in T => m + 1 \in T
    BY <1>9, <2>1
  <2> HIDE DEF T
  <2>3. QED
    BY <2>2, InductionOnSet
<1>11. g[1 .. n] = f[1 .. n]
  BY <1>2, <1>10
<1>12. DemandOf(r, Append(s, x)) = AddDemand(r, DemandOf(r, s), x)
  BY <1>2, <1>4, <1>5, <1>7, <1>11
<1>13. DemandOf(r, <<>>) = 0
  <2> DEFINE e == <<>>
  <2>1. e \in Seq(S) /\ Len(e) = 0
    OBVIOUS
  <2>2. DemandOf(r, e) = Folded(e)[1 .. 0] /\ FoldsDemand(Folded(e), r, e, 0)
    BY <1>1, <2>1
  <2>3. 1 .. 0 = {} /\ {} \in SUBSET (1 .. 0)
    OBVIOUS
  <2>4. Folded(e)[{}] = 0
    BY <2>2, <2>3 DEF FoldsDemand
  <2>5. QED
    BY <2>2, <2>3, <2>4
<1>14. QED
  BY <1>12, <1>13

\* What holds of the empty sequence and with every one of a longer one by one
\* element holds of all sequences.
LEMMA SeqInduction ==
    ASSUME NEW S, NEW T, <<>> \in T, \A s \in Seq(S), x \in S : s \in T => Append(s, x) \in T
    PROVE  Seq(S) \subseteq T
<1> DEFINE P(n) == \A s \in Seq(S) : Len(s) = n => s \in T
           N    == {n \in Nat : P(n)}
<1>1. P(0)
  <2>1. \A s \in Seq(S) : Len(s) = 0 => s = <<>>
    OBVIOUS
  <2>2. QED
    BY <2>1
<1>2. ASSUME NEW n \in Nat, P(n) PROVE P(n + 1)
  <2> SUFFICES ASSUME NEW s \in Seq(S), Len(s) = n + 1 PROVE s \in T
    OBVIOUS
  <2> DEFINE front == SubSeq(s, 1, n)
  <2>1. front \in Seq(S) /\ Len(front) = n /\ s[n + 1] \in S /\ s = Append(front, s[n + 1])
    OBVIOUS
  <2>2. front \in T
    BY <1>2, <2>1
  <2>3. Append(front, s[n + 1]) \in T
    <3> HIDE DEF front
    <3>1. QED
      BY <2>1, <2>2
  <2>4. QED
    BY <2>1, <2>3
<1>3. Nat \subseteq N
  <2> HIDE DEF P
  <2>1. 0 \in N /\ \A n \in Nat : n \in N => n + 1 \in N
    BY <1>1, <1>2
  <2> HIDE DEF N
  <2>2. QED
    BY <2>1, InductionOnSet
<1>4. QED
  <2> SUFFICES ASSUME NEW s \in Seq(S) PROVE s \in T
    OBVIOUS
  <2>1. Len(s) \in Nat
    OBVIOUS
  <2>2. QED
    BY <1>3, <2>1

\* One sequence more to flatten comes at the end.
LEMMA FlattenStep ==
    ASSUME NEW S, NEW seqs \in Seq(Seq(S)), NEW t \in Seq(S)
    PROVE  FlattenSeq(<<>>) = <<>> /\ FlattenSeq(Append(seqs, t)) = FlattenSeq(seqs) \o t
<1> DEFINE Flat(q) == CHOOSE f : Flattens(f, q, Len(q))
           n == Len(seqs)
<1>1. ASSUME NEW q \in Seq(Seq(S)), Len(q) # 0
      PROVE  FlattenSeq(q) = Flat(q)[Len(q)] /\ Flattens(Flat(q), q, Len(q))
  <2>1. Len(q) \in Nat /\ Len(q) <= Len(q)
    OBVIOUS
  <2>2. \E f \in [1 .. Len(q) -> Seq(S)] : Flattens(f, q, Len(q))
    BY <1>1, <2>1, FlattenExists
  <2>3. Flattens(Flat(q), q, Len(q))
    BY <2>2, Zenon
  <2>4. QED
    BY <1>1, <2>3 DEF FlattenSeq, Flattens
<1> HIDE DEF Flat
<1> DEFINE more == Append(seqs, t)
           f == Flat(seqs)
           g == Flat(more)
<1>2. more \in Seq(Seq(S)) /\ Len(more) = n + 1 /\ n \in Nat /\ more[n + 1] = t /\ \A i \in 1 .. n : more[i] = seqs[i]
  OBVIOUS
<1> HIDE DEF more
<1>3. n + 1 # 0
  BY <1>2
<1>4. FlattenSeq(more) = g[n + 1] /\ Flattens(g, more, n + 1)
  BY <1>1, <1>2, <1>3
<1> HIDE DEF g
<1>5. FlattenSeq(<<>>) = <<>>
  BY DEF FlattenSeq
<1>6. CASE n = 0
  <2>1. seqs = <<>> /\ FlattenSeq(seqs) = <<>>
    BY <1>5, <1>6
  <2>2. 1 \in 1 .. n + 1 /\ n + 1 = 1
    BY <1>6
  <2>3. g[1] = more[1]
    BY <1>4, <2>2 DEF Flattens
  <2>4. FlattenSeq(more) = t
    BY <1>2, <1>4, <2>2, <2>3
  <2>5. <<>> \o t = t
    OBVIOUS
  <2>6. QED
    BY <1>5, <2>1, <2>4, <2>5 DEF more
<1>7. CASE n # 0
  <2>1. FlattenSeq(seqs) = f[n] /\ Flattens(f, seqs, n)
    BY <1>1, <1>7
  <2> HIDE DEF f
  <2> DEFINE P(m) == m # 0 /\ m <= n => g[m] = f[m]
             T    == {m \in Nat : P(m)}
  <2>2. ASSUME NEW m \in Nat, P(m) PROVE P(m + 1)
    <3> SUFFICES ASSUME m + 1 <= n PROVE g[m + 1] = f[m + 1]
      OBVIOUS
    <3>1. m + 1 \in 1 .. n /\ m + 1 \in 1 .. n + 1 /\ (m + 1) - 1 = m /\ m <= n
      BY <1>2
    <3>2. /\ g[m + 1] = IF m + 1 = 1 THEN more[m + 1] ELSE g[m] \o more[m + 1]
          /\ f[m + 1] = IF m + 1 = 1 THEN seqs[m + 1] ELSE f[m] \o seqs[m + 1]
      <4>1. \A i \in 1 .. n + 1 : g[i] = IF i = 1 THEN more[i] ELSE g[i - 1] \o more[i]
        BY <1>4 DEF Flattens
      <4>2. \A i \in 1 .. n : f[i] = IF i = 1 THEN seqs[i] ELSE f[i - 1] \o seqs[i]
        BY <2>1 DEF Flattens
      <4>3. QED
        BY <3>1, <4>1, <4>2
    <3>3. more[m + 1] = seqs[m + 1]
      BY <1>2, <3>1
    <3>4. m + 1 = 1 \/ g[m] = f[m]
      BY <2>2, <3>1
    <3>5. QED
      BY <3>2, <3>3, <3>4
  <2>3. Nat \subseteq T
    <3>1. P(0)
      OBVIOUS
    <3> HIDE DEF P
    <3>2. 0 \in T /\ \A m \in Nat : m \in T => m + 1 \in T
      BY <2>2, <3>1
    <3> HIDE DEF T
    <3>3. QED
      BY <3>2, InductionOnSet
  <2>4. g[n] = f[n]
    BY <1>2, <1>7, <2>3
  <2>5. g[n + 1] = g[n] \o more[n + 1]
    <3>1. \A i \in 1 .. n + 1 : g[i] = IF i = 1 THEN more[i] ELSE g[i - 1] \o more[i]
      BY <1>4 DEF Flattens
    <3>2. n + 1 \in 1 .. n + 1 /\ n + 1 # 1 /\ (n + 1) - 1 = n
      BY <1>2, <1>7
    <3>3. QED
      BY <3>1, <3>2
  <2>6. QED
    BY <1>2, <1>4, <1>5, <2>1, <2>4, <2>5 DEF more
<1>8. QED
  BY <1>6, <1>7

\* What items and the lines they stand for are made of.
Units   == UNITS \cup {NoUnit}
Words   == STRING \cup {""}
Amount  == [min : Nat, max : Nat, range : BOOLEAN]
Asked   == (DOMAIN Book) \X STRING
KeyOf(a) == <<"unresolved", a[1], a[2]>>
ShopItem == [key : {KeyOf(a) : a \in Asked}, canonical : {""}, name : Seq(STRING), preparation : Words,
             checked : BOOLEAN, sources : Seq(Asked), unit : Units, amount : Amount]

LineAt(r, k) == ParseIngredientLine(Book[r].lines[k])
AskOf(r, k)  == <<r, LineAt(r, k).text>>
InputOf(r, k, s) ==
    [canonical |-> "", recipe |-> r, scale |-> s, text |-> LineAt(r, k).text,
     amount |-> LineAt(r, k).amount, unit |-> LineAt(r, k).unit, name |-> LineAt(r, k).name,
     preparation |-> LineAt(r, k).preparation]

\* An item that stands for a line of which so many times are asked.
StandsFor(item, r, k, n) ==
    /\ item.key = KeyOf(AskOf(r, k)) /\ ToSet(item.sources) = {AskOf(r, k)}
    /\ item.amount = ScaleRange(LineAt(r, k).amount, n) /\ item.unit = LineAt(r, k).unit
    /\ ~ item.checked

\* Groups that add up what the count says.
AddsUp(groups, count) ==
    /\ groups \in Seq(ShopItem)
    /\ \A i \in DOMAIN groups : \E r \in DOMAIN Book : \E k \in DOMAIN Book[r].lines :
          count[AskOf(r, k)] > 0 /\ StandsFor(groups[i], r, k, count[AskOf(r, k)])
    /\ \A i, j \in DOMAIN groups : groups[i].key = groups[j].key => i = j
    /\ \A r \in DOMAIN Book : \A k \in DOMAIN Book[r].lines :
          count[AskOf(r, k)] > 0 => \E i \in DOMAIN groups : groups[i].key = KeyOf(AskOf(r, k))

\* What parseIngredientLine leaves and finds: the text as it is, an amount, a unit.
LEMMA ParsedLine ==
    ASSUME NEW r \in DOMAIN Book, NEW k \in DOMAIN Book[r].lines
    PROVE  /\ LineAt(r, k).text = Book[r].lines[k].text /\ LineAt(r, k).text \in STRING
           /\ LineAt(r, k).amount \in Amount /\ LineAt(r, k).unit \in Units
           /\ LineAt(r, k).name \in Seq(STRING) /\ LineAt(r, k).preparation \in Words
           /\ AskOf(r, k) \in Asked
<1> DEFINE raw == Book[r].lines[k]
<1>1. raw \in RawLine
  <2>1. Book[r].lines \in Seq(RawLine)
    BY ShoppingAssumption
  <2>2. QED
    BY <2>1, ElementOfSeq
<1>2. /\ raw.text \in STRING /\ raw.amount \in Amount /\ raw.words \in Seq(STRING) /\ raw.preparation \in STRING
  BY <1>1 DEF RawLine, Amount
<1>3. LineAt(r, k) = ParseIngredientLine(raw)
  BY DEF LineAt
<1> HIDE DEF raw
<1> DEFINE Parsed(unit, skipped) ==
               [text |-> raw.text, amount |-> raw.amount, unit |-> unit,
                name |-> SubSeq(raw.words, skipped + 1, Len(raw.words)), preparation |-> raw.preparation]
           n   == IF Len(raw.words) >= 3 THEN 2 ELSE 1
           two == FindUnit(SubSeq(raw.words, 1, n))
           one == FindUnit(SubSeq(raw.words, 1, 1))
<1>4. ASSUME NEW words PROVE FindUnit(words) \in Units
  BY DEF FindUnit, Units
<1>5. two \in Units /\ one \in Units /\ NoUnit \in Units
  BY <1>4 DEF Units
<1>6. ASSUME NEW skipped \in {0, 1, 2} PROVE SubSeq(raw.words, skipped + 1, Len(raw.words)) \in Seq(STRING)
  BY <1>2
<1>7. n \in {0, 1, 2}
  OBVIOUS
<1>8. ASSUME NEW unit \in Units, NEW skipped \in {0, 1, 2}, NEW line, line = Parsed(unit, skipped)
      PROVE  /\ line.text = raw.text /\ line.amount \in Amount /\ line.unit \in Units
             /\ line.name \in Seq(STRING) /\ line.preparation \in Words
  BY <1>2, <1>6, <1>8 DEF Words
<1>9. \/ LineAt(r, k) = [Parsed(NoUnit, 0) EXCEPT !.preparation = ""]
      \/ \E unit \in Units, skipped \in {0, 1, 2} : LineAt(r, k) = Parsed(unit, skipped)
  <2> HIDE DEF Parsed
  <2>1. LineAt(r, k) = IF ~HasAmount(raw.amount) THEN [Parsed(NoUnit, 0) EXCEPT !.preparation = ""]
                       ELSE IF Len(raw.words) < 2 THEN Parsed(NoUnit, 0)
                       ELSE IF two # NoUnit THEN Parsed(two, n)
                       ELSE IF one # NoUnit THEN Parsed(one, 1)
                       ELSE Parsed(NoUnit, 0)
    BY <1>3 DEF ParseIngredientLine, Parsed
  <2> HIDE DEF two, one, n
  <2>2. QED
    BY <1>5, <1>7, <2>1
<1>10. CASE LineAt(r, k) = [Parsed(NoUnit, 0) EXCEPT !.preparation = ""]
  <2> DEFINE line == Parsed(NoUnit, 0)
  <2>0. /\ line.text = raw.text /\ line.amount = raw.amount /\ line.unit = NoUnit
        /\ line.name = SubSeq(raw.words, 0 + 1, Len(raw.words))
        /\ DOMAIN line = {"text", "amount", "unit", "name", "preparation"}
        /\ line = [i \in DOMAIN line |-> line[i]]
    OBVIOUS
  <2> HIDE DEF line
  <2>1. /\ LineAt(r, k).text = raw.text /\ LineAt(r, k).amount = raw.amount /\ LineAt(r, k).unit = NoUnit
        /\ LineAt(r, k).name = SubSeq(raw.words, 0 + 1, Len(raw.words)) /\ LineAt(r, k).preparation = ""
    <3>1. LineAt(r, k) = [line EXCEPT !.preparation = ""]
      BY <1>10 DEF line
    <3>2. QED
      BY <2>0, <3>1
  <2>2. LineAt(r, k).name \in Seq(STRING) /\ LineAt(r, k).preparation \in Words
    <3>1. SubSeq(raw.words, 0 + 1, Len(raw.words)) \in Seq(STRING)
      BY <1>6
    <3>2. "" \in Words
      BY DEF Words
    <3> HIDE DEF line
    <3>3. QED
      BY <2>1, <3>1, <3>2
  <2> HIDE DEF Parsed
  <2>3. QED
    BY <1>2, <1>5, <2>1, <2>2 DEF Asked, AskOf, raw
<1>11. CASE \E unit \in Units, skipped \in {0, 1, 2} : LineAt(r, k) = Parsed(unit, skipped)
  <2>1. PICK unit \in Units, skipped \in {0, 1, 2} : LineAt(r, k) = Parsed(unit, skipped)
    BY <1>11
  <2> HIDE DEF Parsed
  <2>2. QED
    BY <1>2, <1>8, <2>1 DEF Asked, AskOf, raw
<1>12. QED
  BY <1>9, <1>10, <1>11

\* An amount so many times and so many times again is the amount their sum times.
LEMMA AmountsAdd ==
    ASSUME NEW a \in Amount, NEW c \in Nat \ {0}, NEW s \in Nat \ {0}
    PROVE  /\ ScaleRange(a, c) \in Amount /\ NoAmount \in Amount
           /\ HasAmount(ScaleRange(a, c)) <=> HasAmount(a)
           /\ HasAmount(a) => AddRange(ScaleRange(a, c), ScaleRange(a, s)) = ScaleRange(a, c + s)
           /\ ~ HasAmount(a) => ScaleRange(a, c) = ScaleRange(a, c + s)
<1>1. PICK x \in Nat, y \in Nat, b \in BOOLEAN : a = [min |-> x, max |-> y, range |-> b]
  BY DEF Amount
<1>2. \A n \in Nat : ScaleRange(a, n) = [min |-> x * n, max |-> y * n, range |-> b]
  <2> SUFFICES ASSUME NEW n \in Nat PROVE ScaleRange(a, n) = [min |-> x * n, max |-> y * n, range |-> b]
    OBVIOUS
  <2>1. a.min = x /\ a.max = y /\ a.range = b /\ x * n \in Nat /\ y * n \in Nat
    BY <1>1
  <2>2. ASSUME NEW u \in Nat, NEW v \in Nat
        PROVE  [a EXCEPT !.min = u, !.max = v] = [min |-> u, max |-> v, range |-> b]
    <3> DEFINE p == [a EXCEPT !.min = u, !.max = v]
               q == [min |-> u, max |-> v, range |-> b]
    <3>1. p \in Amount /\ q \in Amount
      BY DEF Amount
    <3>2. p.min = q.min /\ p.max = q.max /\ p.range = q.range
      BY <2>1 DEF Amount
    <3> HIDE DEF p, q
    <3>3. p = q
      BY <3>1, <3>2 DEF Amount
    <3>4. QED
      BY <3>3 DEF p, q
  <2>3. [a EXCEPT !.min = x * n, !.max = y * n] = [min |-> x * n, max |-> y * n, range |-> b]
    BY <2>1, <2>2
  <2>4. QED
    BY <2>1, <2>3, Zenon DEF ScaleRange
<1>3. /\ c + s \in Nat
      /\ \A z \in Nat : /\ z * c \in Nat /\ z * s \in Nat /\ z * (c + s) = z * c + z * s
                         /\ z * c = 0 <=> z = 0
  OBVIOUS
<1>4. ScaleRange(a, c) \in Amount /\ NoAmount \in Amount
  BY <1>2, <1>3 DEF Amount, NoAmount
<1>5. HasAmount(ScaleRange(a, c)) <=> HasAmount(a)
  <2>1. \A u \in Nat, v \in Nat :
            [min |-> u, max |-> v, range |-> b] = NoAmount <=> u = 0 /\ v = 0 /\ b = FALSE
    BY DEF NoAmount
  <2>2. x * c \in Nat /\ y * c \in Nat /\ (x * c = 0 <=> x = 0) /\ (y * c = 0 <=> y = 0)
    BY <1>3
  <2>3. a = NoAmount <=> x = 0 /\ y = 0 /\ b = FALSE
    BY <1>1, <2>1
  <2>4. ScaleRange(a, c) = NoAmount <=> x * c = 0 /\ y * c = 0 /\ b = FALSE
    <3>1. ScaleRange(a, c) = [min |-> x * c, max |-> y * c, range |-> b]
      BY <1>2
    <3>2. QED
      BY <2>1, <2>2, <3>1
  <2>5. QED
    BY <2>2, <2>3, <2>4 DEF HasAmount
<1>6. AddRange(ScaleRange(a, c), ScaleRange(a, s)) = ScaleRange(a, c + s)
  BY <1>2, <1>3 DEF AddRange
<1>7. ~ HasAmount(a) => ScaleRange(a, c) = ScaleRange(a, c + s)
  BY <1>1, <1>2, <1>3 DEF HasAmount, NoAmount
<1>8. QED
  BY <1>4, <1>5, <1>6, <1>7

\* Where AddInput looks for the item of a key.
PlaceOf(groups, key) == SelectInSeq(groups, LAMBDA item : item.key = key)

\* The place that AddInput finds is that of an item of the key, or 0 if there is none.
LEMMA PlaceOfKey ==
    ASSUME NEW S, NEW groups \in Seq(S), NEW key
    PROVE  IF PlaceOf(groups, key) = 0 THEN \A i \in DOMAIN groups : groups[i].key # key
           ELSE PlaceOf(groups, key) \in DOMAIN groups /\ groups[PlaceOf(groups, key)].key = key
<1> DEFINE I == {i \in 1 .. Len(groups) : groups[i].key = key}
<1>1. PlaceOf(groups, key) = IF I # {} THEN Min(I) ELSE 0
  BY DEF PlaceOf, SelectInSeq
<1>2. DOMAIN groups = 1 .. Len(groups) /\ I \subseteq Nat \ {0}
  OBVIOUS
<1>3. CASE I = {}
  BY <1>1, <1>2, <1>3
<1>4. CASE I # {}
  <2> HIDE DEF I
  <2>1. \E i \in I : \A j \in I : i <= j
    BY <1>2, <1>4, LeastNatural
  <2>2. Min(I) \in I
    BY <2>1, Zenon DEF Min
  <2>3. QED
    BY <1>1, <1>2, <1>4, <2>2 DEF I
<1>5. QED
  BY <1>3, <1>4

\* What an ask determines: the line, for a recipe's lines of one text are one line.
LEMMA SameAsk ==
    ASSUME NEW r \in DOMAIN Book, NEW k \in DOMAIN Book[r].lines,
           NEW q \in DOMAIN Book, NEW l \in DOMAIN Book[q].lines
    PROVE  /\ AskOf(r, k) = AskOf(q, l) => r = q /\ LineAt(r, k) = LineAt(q, l)
           /\ KeyOf(AskOf(r, k)) = KeyOf(AskOf(q, l)) <=> AskOf(r, k) = AskOf(q, l)
<1>1. LineAt(r, k).text = Book[r].lines[k].text /\ LineAt(q, l).text = Book[q].lines[l].text
  BY ParsedLine
<1>2. AskOf(r, k) = AskOf(q, l) => r = q /\ LineAt(r, k) = LineAt(q, l)
  <2> SUFFICES ASSUME AskOf(r, k) = AskOf(q, l) PROVE r = q /\ LineAt(r, k) = LineAt(q, l)
    OBVIOUS
  <2>1. r = q /\ Book[r].lines[k].text = Book[q].lines[l].text
    BY <1>1 DEF AskOf
  <2>2. Book[r].lines[k] = Book[q].lines[l]
    BY <2>1, ShoppingAssumption
  <2>3. QED
    BY <2>1, <2>2 DEF LineAt
<1>3. KeyOf(AskOf(r, k)) = KeyOf(AskOf(q, l)) <=> AskOf(r, k) = AskOf(q, l)
  BY DEF KeyOf, AskOf
<1>4. QED
  BY <1>2, <1>3

\* The item that a line makes stands for it, the scale of its meal times.
LEMMA ItemOfLine ==
    ASSUME NEW r \in DOMAIN Book, NEW k \in DOMAIN Book[r].lines, NEW s \in Nat \ {0}
    PROVE  /\ Item(InputOf(r, k, s)) \in ShopItem
           /\ StandsFor(Item(InputOf(r, k, s)), r, k, s)
           /\ Item(InputOf(r, k, s)).sources = <<AskOf(r, k)>>
           /\ KeyFor(InputOf(r, k, s)) = KeyOf(AskOf(r, k))
<1> DEFINE input == InputOf(r, k, s)
           line  == LineAt(r, k)
<1>1. /\ input.canonical = "" /\ input.recipe = r /\ input.scale = s /\ input.text = line.text
      /\ input.amount = line.amount /\ input.unit = line.unit /\ input.name = line.name
      /\ input.preparation = line.preparation
  BY DEF InputOf
<1>2. /\ line.amount \in Amount /\ line.unit \in Units /\ line.name \in Seq(STRING) /\ line.preparation \in Words
      /\ AskOf(r, k) \in Asked /\ AskOf(r, k) = <<r, line.text>>
  BY ParsedLine DEF AskOf
<1> HIDE DEF input, line
<1>3. KeyFor(input) = KeyOf(AskOf(r, k))
  <2>1. KeyFor(input) = <<"unresolved", r, line.text>>
    BY <1>1 DEF KeyFor
  <2>2. AskOf(r, k)[1] = r /\ AskOf(r, k)[2] = line.text
    BY <1>2
  <2>3. QED
    BY <2>1, <2>2 DEF KeyOf
<1>4. ~ Convertible(input)
  BY <1>1 DEF Convertible
<1>5. Item(input) = [key |-> KeyOf(AskOf(r, k)), canonical |-> "", name |-> line.name,
                     preparation |-> line.preparation, checked |-> FALSE, sources |-> <<AskOf(r, k)>>,
                     unit |-> line.unit, amount |-> ScaleRange(line.amount, s)]
  BY <1>1, <1>2, <1>3, <1>4 DEF Item
<1>6. ScaleRange(line.amount, s) \in Amount
  BY <1>2, AmountsAdd
<1>7. KeyOf(AskOf(r, k)) \in {KeyOf(a) : a \in Asked} /\ <<AskOf(r, k)>> \in Seq(Asked)
  BY <1>2
<1>8. /\ Item(input) \in ShopItem
      /\ Item(input).key = KeyOf(AskOf(r, k)) /\ Item(input).checked = FALSE
      /\ Item(input).sources = <<AskOf(r, k)>> /\ Item(input).unit = line.unit
      /\ Item(input).amount = ScaleRange(line.amount, s)
  <2> DEFINE item == Item(input)
             key  == KeyOf(AskOf(r, k))
             name == line.name
             preparation == line.preparation
             sources == <<AskOf(r, k)>>
             unit == line.unit
             amount == ScaleRange(line.amount, s)
             Keys == {KeyOf(a) : a \in Asked}
  <2>1. /\ key \in Keys /\ name \in Seq(STRING) /\ preparation \in Words /\ sources \in Seq(Asked)
        /\ unit \in Units /\ amount \in Amount
    BY <1>2, <1>6, <1>7
  <2>2. item = [key |-> key, canonical |-> "", name |-> name, preparation |-> preparation, checked |-> FALSE,
                sources |-> sources, unit |-> unit, amount |-> amount]
    BY <1>5
  <2>3. ShopItem = [key : Keys, canonical : {""}, name : Seq(STRING), preparation : Words,
                    checked : BOOLEAN, sources : Seq(Asked), unit : Units, amount : Amount]
    BY DEF ShopItem
  <2> HIDE DEF item, key, name, preparation, sources, unit, amount, Keys
  <2>4. item \in ShopItem
    BY <2>1, <2>2, <2>3
  <2>5. /\ item.key = key /\ item.checked = FALSE /\ item.sources = sources /\ item.unit = unit
        /\ item.amount = amount
    BY <2>2
  <2>6. QED
    BY <2>4, <2>5 DEF item, key, name, preparation, sources, unit, amount
<1>9. ToSet(<<AskOf(r, k)>>) = {AskOf(r, k)}
  BY DEF ToSet
<1>10. StandsFor(Item(input), r, k, s)
  BY <1>8, <1>9 DEF StandsFor, line
<1>11. QED
  BY <1>3, <1>8, <1>10 DEF input

\* An input that joins the item of its line stands for it as many times more.
LEMMA JoinOfItems ==
    ASSUME NEW item \in ShopItem, NEW r \in DOMAIN Book, NEW k \in DOMAIN Book[r].lines,
           NEW c \in Nat \ {0}, NEW s \in Nat \ {0}, StandsFor(item, r, k, c)
    PROVE  Join(item, InputOf(r, k, s)) \in ShopItem /\ StandsFor(Join(item, InputOf(r, k, s)), r, k, c + s)
<1> DEFINE more == Item(InputOf(r, k, s))
           a    == LineAt(r, k).amount
           sum  == IF HasAmount(item.amount) /\ HasAmount(more.amount) THEN AddRange(item.amount, more.amount)
                   ELSE item.amount
           both == item.sources \o more.sources
<1>1. Join(item, InputOf(r, k, s)) = [item EXCEPT !.amount = sum, !.sources = both]
  BY DEF Join
<1>2. a \in Amount /\ AskOf(r, k) \in Asked
  BY ParsedLine
<1>3. more.sources = <<AskOf(r, k)>> /\ more.amount = ScaleRange(a, s)
  BY ItemOfLine DEF StandsFor
<1>4. item.amount = ScaleRange(a, c) /\ ToSet(item.sources) = {AskOf(r, k)} /\ item.sources \in Seq(Asked)
  BY DEF StandsFor, ShopItem
<1> HIDE DEF more, a
<1>5. sum = ScaleRange(a, c + s)
  <2>1. /\ HasAmount(ScaleRange(a, c)) <=> HasAmount(a)
        /\ HasAmount(a) => AddRange(ScaleRange(a, c), ScaleRange(a, s)) = ScaleRange(a, c + s)
        /\ ~ HasAmount(a) => ScaleRange(a, c) = ScaleRange(a, c + s)
    BY <1>2, AmountsAdd
  <2>2. HasAmount(ScaleRange(a, s)) <=> HasAmount(a)
    BY <1>2, AmountsAdd
  <2>3. QED
    BY <1>3, <1>4, <2>1, <2>2
<1>6. sum \in Amount
  <2>1. c + s \in Nat \ {0}
    OBVIOUS
  <2>2. QED
    BY <1>2, <1>5, <2>1, AmountsAdd
<1>7. both \in Seq(Asked) /\ ToSet(both) = {AskOf(r, k)}
  <2>1. more.sources \in Seq(Asked)
    BY <1>2, <1>3
  <2>2. both \in Seq(Asked)
    BY <1>4, <2>1
  <2>3. \A i \in DOMAIN item.sources : item.sources[i] = AskOf(r, k)
    BY <1>4 DEF ToSet
  <2>4. Len(both) = Len(item.sources) + 1 /\ both[Len(item.sources) + 1] = AskOf(r, k)
    BY <1>3, <1>4
  <2>5. \A i \in DOMAIN both : both[i] = AskOf(r, k)
    BY <1>3, <1>4, <2>3
  <2>6. Len(both) \in DOMAIN both
    <3>1. DOMAIN both = 1 .. Len(both) /\ Len(item.sources) \in Nat
      BY <1>4, <2>2
    <3> HIDE DEF both
    <3>2. QED
      BY <2>4, <3>1
  <2> HIDE DEF both
  <2>7. QED
    BY <2>2, <2>5, <2>6 DEF ToSet
<1> HIDE DEF sum, both
<1>8. [item EXCEPT !.amount = sum, !.sources = both] \in ShopItem
  BY <1>6, <1>7 DEF ShopItem
<1>9. /\ [item EXCEPT !.amount = sum, !.sources = both].amount = sum
      /\ [item EXCEPT !.amount = sum, !.sources = both].sources = both
      /\ [item EXCEPT !.amount = sum, !.sources = both].key = item.key
      /\ [item EXCEPT !.amount = sum, !.sources = both].unit = item.unit
      /\ [item EXCEPT !.amount = sum, !.sources = both].checked = item.checked
  BY DEF ShopItem
<1>10. QED
  BY <1>1, <1>5, <1>7, <1>8, <1>9 DEF StandsFor, a

\* One line more, so many times: it joins the item of its key or makes one.
LEMMA AddLine ==
    ASSUME NEW groups, NEW count \in [Asked -> Nat], AddsUp(groups, count),
           NEW r \in DOMAIN Book, NEW k \in DOMAIN Book[r].lines, NEW s \in Nat \ {0}
    PROVE  AddsUp(AddInput(groups, InputOf(r, k, s)), [count EXCEPT ![AskOf(r, k)] = @ + s])
<1> DEFINE input == InputOf(r, k, s)
           ask   == AskOf(r, k)
           more  == [count EXCEPT ![ask] = @ + s]
           p     == PlaceOf(groups, KeyFor(input))
           after == AddInput(groups, input)
<1>1. /\ groups \in Seq(ShopItem)
      /\ \A i \in DOMAIN groups : \E q \in DOMAIN Book : \E l \in DOMAIN Book[q].lines :
            count[AskOf(q, l)] > 0 /\ StandsFor(groups[i], q, l, count[AskOf(q, l)])
      /\ \A i, j \in DOMAIN groups : groups[i].key = groups[j].key => i = j
      /\ \A q \in DOMAIN Book : \A l \in DOMAIN Book[q].lines :
            count[AskOf(q, l)] > 0 => \E i \in DOMAIN groups : groups[i].key = KeyOf(AskOf(q, l))
  BY DEF AddsUp
<1>2. KeyFor(input) = KeyOf(ask) /\ ask \in Asked
  BY ItemOfLine, ParsedLine
<1>3. IF p = 0 THEN \A i \in DOMAIN groups : groups[i].key # KeyOf(ask)
               ELSE p \in DOMAIN groups /\ groups[p].key = KeyOf(ask)
  BY <1>1, <1>2, PlaceOfKey
<1>4. after = IF p = 0 THEN Append(groups, Item(input)) ELSE [groups EXCEPT ![p] = Join(@, input)]
  BY DEF AddInput, PlaceOf
<1>5. \A q \in DOMAIN Book : \A l \in DOMAIN Book[q].lines :
          /\ AskOf(q, l) \in Asked
          /\ AskOf(q, l) # ask => more[AskOf(q, l)] = count[AskOf(q, l)] /\ KeyOf(AskOf(q, l)) # KeyOf(ask)
          /\ AskOf(q, l) = ask => q = r /\ LineAt(q, l) = LineAt(r, k)
  BY <1>2, ParsedLine, SameAsk
<1>6. more[ask] = count[ask] + s /\ count[ask] \in Nat /\ more[ask] > 0
  BY <1>2
<1>7. Item(input) \in ShopItem /\ StandsFor(Item(input), r, k, s)
  BY ItemOfLine
<1> HIDE DEF p, after, more, input
<1>8. CASE p = 0
  <2>1. \A i \in DOMAIN groups : groups[i].key # KeyOf(ask)
    BY <1>3, <1>8
  <2>2. count[ask] = 0 /\ more[ask] = s
    BY <1>1, <1>6, <2>1
  <2>3. after = Append(groups, Item(input))
    BY <1>4, <1>8
  <2>4. /\ after \in Seq(ShopItem) /\ DOMAIN after = 1 .. Len(groups) + 1 /\ DOMAIN groups = 1 .. Len(groups)
        /\ Len(groups) \in Nat /\ after[Len(groups) + 1] = Item(input)
        /\ \A i \in DOMAIN groups : after[i] = groups[i]
    BY <1>1, <1>7, <2>3
  <2>5. StandsFor(after[Len(groups) + 1], r, k, more[ask])
    BY <1>7, <2>2, <2>4
  <2>6. after[Len(groups) + 1].key = KeyOf(ask)
    BY <2>5 DEF StandsFor
  <2>7. ASSUME NEW i \in DOMAIN after
        PROVE  \E q \in DOMAIN Book : \E l \in DOMAIN Book[q].lines :
                   more[AskOf(q, l)] > 0 /\ StandsFor(after[i], q, l, more[AskOf(q, l)])
    <3>1. CASE i = Len(groups) + 1
      BY <1>6, <2>5, <3>1
    <3>2. CASE i \in DOMAIN groups
      <4>1. PICK q \in DOMAIN Book : \E l \in DOMAIN Book[q].lines :
                     count[AskOf(q, l)] > 0 /\ StandsFor(groups[i], q, l, count[AskOf(q, l)])
        BY <1>1, <3>2
      <4>2. PICK l \in DOMAIN Book[q].lines : count[AskOf(q, l)] > 0 /\ StandsFor(groups[i], q, l, count[AskOf(q, l)])
        BY <4>1
      <4>3. groups[i].key = KeyOf(AskOf(q, l))
        BY <4>2 DEF StandsFor
      <4>4. more[AskOf(q, l)] = count[AskOf(q, l)]
        BY <1>5, <2>1, <3>2, <4>3
      <4>5. more[AskOf(q, l)] > 0 /\ StandsFor(after[i], q, l, more[AskOf(q, l)])
        BY <2>4, <3>2, <4>2, <4>4
      <4>6. QED
        BY <4>5
    <3>3. QED
      BY <2>4, <3>1, <3>2
  <2>8. \A i, j \in DOMAIN after : after[i].key = after[j].key => i = j
    <3> SUFFICES ASSUME NEW i \in DOMAIN after, NEW j \in DOMAIN after, after[i].key = after[j].key PROVE i = j
      OBVIOUS
    <3>1. CASE i = Len(groups) + 1 /\ j # Len(groups) + 1
      BY <2>1, <2>4, <2>6, <3>1
    <3>2. CASE j = Len(groups) + 1 /\ i # Len(groups) + 1
      BY <2>1, <2>4, <2>6, <3>2
    <3>3. CASE i \in DOMAIN groups /\ j \in DOMAIN groups
      BY <1>1, <2>4, <3>3
    <3>4. QED
      BY <2>4, <3>1, <3>2, <3>3
  <2>9. ASSUME NEW q \in DOMAIN Book, NEW l \in DOMAIN Book[q].lines, more[AskOf(q, l)] > 0
        PROVE  \E i \in DOMAIN after : after[i].key = KeyOf(AskOf(q, l))
    <3>1. CASE AskOf(q, l) = ask
      BY <2>4, <2>6, <3>1
    <3>2. CASE AskOf(q, l) # ask
      <4>1. PICK i \in DOMAIN groups : groups[i].key = KeyOf(AskOf(q, l))
        BY <1>1, <1>5, <2>9, <3>2
      <4>2. i \in DOMAIN after /\ after[i].key = KeyOf(AskOf(q, l))
        BY <2>4, <4>1
      <4>3. QED
        BY <4>2
    <3>3. QED
      BY <3>1, <3>2
  <2>10. QED
    BY <2>4, <2>7, <2>8, <2>9 DEF AddsUp, after, more, input
<1>9. CASE p # 0
  <2>1. p \in DOMAIN groups /\ groups[p].key = KeyOf(ask)
    BY <1>3, <1>9
  <2>2. after = [groups EXCEPT ![p] = Join(groups[p], input)]
    BY <1>4, <1>9
  <2>3. groups[p] \in ShopItem /\ StandsFor(groups[p], r, k, count[ask]) /\ count[ask] \in Nat \ {0}
    <3>1. groups[p] \in ShopItem
      BY <1>1, <2>1, ElementOfSeq
    <3>2. PICK q \in DOMAIN Book : \E l \in DOMAIN Book[q].lines :
                   count[AskOf(q, l)] > 0 /\ StandsFor(groups[p], q, l, count[AskOf(q, l)])
      BY <1>1, <2>1
    <3>3. PICK l \in DOMAIN Book[q].lines : count[AskOf(q, l)] > 0 /\ StandsFor(groups[p], q, l, count[AskOf(q, l)])
      BY <3>2
    <3>4. AskOf(q, l) = ask
      BY <1>5, <2>1, <3>3 DEF StandsFor
    <3>5. LineAt(q, l) = LineAt(r, k)
      BY <1>5, <3>4
    <3>6. StandsFor(groups[p], r, k, count[ask])
      BY <3>3, <3>4, <3>5 DEF StandsFor
    <3>7. QED
      BY <1>6, <3>1, <3>3, <3>4, <3>6
  <2>4. Join(groups[p], input) \in ShopItem /\ StandsFor(Join(groups[p], input), r, k, more[ask])
    BY <1>6, <2>3, JoinOfItems DEF input
  <2>5. Join(groups[p], input).key = KeyOf(ask)
    BY <2>4 DEF StandsFor
  <2>6. /\ after \in Seq(ShopItem) /\ DOMAIN after = DOMAIN groups /\ after[p] = Join(groups[p], input)
        /\ \A i \in DOMAIN groups : i # p => after[i] = groups[i]
    BY <1>1, <2>1, <2>2, <2>4
  <2>7. \A i \in DOMAIN groups : after[i].key = groups[i].key
    BY <2>1, <2>5, <2>6
  <2>8. ASSUME NEW i \in DOMAIN after
        PROVE  \E q \in DOMAIN Book : \E l \in DOMAIN Book[q].lines :
                   more[AskOf(q, l)] > 0 /\ StandsFor(after[i], q, l, more[AskOf(q, l)])
    <3>1. CASE i = p
      BY <1>6, <2>4, <2>6, <3>1
    <3>2. CASE i # p
      <4>1. PICK q \in DOMAIN Book : \E l \in DOMAIN Book[q].lines :
                     count[AskOf(q, l)] > 0 /\ StandsFor(groups[i], q, l, count[AskOf(q, l)])
        BY <1>1, <2>6
      <4>2. PICK l \in DOMAIN Book[q].lines : count[AskOf(q, l)] > 0 /\ StandsFor(groups[i], q, l, count[AskOf(q, l)])
        BY <4>1
      <4>3. groups[i].key = KeyOf(AskOf(q, l))
        BY <4>2 DEF StandsFor
      <4>4. AskOf(q, l) # ask
        BY <1>1, <2>1, <2>6, <3>2, <4>3
      <4>5. more[AskOf(q, l)] > 0 /\ StandsFor(after[i], q, l, more[AskOf(q, l)])
        BY <1>5, <2>6, <3>2, <4>2, <4>4
      <4>6. QED
        BY <4>5
    <3>3. QED
      BY <3>1, <3>2
  <2>9. \A i, j \in DOMAIN after : after[i].key = after[j].key => i = j
    BY <1>1, <2>6, <2>7
  <2>10. ASSUME NEW q \in DOMAIN Book, NEW l \in DOMAIN Book[q].lines, more[AskOf(q, l)] > 0
         PROVE  \E i \in DOMAIN after : after[i].key = KeyOf(AskOf(q, l))
    <3>1. CASE AskOf(q, l) = ask
      BY <2>1, <2>6, <2>7, <3>1
    <3>2. CASE AskOf(q, l) # ask
      <4>1. PICK i \in DOMAIN groups : groups[i].key = KeyOf(AskOf(q, l))
        BY <1>1, <1>5, <2>10, <3>2
      <4>2. QED
        BY <2>6, <2>7, <4>1
    <3>3. QED
      BY <3>1, <3>2
  <2>11. QED
    BY <2>6, <2>8, <2>9, <2>10 DEF AddsUp, after, more, input
<1>10. QED
  BY <1>8, <1>9

\* The meals of a plan, and what their lines hand on to be added up.
Dinner   == [recipe : DOMAIN Book, servings : {2, 4}]
AnInput == UNION {{InputOf(r, k, s) : k \in DOMAIN Book[r].lines, s \in Nat \ {0}} : r \in DOMAIN Book}

\* How many of the first lines of a recipe read so.
Alike(r, text, n) == Cardinality({k \in 1 .. n : Book[r].lines[k].text = text})
Reads(r, text, k) == IF Book[r].lines[k].text = text THEN 1 ELSE 0
\* The count when the first lines of a recipe are asked for so many times more.
Plus(count, r, s, n) == [a \in Asked |-> count[a] + IF a[1] = r THEN s * Alike(r, a[2], n) ELSE 0]
CountOf(menu) == [a \in Asked |-> DemandOf(a[1], menu) * Alike(a[1], a[2], Len(Book[a[1]].lines))]

\* How many lines read so, one line further.
LEMMA AlikeStep ==
    ASSUME NEW r, NEW text, NEW n \in Nat
    PROVE  /\ Alike(r, text, 0) = 0 /\ Alike(r, text, n) \in Nat
           /\ Alike(r, text, n + 1) = Alike(r, text, n) + Reads(r, text, n + 1)
<1> DEFINE K(m) == {k \in 1 .. m : Book[r].lines[k].text = text}
<1>1. K(0) = {} /\ n + 1 \notin K(n)
  OBVIOUS
<1>2. K(n + 1) = IF Book[r].lines[n + 1].text = text THEN K(n) \cup {n + 1} ELSE K(n)
  OBVIOUS
<1>3. IsFiniteSet(1 .. n)
  BY FS_Interval
<1>4. K(n) \subseteq 1 .. n
  OBVIOUS
<1>5. IsFiniteSet(K(n))
  BY <1>3, <1>4, FS_Subset
<1> HIDE DEF K
<1>6. Cardinality(K(n)) \in Nat
  BY <1>5, FS_CardinalityType
<1>7. Cardinality(K(n) \cup {n + 1}) = Cardinality(K(n)) + 1
  BY <1>1, <1>5, FS_AddElement
<1>8. Cardinality(K(0)) = 0
  BY <1>1, FS_EmptySet
<1>9. Cardinality(K(n + 1)) = Cardinality(K(n)) + Reads(r, text, n + 1)
  BY <1>2, <1>6, <1>7 DEF Reads
<1>10. QED
  BY <1>6, <1>8, <1>9 DEF Alike, K

\* A meal asks for each line of its recipe at least once.
LEMMA ScaleOfMeal ==
    ASSUME NEW meal \in Dinner
    PROVE  Scale(meal) \in Nat \ {0} /\ meal.recipe \in DOMAIN Book
<1>1. meal.recipe \in DOMAIN Book /\ (meal.servings = 2 \/ meal.servings = 4)
  BY DEF Dinner
<1>2. Book[meal.recipe].servings \in {0, 1, 2}
  BY <1>1, ShoppingAssumption
<1>3. Scale(meal) \in {1, 2, 4}
  BY <1>1, <1>2 DEF Scale
<1>4. QED
  BY <1>1, <1>3

\* The inputs of a meal are those of the lines of its recipe, in order.
LEMMA InputsOfMeal ==
    ASSUME NEW meal \in Dinner
    PROVE  /\ Inputs(meal) \in Seq(AnInput) /\ Len(Inputs(meal)) = Len(Book[meal.recipe].lines)
           /\ \A k \in DOMAIN Book[meal.recipe].lines :
                 Inputs(meal)[k] = InputOf(meal.recipe, k, Scale(meal)) /\ Inputs(meal)[k] \in AnInput
<1> DEFINE r == meal.recipe
           s == Scale(meal)
<1>1. r \in DOMAIN Book /\ s \in Nat \ {0}
  BY ScaleOfMeal
<1>2. Book[r].lines \in Seq(RawLine)
  BY <1>1, ShoppingAssumption
<1>3. Inputs(meal) = [k \in DOMAIN Book[r].lines |-> InputOf(r, k, s)]
  BY DEF Inputs, InputOf, LineAt
<1>4. \A k \in DOMAIN Book[r].lines : InputOf(r, k, s) \in AnInput
  BY <1>1 DEF AnInput
<1> HIDE DEF r, s
<1>5. DOMAIN Book[r].lines = 1 .. Len(Book[r].lines) /\ Len(Book[r].lines) \in Nat
  BY <1>2
<1>6. Inputs(meal) \in Seq(AnInput) /\ Len(Inputs(meal)) = Len(Book[r].lines)
  BY <1>3, <1>4, <1>5
<1>7. QED
  BY <1>3, <1>4, <1>6 DEF r, s

\* A meal more adds each line of its recipe, its scale times.
LEMMA AddMeal ==
    ASSUME NEW base \in Seq(AnInput), NEW count \in [Asked -> Nat], NEW meal \in Dinner,
           AddsUp(AggregateIngredients(base), count)
    PROVE  AddsUp(AggregateIngredients(base \o Inputs(meal)),
                  Plus(count, meal.recipe, Scale(meal), Len(Book[meal.recipe].lines)))
<1> DEFINE r == meal.recipe
           s == Scale(meal)
           lines == Book[r].lines
           inputs == Inputs(meal)
           P(n) == n <= Len(lines) => AddsUp(AggregateIngredients(base \o SubSeq(inputs, 1, n)), Plus(count, r, s, n))
           T == {n \in Nat : P(n)}
<1>1. r \in DOMAIN Book /\ s \in Nat \ {0}
  BY ScaleOfMeal
<1>2. lines \in Seq(RawLine)
  BY <1>1, ShoppingAssumption
<1>3. /\ inputs \in Seq(AnInput) /\ Len(inputs) = Len(lines)
      /\ \A k \in DOMAIN lines : inputs[k] = InputOf(r, k, s) /\ inputs[k] \in AnInput
  BY InputsOfMeal
<1>l. Len(lines) \in Nat /\ DOMAIN lines = 1 .. Len(lines)
  BY <1>2
<1> HIDE DEF s, inputs
<1>4. P(0)
  <2>1. base \o SubSeq(inputs, 1, 0) = base
    BY <1>3
  <2>2. Plus(count, r, s, 0) = count
    <3>1. \A a \in Asked : count[a] + (IF a[1] = r THEN s * Alike(r, a[2], 0) ELSE 0) = count[a]
      <4>1. \A a \in Asked : Alike(r, a[2], 0) = 0 /\ count[a] \in Nat
        BY AlikeStep
      <4>2. s * 0 = 0
        BY <1>1
      <4>3. QED
        BY <4>1, <4>2
    <3>2. QED
      BY <3>1 DEF Plus
  <2>3. QED
    BY <2>1, <2>2
<1>5. ASSUME NEW n \in Nat, P(n) PROVE P(n + 1)
  <2> SUFFICES ASSUME n + 1 <= Len(lines)
               PROVE  AddsUp(AggregateIngredients(base \o SubSeq(inputs, 1, n + 1)), Plus(count, r, s, n + 1))
    OBVIOUS
  <2>1. n + 1 \in DOMAIN lines /\ n <= Len(lines)
    BY <1>l
  <2>2. AddsUp(AggregateIngredients(base \o SubSeq(inputs, 1, n)), Plus(count, r, s, n))
    BY <1>5, <2>1
  <2>3. inputs[n + 1] = InputOf(r, n + 1, s) /\ inputs[n + 1] \in AnInput
    BY <1>3, <2>1
  <2> DEFINE front == base \o SubSeq(inputs, 1, n)
             sofar == Plus(count, r, s, n)
             ask   == AskOf(r, n + 1)
  <2>4. base \o SubSeq(inputs, 1, n + 1) = Append(front, inputs[n + 1]) /\ front \in Seq(AnInput)
    <3>1. /\ SubSeq(inputs, 1, n) \in Seq(AnInput)
          /\ SubSeq(inputs, 1, n + 1) = Append(SubSeq(inputs, 1, n), inputs[n + 1])
      BY <1>3, <1>l
    <3>2. \A u, v \in Seq(AnInput), x \in AnInput : u \o Append(v, x) = Append(u \o v, x) /\ u \o v \in Seq(AnInput)
      OBVIOUS
    <3>3. QED
      BY <2>3, <3>1, <3>2
  <2>5. sofar \in [Asked -> Nat]
    <3>1. \A a \in Asked : count[a] \in Nat /\ Alike(r, a[2], n) \in Nat
      BY AlikeStep
    <3>2. \A c \in Nat : s * c \in Nat
      BY <1>1
    <3>3. ASSUME NEW a \in Asked PROVE count[a] + (IF a[1] = r THEN s * Alike(r, a[2], n) ELSE 0) \in Nat
      <4>1. s * Alike(r, a[2], n) \in Nat /\ count[a] \in Nat
        BY <3>1, <3>2
      <4>2. QED
        BY <4>1
    <3>4. QED
      BY <3>3 DEF Plus
  <2>6. AggregateIngredients(Append(front, inputs[n + 1])) = AddInput(AggregateIngredients(front), InputOf(r, n + 1, s))
    <3> HIDE DEF front
    <3>1. QED
      BY <2>3, <2>4, AggregateStep
  <2>7. AddsUp(AddInput(AggregateIngredients(front), InputOf(r, n + 1, s)), [sofar EXCEPT ![ask] = @ + s])
    <3> HIDE DEF front, sofar
    <3>1. AddsUp(AggregateIngredients(front), sofar)
      BY <2>2 DEF front, sofar
    <3>2. QED
      BY <1>1, <2>1, <2>5, <3>1, AddLine
  <2>8. Plus(count, r, s, n + 1) = [sofar EXCEPT ![ask] = @ + s]
    <3>1. ask = <<r, lines[n + 1].text>> /\ ask \in Asked
      BY <1>1, <2>1, ParsedLine DEF AskOf
    <3>2. \A a \in Asked : a = <<a[1], a[2]>> /\ count[a] \in Nat
      BY DEF Asked
    <3>3. \A a \in Asked : /\ Alike(r, a[2], n) \in Nat
                           /\ Alike(r, a[2], n + 1) = Alike(r, a[2], n) + Reads(r, a[2], n + 1)
      BY AlikeStep
    <3>i. \A text : Reads(r, text, n + 1) = IF lines[n + 1].text = text THEN 1 ELSE 0
      BY DEF Reads
    <3>4. \A c \in Nat : s * c \in Nat /\ s * (c + 1) = s * c + s /\ s * (c + 0) = s * c
      BY <1>1
    <3>5. ASSUME NEW a \in Asked
          PROVE  count[a] + (IF a[1] = r THEN s * Alike(r, a[2], n + 1) ELSE 0)
                   = IF a = ask THEN sofar[a] + s ELSE sofar[a]
      <4>1. sofar[a] = count[a] + IF a[1] = r THEN s * Alike(r, a[2], n) ELSE 0
        BY DEF Plus
      <4>2. a = ask <=> a[1] = r /\ a[2] = lines[n + 1].text
        BY <3>1, <3>2
      <4> HIDE DEF sofar, ask, lines, r
      <4>3. CASE a[1] # r
        BY <4>1, <4>2, <4>3
      <4>4. CASE a[1] = r /\ a[2] = lines[n + 1].text
        <5>1. s * Alike(r, a[2], n + 1) = s * Alike(r, a[2], n) + s
          <6>1. Alike(r, a[2], n + 1) = Alike(r, a[2], n) + 1
            BY <3>3, <3>i, <4>4
          <6>2. s * (Alike(r, a[2], n) + 1) = s * Alike(r, a[2], n) + s
            BY <3>3, <3>4
          <6>3. QED
            BY <6>1, <6>2
        <5>2. s * Alike(r, a[2], n) \in Nat
          BY <3>3, <3>4
        <5>3. QED
          BY <1>1, <3>2, <4>1, <4>2, <4>4, <5>1, <5>2
      <4>5. CASE a[1] = r /\ a[2] # lines[n + 1].text
        <5>1. Alike(r, a[2], n + 1) = Alike(r, a[2], n)
          BY <3>3, <3>i, <4>5
        <5>2. QED
          BY <4>1, <4>2, <4>5, <5>1
      <4>6. QED
        BY <4>3, <4>4, <4>5
    <3>6. sofar \in [Asked -> Nat]
      BY <2>5
    <3>7. Plus(count, r, s, n + 1) = [a \in Asked |-> count[a] + IF a[1] = r THEN s * Alike(r, a[2], n + 1) ELSE 0]
      BY DEF Plus
    <3> HIDE DEF sofar, ask, lines, r
    <3>8. QED
      BY <3>1, <3>5, <3>6, <3>7
  <2>9. QED
    <3> HIDE DEF front, sofar, ask
    <3>1. QED
      BY <2>4, <2>6, <2>7, <2>8
<1>6. Nat \subseteq T
  <2> HIDE DEF P
  <2>1. 0 \in T /\ \A n \in Nat : n \in T => n + 1 \in T
    BY <1>4, <1>5
  <2> HIDE DEF T
  <2>2. QED
    BY <2>1, InductionOnSet
<1>7. SubSeq(inputs, 1, Len(lines)) = inputs
  BY <1>3, <1>l
<1>8. AddsUp(AggregateIngredients(base \o SubSeq(inputs, 1, Len(lines))), Plus(count, r, s, Len(lines)))
  <2>1. Len(lines) <= Len(lines)
    BY <1>l
  <2>2. QED
    BY <1>6, <1>l, <2>1
<1>9. QED
  BY <1>7, <1>8 DEF s, inputs

\* The items of a list add up the lines of all its meals.
LEMMA ItemsAddUp ==
    ASSUME NEW menu \in Seq(Dinner)
    PROVE  AddsUp(ItemsOf(menu), CountOf(menu)) /\ \A r : DemandOf(r, menu) \in Nat
<1> DEFINE All(ms) == [k \in DOMAIN ms |-> Inputs(ms[k])]
           P(ms)   == /\ FlattenSeq(All(ms)) \in Seq(AnInput)
                      /\ AddsUp(AggregateIngredients(FlattenSeq(All(ms))), CountOf(ms))
                      /\ \A r : DemandOf(r, ms) \in Nat
           T == {ms \in Seq(Dinner) : P(ms)}
<1>1. \A ms \in Seq(Dinner) : All(ms) \in Seq(Seq(AnInput))
  <2> SUFFICES ASSUME NEW ms \in Seq(Dinner) PROVE All(ms) \in Seq(Seq(AnInput))
    OBVIOUS
  <2>1. \A k \in DOMAIN ms : Inputs(ms[k]) \in Seq(AnInput)
    BY ElementOfSeq, InputsOfMeal
  <2>2. DOMAIN ms = 1 .. Len(ms) /\ Len(ms) \in Nat
    OBVIOUS
  <2>3. QED
    BY <2>1, <2>2
<1>2. ASSUME NEW a \in Asked
      PROVE  /\ a[1] \in DOMAIN Book /\ Len(Book[a[1]].lines) \in Nat
             /\ Alike(a[1], a[2], Len(Book[a[1]].lines)) \in Nat
  <2>1. a[1] \in DOMAIN Book
    BY DEF Asked
  <2>2. Book[a[1]].lines \in Seq(RawLine)
    BY <2>1, ShoppingAssumption
  <2>3. Len(Book[a[1]].lines) \in Nat
    BY <2>2
  <2>4. QED
    BY <2>1, <2>3, AlikeStep
<1>3. P(<<>>)
  <2>1. All(<<>>) = <<>>
    OBVIOUS
  <2>3. FlattenSeq(<<>>) = <<>>
    BY DEF FlattenSeq
  <2>4. AggregateIngredients(<<>>) = <<>>
    <3> DEFINE S == {0}
    <3>1. <<>> \in Seq(S) /\ 0 \in S
      OBVIOUS
    <3>2. QED
      BY <3>1, AggregateStep
  <2>5. \A r : DemandOf(r, <<>>) = 0
    <3> DEFINE S == {0}
    <3>1. <<>> \in Seq(S) /\ 0 \in S
      OBVIOUS
    <3>2. QED
      BY <3>1, DemandStep
  <2>6. \A a \in Asked : CountOf(<<>>)[a] = 0
    <3> SUFFICES ASSUME NEW a \in Asked PROVE CountOf(<<>>)[a] = 0
      OBVIOUS
    <3>1. CountOf(<<>>)[a] = DemandOf(a[1], <<>>) * Alike(a[1], a[2], Len(Book[a[1]].lines))
      BY DEF CountOf
    <3>2. \A c \in Nat : 0 * c = 0
      OBVIOUS
    <3>3. QED
      BY <1>2, <2>5, <3>1, <3>2
  <2>7. AddsUp(<<>>, CountOf(<<>>))
    <3>1. \A r \in DOMAIN Book : \A k \in DOMAIN Book[r].lines : ~ (CountOf(<<>>)[AskOf(r, k)] > 0)
      BY <2>6, ParsedLine
    <3>2. <<>> \in Seq(ShopItem) /\ DOMAIN <<>> = {}
      OBVIOUS
    <3>3. QED
      BY <3>1, <3>2 DEF AddsUp
  <2>8. <<>> \in Seq(AnInput)
    OBVIOUS
  <2>9. QED
    <3>1. FlattenSeq(All(<<>>)) = <<>> /\ AggregateIngredients(FlattenSeq(All(<<>>))) = <<>>
      BY <2>1, <2>3, <2>4
    <3>2. \A r : DemandOf(r, <<>>) \in Nat
      BY <2>5
    <3>3. FlattenSeq(All(<<>>)) \in Seq(AnInput)
      BY <2>8, <3>1
    <3>4. AddsUp(AggregateIngredients(FlattenSeq(All(<<>>))), CountOf(<<>>))
      BY <2>7, <3>1
    <3> HIDE DEF All
    <3>5. QED
      BY <3>2, <3>3, <3>4
<1>4. ASSUME NEW ms \in Seq(Dinner), NEW m \in Dinner, P(ms) PROVE P(Append(ms, m))
  <2> DEFINE base == FlattenSeq(All(ms))
             more == Append(ms, m)
             r    == m.recipe
  <2>1. All(more) = Append(All(ms), Inputs(m))
    <3>1. /\ DOMAIN ms = 1 .. Len(ms) /\ Len(ms) \in Nat /\ DOMAIN more = 1 .. Len(ms) + 1
          /\ more[Len(ms) + 1] = m /\ \A k \in DOMAIN ms : more[k] = ms[k]
      OBVIOUS
    <3>2. DOMAIN All(more) = 1 .. Len(ms) + 1 /\ All(more)[Len(ms) + 1] = Inputs(m)
      BY <3>1
    <3>3. \A k \in 1 .. Len(ms) : All(more)[k] = All(ms)[k]
      BY <3>1
    <3>4. All(ms) \in Seq(Seq(AnInput)) /\ Len(All(ms)) = Len(ms) /\ Inputs(m) \in Seq(AnInput)
      BY <1>1, <3>1, InputsOfMeal
    <3>5. All(more) \in Seq(Seq(AnInput))
      <4>1. more \in Seq(Dinner)
        OBVIOUS
      <4>2. QED
        BY <1>1, <4>1
    <3> HIDE DEF All, more
    <3>6. QED
      BY <3>2, <3>3, <3>4, <3>5
  <2>2. FlattenSeq(All(more)) = base \o Inputs(m)
    <3>1. All(ms) \in Seq(Seq(AnInput)) /\ Inputs(m) \in Seq(AnInput)
      BY <1>1, InputsOfMeal
    <3> HIDE DEF All, more
    <3>2. QED
      BY <2>1, <3>1, FlattenStep
  <2>3. base \in Seq(AnInput) /\ AddsUp(AggregateIngredients(base), CountOf(ms)) /\ \A q : DemandOf(q, ms) \in Nat
    BY <1>4
  <2>4. Scale(m) \in Nat \ {0} /\ r \in DOMAIN Book
    BY ScaleOfMeal
  <2>5. CountOf(ms) \in [Asked -> Nat]
    <3>1. \A c, d \in Nat : c * d \in Nat
      OBVIOUS
    <3>2. \A a \in Asked : DemandOf(a[1], ms) * Alike(a[1], a[2], Len(Book[a[1]].lines)) \in Nat
      BY <1>2, <2>3, <3>1
    <3>3. QED
      BY <3>2 DEF CountOf
  <2>6. base \o Inputs(m) \in Seq(AnInput)
    <3>1. Inputs(m) \in Seq(AnInput)
      BY InputsOfMeal
    <3> HIDE DEF base
    <3>2. QED
      BY <2>3, <3>1
  <2>7. AddsUp(AggregateIngredients(base \o Inputs(m)), Plus(CountOf(ms), r, Scale(m), Len(Book[r].lines)))
    <3> HIDE DEF base
    <3>1. QED
      BY <2>3, <2>5, AddMeal
  <2>8. \A q : DemandOf(q, more) = DemandOf(q, ms) + IF r = q THEN Scale(m) ELSE 0
    BY DemandStep DEF AddDemand
  <2>9. Plus(CountOf(ms), r, Scale(m), Len(Book[r].lines)) = CountOf(more)
    <3>1. ASSUME NEW a \in Asked
          PROVE  CountOf(ms)[a] + (IF a[1] = r THEN Scale(m) * Alike(r, a[2], Len(Book[r].lines)) ELSE 0)
                   = DemandOf(a[1], more) * Alike(a[1], a[2], Len(Book[a[1]].lines))
      <4>1. PICK c \in Nat : c = Alike(a[1], a[2], Len(Book[a[1]].lines))
        BY <1>2
      <4>2. PICK d \in Nat : d = DemandOf(a[1], ms)
        BY <2>3
      <4>3. CountOf(ms)[a] = d * c
        BY <4>1, <4>2 DEF CountOf
      <4>4. CASE a[1] = r
        <5>1. DemandOf(a[1], more) = d + Scale(m)
          BY <2>8, <4>2, <4>4
        <5>2. d * c + Scale(m) * c = (d + Scale(m)) * c
          BY <2>4
        <5>3. QED
          BY <4>1, <4>3, <4>4, <5>1, <5>2
      <4>5. CASE a[1] # r
        <5>1. DemandOf(a[1], more) = d
          BY <2>8, <4>2, <4>5
        <5>2. d * c + 0 = d * c
          OBVIOUS
        <5>3. QED
          BY <4>1, <4>3, <4>5, <5>1, <5>2
      <4>6. QED
        BY <4>4, <4>5
    <3> HIDE DEF more, r
    <3>2. QED
      BY <3>1 DEF Plus, CountOf
  <2>10. \A q : DemandOf(q, more) \in Nat
    BY <2>3, <2>4, <2>8
  <2>11. QED
    <3> HIDE DEF base, r
    <3>1. FlattenSeq(All(more)) \in Seq(AnInput)
      BY <2>2, <2>6
    <3>2. AddsUp(AggregateIngredients(FlattenSeq(All(more))), CountOf(more))
      BY <2>2, <2>7, <2>9
    <3> HIDE DEF All, more
    <3>3. QED
      BY <2>10, <3>1, <3>2 DEF more
<1>5. Seq(Dinner) \subseteq T
  <2>1. <<>> \in T
    BY <1>3
  <2>2. \A ms \in Seq(Dinner), m \in Dinner : ms \in T => Append(ms, m) \in T
    <3> HIDE DEF P
    <3>1. QED
      BY <1>4
  <2> HIDE DEF T
  <2>3. QED
    BY <2>1, <2>2, SeqInduction
<1>6. P(menu)
  BY <1>5
<1>7. QED
  BY <1>6 DEF ItemsOf

\* A list that shows the items of these meals, whatever is marked on it.
Shows(list, menu) ==
    /\ list \in Seq(ShopItem) /\ DOMAIN list = DOMAIN ItemsOf(menu)
    /\ \A k \in DOMAIN list : /\ list[k].sources = ItemsOf(menu)[k].sources
                              /\ list[k].unit = ItemsOf(menu)[k].unit
                              /\ list[k].amount = ItemsOf(menu)[k].amount

\* A mark changes nothing else of an item.
LEMMA MarkedItem ==
    ASSUME NEW item \in ShopItem, NEW mark \in BOOLEAN
    PROVE  LET marked == [item EXCEPT !.checked = mark]
           IN  /\ marked \in ShopItem /\ marked.checked = mark
               /\ marked.sources = item.sources /\ marked.unit = item.unit /\ marked.amount = item.amount
               /\ ItemKey(marked) = ItemKey(item)
<1> DEFINE marked == [item EXCEPT !.checked = mark]
           Keys   == {KeyOf(a) : a \in Asked}
<1>1. ShopItem = [key : Keys, canonical : {""}, name : Seq(STRING), preparation : Words,
                  checked : BOOLEAN, sources : Seq(Asked), unit : Units, amount : Amount]
  BY DEF ShopItem
<1> HIDE DEF Keys
<1>2. marked \in ShopItem
  BY <1>1
<1>3. /\ marked.checked = mark
      /\ marked.sources = item.sources /\ marked.unit = item.unit /\ marked.amount = item.amount
      /\ marked.canonical = item.canonical /\ marked.name = item.name /\ marked.preparation = item.preparation
  BY <1>1
<1> HIDE DEF marked
<1>4. ItemKey(marked) = ItemKey(item)
  BY <1>3 DEF ItemKey
<1>5. QED
  BY <1>2, <1>3, <1>4 DEF marked

\* A list as it is generated shows the items of its meals.
LEMMA ItemsAreItems ==
    ASSUME NEW menu \in Seq(Dinner)
    PROVE  ItemsOf(menu) \in Seq(ShopItem) /\ Shows(ItemsOf(menu), menu)
<1>1. ItemsOf(menu) \in Seq(ShopItem)
  BY ItemsAddUp DEF AddsUp
<1>2. QED
  BY <1>1 DEF Shows

\* The items of one ingredient and preparation, and their marks.
Same(before, item) == {k \in DOMAIN before : ItemKey(before[k]) = ItemKey(item)}
Marks(before, item) == {before[i].checked : i \in Same(before, item)}

\* The mark that an item gets is one that its ingredient had, or none.
LEMMA MarkIsOneOfThem ==
    ASSUME NEW before \in Seq(ShopItem), NEW item
    PROVE  /\ Mark(before, item) \in BOOLEAN
           /\ Mark(before, item) \in (IF Marks(before, item) = {} THEN {FALSE} ELSE Marks(before, item))
<1> DEFINE same == Same(before, item)
<1>1. DOMAIN before = 1 .. Len(before) /\ Len(before) \in Nat
  OBVIOUS
<1>2. Mark(before, item) = (same # {} /\ before[Max(same)].checked)
  BY DEF Mark, Same
<1>3. same \in SUBSET (1 .. Len(before))
  BY <1>1 DEF Same
<1>4. CASE same = {}
  <2>1. Mark(before, item) = FALSE
    BY <1>2, <1>4
  <2>2. Marks(before, item) = {}
    BY <1>4, Zenon DEF Marks
  <2>3. QED
    BY <2>1, <2>2, Zenon
<1>5. CASE same # {}
  <2>1. Max(same) \in same
    BY <1>1, <1>3, <1>5, GreatestOf
  <2>2. Max(same) \in DOMAIN before
    BY <2>1 DEF Same
  <2>3. before[Max(same)] \in ShopItem
    BY <2>2, ElementOfSeq
  <2>4. before[Max(same)].checked \in BOOLEAN
    BY <2>3 DEF ShopItem
  <2>5. Mark(before, item) = before[Max(same)].checked
    BY <1>2, <1>5, <2>4, Zenon
  <2>6. before[Max(same)].checked \in Marks(before, item)
    BY <2>1, Zenon DEF Marks
  <2>7. Marks(before, item) # {}
    BY <2>6, Zenon
  <2>8. Mark(before, item) \in BOOLEAN
    BY <2>4, <2>5, Zenon
  <2>9. Mark(before, item) \in Marks(before, item)
    BY <2>5, <2>6, Zenon
  <2>10. QED
    BY <2>7, <2>8, <2>9, Zenon
<1>6. QED
  BY <1>4, <1>5, Zenon

\* A refreshed list shows the items of its meals with the marks there were.
LEMMA RefreshedList ==
    ASSUME NEW before \in Seq(ShopItem), NEW menu \in Seq(Dinner), NEW after, after = Refreshed(before, menu)
    PROVE  /\ Shows(after, menu)
           /\ \A k \in DOMAIN after :
                 after[k].checked \in (IF Marks(before, after[k]) = {} THEN {FALSE} ELSE Marks(before, after[k]))
<1> DEFINE items == ItemsOf(menu)
<1>1. items \in Seq(ShopItem)
  BY ItemsAreItems
<1>2. after = [k \in DOMAIN items |-> [items[k] EXCEPT !.checked = Mark(before, items[k])]]
  BY DEF Refreshed
<1>3. DOMAIN items = 1 .. Len(items) /\ Len(items) \in Nat
  BY <1>1
<1> HIDE DEF items
<1>4. DOMAIN after = DOMAIN items
  BY <1>2
<1>5. ASSUME NEW k \in DOMAIN items
      PROVE  /\ after[k] \in ShopItem /\ after[k].sources = items[k].sources /\ after[k].unit = items[k].unit
             /\ after[k].amount = items[k].amount
             /\ after[k].checked \in (IF Marks(before, after[k]) = {} THEN {FALSE} ELSE Marks(before, after[k]))
  <2>1. items[k] \in ShopItem
    BY <1>1, ElementOfSeq
  <2>2. PICK mark \in BOOLEAN : mark = Mark(before, items[k])
    BY MarkIsOneOfThem, Zenon
  <2>3. after[k] = [items[k] EXCEPT !.checked = mark]
    <3>1. after[k] = [items[k] EXCEPT !.checked = Mark(before, items[k])]
      BY <1>2, Zenon
    <3>2. QED
      BY <2>2, <3>1, Zenon
  <2>4. /\ after[k] \in ShopItem /\ after[k].sources = items[k].sources /\ after[k].unit = items[k].unit
        /\ after[k].amount = items[k].amount
    BY <2>1, <2>3, MarkedItem
  <2>5. after[k].checked = mark
    <3>1. [items[k] EXCEPT !.checked = mark].checked = mark
      BY <2>1, MarkedItem
    <3>2. QED
      BY <2>3, <3>1, Zenon
  <2>6. ItemKey(after[k]) = ItemKey(items[k])
    BY <2>1, <2>3, MarkedItem
  <2>7. Marks(before, after[k]) = Marks(before, items[k])
    BY <2>6, Zenon DEF Marks, Same
  <2>8. mark \in (IF Marks(before, items[k]) = {} THEN {FALSE} ELSE Marks(before, items[k]))
    BY <2>2, MarkIsOneOfThem, Zenon
  <2>9. after[k].checked \in (IF Marks(before, after[k]) = {} THEN {FALSE} ELSE Marks(before, after[k]))
    BY <2>5, <2>7, <2>8, Zenon
  <2>10. QED
    BY <2>4, <2>9, Zenon
<1>6. after \in Seq(ShopItem)
  BY <1>2, <1>3, <1>5
<1>7. Shows(after, menu)
  BY <1>4, <1>5, <1>6 DEF Shows, items
<1>8. QED
  BY <1>4, <1>5, <1>7, Zenon

-------------------------------------------------------------------------------

ShoppingInv ==
    /\ dinners \in Seq(Dinner) /\ made \in BOOLEAN
    /\ made => Shows(listed, dinners)
    /\ ~ made => listed = <<>>

\* The invariant holds in the beginning.
LEMMA ShoppingStart == WebShoppingInit => ShoppingInv
<1> SUFFICES ASSUME WebShoppingInit PROVE ShoppingInv
  OBVIOUS
<1>1. dinners = <<>> /\ listed = <<>> /\ made = FALSE
  BY DEF WebShoppingInit
<1>2. <<>> \in Seq(Dinner)
  OBVIOUS
<1>3. QED
  BY <1>1, <1>2, Zenon DEF ShoppingInv

\* A change of the plan keeps the invariant and invents no mark.
LEMMA PlanChange ==
    ASSUME ShoppingInv, NEW menu \in Seq(Dinner), ChangePlan(menu)
    PROVE  /\ ShoppingInv'
           /\ \A k \in DOMAIN listed' :
                 made => listed'[k].checked \in (IF Marks(listed, listed'[k]) = {} THEN {FALSE}
                                                 ELSE Marks(listed, listed'[k]))
<1>1. dinners' = menu /\ made' = made /\ listed' = IF made THEN Refreshed(listed, menu) ELSE listed
  BY DEF ChangePlan
<1>2. CASE made
  <2>1. PICK before \in Seq(ShopItem) : before = listed
    BY <1>2 DEF ShoppingInv, Shows
  <2>2. PICK after : after = listed'
    OBVIOUS
  <2>3. after = Refreshed(before, menu)
    BY <1>1, <1>2, <2>1, <2>2
  <2>4. /\ Shows(after, menu)
        /\ \A k \in DOMAIN after :
              after[k].checked \in (IF Marks(before, after[k]) = {} THEN {FALSE} ELSE Marks(before, after[k]))
    BY <2>3, RefreshedList
  <2>5. ShoppingInv'
    <3>1. Shows(listed, dinners)'
      BY <1>1, <2>2, <2>4 DEF Shows
    <3>2. QED
      BY <1>1, <1>2, <3>1 DEF ShoppingInv
  <2>6. QED
    BY <2>1, <2>2, <2>4, <2>5, Zenon
<1>3. CASE ~ made
  BY <1>1, <1>3 DEF ShoppingInv
<1>4. QED
  BY <1>2, <1>3

\* What the requests about meals do is a change of the plan.
LEMMA PlanSteps ==
    ASSUME ShoppingInv
    PROVE  /\ \A r \in DOMAIN Book, s \in {2, 4} : PlanMeal(r, s) => \E menu \in Seq(Dinner) : ChangePlan(menu)
           /\ \A k \in DOMAIN dinners : UnplanMeal(k) => \E menu \in Seq(Dinner) : ChangePlan(menu)
           /\ \A k \in DOMAIN dinners, s \in {2, 4} :
                 ChangeServings(k, s) => \E menu \in Seq(Dinner) : ChangePlan(menu)
<1>1. PICK now \in Seq(Dinner) : now = dinners
  BY DEF ShoppingInv
<1>2. ASSUME NEW r \in DOMAIN Book, NEW s \in {2, 4}, PlanMeal(r, s)
      PROVE  \E menu \in Seq(Dinner) : ChangePlan(menu)
  <2>1. Append(now, [recipe |-> r, servings |-> s]) \in Seq(Dinner)
    BY DEF Dinner
  <2>2. QED
    BY <1>1, <1>2, <2>1, Zenon DEF PlanMeal
<1>3. ASSUME NEW k \in DOMAIN dinners, UnplanMeal(k)
      PROVE  \E menu \in Seq(Dinner) : ChangePlan(menu)
  <2>1. RemoveAt(now, k) \in Seq(Dinner)
    BY <1>1 DEF RemoveAt
  <2>2. QED
    BY <1>1, <1>3, <2>1, Zenon DEF UnplanMeal
<1>4. ASSUME NEW k \in DOMAIN dinners, NEW s \in {2, 4}, ChangeServings(k, s)
      PROVE  \E menu \in Seq(Dinner) : ChangePlan(menu)
  <2>1. [now EXCEPT ![k].servings = s] \in Seq(Dinner)
    <3>1. now[k] \in Dinner
      BY <1>1, ElementOfSeq
    <3>2. [now[k] EXCEPT !.servings = s] \in Dinner
      BY <3>1 DEF Dinner
    <3>3. \A meal \in Dinner : [now EXCEPT ![k] = meal] \in Seq(Dinner)
      BY <1>1
    <3>4. QED
      BY <3>2, <3>3
  <2>2. QED
    BY <1>1, <1>4, <2>1, Zenon DEF ChangeServings
<1>5. QED
  BY <1>2, <1>3, <1>4

\* A new list and a mark keep the invariant.
LEMMA ListSteps ==
    ASSUME ShoppingInv
    PROVE  /\ GenerateList => ShoppingInv'
           /\ \A k \in DOMAIN listed : ToggleItem(k) => ShoppingInv'
<1>1. ASSUME GenerateList PROVE ShoppingInv'
  <2>1. listed' = ItemsOf(dinners) /\ made' = TRUE /\ dinners' = dinners
    BY <1>1 DEF GenerateList
  <2>2. PICK menu \in Seq(Dinner) : menu = dinners
    BY DEF ShoppingInv
  <2>3. Shows(ItemsOf(menu), menu)
    BY ItemsAreItems
  <2>4. QED
    BY <2>1, <2>2, <2>3 DEF ShoppingInv, Shows
<1>2. ASSUME NEW k \in DOMAIN listed, ToggleItem(k) PROVE ShoppingInv'
  <2>1. listed' = [listed EXCEPT ![k].checked = ~ listed[k].checked] /\ made' = made /\ dinners' = dinners
    BY <1>2 DEF ToggleItem
  <2>2. made /\ Shows(listed, dinners)
    <3>1. listed # <<>>
      OBVIOUS
    <3>2. QED
      BY <3>1 DEF ShoppingInv
  <2>3. PICK before \in Seq(ShopItem) : before = listed
    BY <2>2 DEF Shows
  <2>4. before[k] \in ShopItem
    BY <2>3, ElementOfSeq
  <2>5. PICK mark \in BOOLEAN : mark = ~ before[k].checked
    OBVIOUS
  <2> DEFINE item == [before[k] EXCEPT !.checked = mark]
  <2>6. listed' = [before EXCEPT ![k] = item]
    BY <2>1, <2>3, <2>5
  <2>7. /\ item \in ShopItem /\ item.sources = before[k].sources /\ item.unit = before[k].unit
        /\ item.amount = before[k].amount
    BY <2>4, MarkedItem
  <2> HIDE DEF item
  <2>8. [before EXCEPT ![k] = item] \in Seq(ShopItem)
    BY <2>3, <2>7
  <2>9. /\ DOMAIN [before EXCEPT ![k] = item] = DOMAIN before
        /\ \A i \in DOMAIN before : [before EXCEPT ![k] = item][i] = IF i = k THEN item ELSE before[i]
    BY <2>3
  <2>10. Shows(listed, dinners)'
    BY <2>1, <2>2, <2>3, <2>6, <2>7, <2>8, <2>9 DEF Shows
  <2>11. QED
    BY <2>1, <2>2, <2>10 DEF ShoppingInv
<1>3. QED
  BY <1>1, <1>2

(* While there is a list it shows the items of the meals as they are planned,  *)
(* with marks on them; before there is one, nothing is listed.                 *)
THEOREM ShoppingInvHolds == WebShoppingSpec => []ShoppingInv
<1>1. ShoppingInv /\ [WebShoppingNext]_shoppingVars => ShoppingInv'
  <2> SUFFICES ASSUME ShoppingInv, [WebShoppingNext]_shoppingVars PROVE ShoppingInv'
    OBVIOUS
  <2>1. CASE \E r \in DOMAIN Book, s \in {2, 4} : PlanMeal(r, s)
    BY <2>1, PlanSteps, PlanChange, Zenon
  <2>2. CASE \E k \in DOMAIN dinners : UnplanMeal(k)
    BY <2>2, PlanSteps, PlanChange, Zenon
  <2>3. CASE \E k \in DOMAIN dinners, s \in {2, 4} : ChangeServings(k, s)
    BY <2>3, PlanSteps, PlanChange, Zenon
  <2>4. CASE GenerateList
    BY <2>4, ListSteps, Zenon
  <2>5. CASE \E k \in DOMAIN listed : ToggleItem(k)
    BY <2>5, ListSteps, Zenon
  <2>6. CASE UNCHANGED shoppingVars
    BY <2>6 DEF shoppingVars, ShoppingInv, Shows
  <2>7. QED
    BY <2>1, <2>2, <2>3, <2>4, <2>5, <2>6, Zenon DEF WebShoppingNext
<1>2. QED
  BY <1>1, ShoppingStart, PTL DEF WebShoppingSpec

(* shopping.ts, refreshPlan: a refresh gives no item a mark that its           *)
(* ingredient and preparation did not have on the list before.                 *)
THEOREM MarksComeFromTheListHolds == WebShoppingSpec => MarksComeFromTheList
<1>1. ASSUME ShoppingInv, [WebShoppingNext]_shoppingVars, dinners' # dinners
      PROVE  \A k \in DOMAIN listed' :
                LET before == {listed[i].checked : i \in {j \in DOMAIN listed : ItemKey(listed[j]) = ItemKey(listed'[k])}}
                IN  listed'[k].checked \in (IF before = {} THEN {FALSE} ELSE before)
  <2>1. \E menu \in Seq(Dinner) : ChangePlan(menu)
    <3>1. ~ (GenerateList \/ (\E k \in DOMAIN listed : ToggleItem(k)) \/ UNCHANGED shoppingVars)
      BY <1>1 DEF GenerateList, ToggleItem, shoppingVars
    <3>2. QED
      BY <1>1, <3>1, PlanSteps, Zenon DEF WebShoppingNext
  <2>2. PICK menu \in Seq(Dinner) : ChangePlan(menu)
    BY <2>1
  <2>3. CASE made
    <3>1. \A k \in DOMAIN listed' :
             listed'[k].checked \in (IF Marks(listed, listed'[k]) = {} THEN {FALSE} ELSE Marks(listed, listed'[k]))
      BY <1>1, <2>2, <2>3, PlanChange, Zenon
    <3>2. QED
      BY <3>1, Zenon DEF Marks, Same
  <2>4. CASE ~ made
    <3>1. listed' = <<>>
      BY <1>1, <2>2, <2>4 DEF ChangePlan, ShoppingInv
    <3>2. QED
      BY <3>1
  <2>5. QED
    BY <2>3, <2>4, Zenon
<1>2. QED
  BY <1>1, ShoppingInvHolds, PTL DEF WebShoppingSpec, MarksComeFromTheList

-------------------------------------------------------------------------------

\* The units that a list is shown in, by the dimension they measure.
LEMMA UnitsByDimension ==
    /\ \A u \in Units : u.toBase \in Nat
    /\ \A id \in {"g", "kg", "oz", "lb"} : UnitOf(id).dimension = "mass"
    /\ \A id \in {"ml", "l", "tsp", "tbsp", "cup"} : UnitOf(id).dimension = "volume"
<1>1. \A u \in Units : u.toBase \in Nat
  BY DEF Units, UNITS, NoUnit, Unit
<1>2. \A u \in Units : u.id \in {"g", "kg", "oz", "lb"} => u.dimension = "mass"
  BY DEF Units, UNITS, NoUnit, Unit
<1>3. \A u \in Units : u.id \in {"ml", "l", "tsp", "tbsp", "cup"} => u.dimension = "volume"
  BY DEF Units, UNITS, NoUnit, Unit
<1>4. \A id \in {"g", "kg", "oz", "lb", "ml", "l", "tsp", "tbsp", "cup"} : \E u \in Units : u.id = id
  BY DEF Units, UNITS, NoUnit, Unit
<1>5. \A id : UnitOf(id) = CHOOSE u \in Units : u.id = id
  BY DEF UnitOf, Units
<1>6. \A id \in {"g", "kg", "oz", "lb", "ml", "l", "tsp", "tbsp", "cup"} : UnitOf(id) \in Units /\ UnitOf(id).id = id
  BY <1>4, <1>5, Zenon
<1>7. QED
  BY <1>1, <1>2, <1>3, <1>6

\* The preferred unit is one of the dimension of the amount.
LEMMA PreferredKeepsDimension ==
    ASSUME NEW base, NEW dimension, NEW system, PreferredUnit(base, dimension, system) # NoUnit
    PROVE  PreferredUnit(base, dimension, system).dimension = dimension
<1> DEFINE unit == PreferredUnit(base, dimension, system)
<1>1. CASE dimension = "mass" /\ system = "metric"
  <2>1. unit = UnitOf(IF base >= 1000 THEN "kg" ELSE "g")
    BY <1>1 DEF PreferredUnit
  <2>2. QED
    BY <1>1, <2>1, UnitsByDimension
<1>2. CASE dimension = "mass" /\ system = "us"
  <2>1. unit = UnitOf(IF base >= 16 * 28 THEN "lb" ELSE "oz")
    BY <1>2 DEF PreferredUnit
  <2>2. QED
    BY <1>2, <2>1, UnitsByDimension
<1>3. CASE dimension = "volume" /\ system = "metric"
  <2>1. unit = UnitOf(IF base >= 1000 THEN "l" ELSE "ml")
    BY <1>3 DEF PreferredUnit
  <2>2. QED
    BY <1>3, <2>1, UnitsByDimension
<1>4. CASE dimension = "volume" /\ system = "us"
  <2>1. unit = UnitOf(IF base >= 237 THEN "cup" ELSE IF base >= 15 THEN "tbsp" ELSE "tsp")
    BY <1>4 DEF PreferredUnit
  <2>2. QED
    BY <1>4, <2>1, UnitsByDimension
<1>5. CASE ~ (dimension \in {"mass", "volume"} /\ system \in {"metric", "us"})
  BY <1>5 DEF PreferredUnit
<1>6. QED
  BY <1>1, <1>2, <1>3, <1>4, <1>5

\* What is shown of an item is its amount, in a unit of its dimension.
LEMMA ShownAmount ==
    ASSUME NEW item, NEW system, item.unit \in Units, item.amount.min \in Nat
    PROVE  LET shown == DisplayQuantity(item, system)
           IN  /\ shown.unit.dimension = item.unit.dimension
               /\ shown.min * shown.unit.toBase = item.amount.min * item.unit.toBase * shown.over
<1> DEFINE u      == item.unit
           min    == item.amount.min
           target == PreferredUnit(min * u.toBase, u.dimension, system)
           shown  == DisplayQuantity(item, system)
<1>1. shown = IF system = "original" \/ u.toBase = 0 \/ target = NoUnit
              THEN [min |-> min, over |-> 1, unit |-> u]
              ELSE [min |-> min * u.toBase, over |-> target.toBase, unit |-> target]
  BY DEF DisplayQuantity
<1>2. target # NoUnit => target.dimension = u.dimension
  BY PreferredKeepsDimension
<1>3. u.toBase \in Nat
  BY UnitsByDimension
<1> HIDE DEF u, min, target, shown
<1>4. CASE system = "original" \/ u.toBase = 0 \/ target = NoUnit
  <2>1. shown.min = min /\ shown.over = 1 /\ shown.unit = u
    BY <1>1, <1>4
  <2>2. min * u.toBase = min * u.toBase * 1
    BY <1>3 DEF min
  <2>3. QED
    BY <2>1, <2>2 DEF shown, u, min
<1>5. CASE ~ (system = "original" \/ u.toBase = 0 \/ target = NoUnit)
  <2>1. shown.min = min * u.toBase /\ shown.over = target.toBase /\ shown.unit = target
    BY <1>1, <1>5
  <2>2. QED
    BY <1>2, <1>5, <2>1 DEF shown, u, min
<1>6. QED
  BY <1>4, <1>5

\* The lines that read like one are counted from 1 to the last, itself among them.
LEMMA LinesAlike ==
    ASSUME NEW r \in DOMAIN Book, NEW k \in DOMAIN Book[r].lines
    PROVE  /\ Times(r, LineAt(r, k)) = Alike(r, LineAt(r, k).text, Len(Book[r].lines))
           /\ Times(r, LineAt(r, k)) \in Nat \ {0}
<1> DEFINE text == LineAt(r, k).text
           K    == {l \in DOMAIN Book[r].lines : Book[r].lines[l].text = text}
           n    == Len(Book[r].lines)
<1>1. Book[r].lines \in Seq(RawLine)
  BY ShoppingAssumption
<1>2. DOMAIN Book[r].lines = 1 .. n /\ n \in Nat
  BY <1>1
<1>3. Times(r, LineAt(r, k)) = Cardinality(K) /\ Alike(r, text, n) = Cardinality(K)
  BY <1>2 DEF Times, Alike
<1>4. k \in K
  BY ParsedLine
<1>5. IsFiniteSet(1 .. n) /\ K \subseteq 1 .. n
  BY <1>2, FS_Interval
<1>6. IsFiniteSet(K)
  BY <1>5, FS_Subset
<1> HIDE DEF K
<1>7. Cardinality(K) \in Nat /\ Cardinality(K) # 0
  BY <1>4, <1>6, FS_CardinalityType, FS_EmptySet
<1>8. QED
  BY <1>3, <1>7

\* What a list shows of one line of a recipe.
Asks(list, r, k, asked) ==
    LET line == LineAt(r, k)
        mine == {i \in DOMAIN list : <<r, line.text>> \in ToSet(list[i].sources)}
    IN  IF asked = 0 THEN mine = {}
        ELSE \E i \in mine : mine = {i} /\ list[i].amount = ScaleRange(line.amount, asked) /\ list[i].unit = line.unit

\* A list shows of each line what the meals ask for together, in one item.
LEMMA ListAsks ==
    ASSUME NEW menu \in Seq(Dinner), NEW list, Shows(list, menu),
           NEW r \in DOMAIN Book, NEW k \in DOMAIN Book[r].lines
    PROVE  Asks(list, r, k, DemandOf(r, menu) * Times(r, LineAt(r, k)))
<1> DEFINE items == ItemsOf(menu)
           count == CountOf(menu)
           ask   == AskOf(r, k)
           asked == DemandOf(r, menu) * Times(r, LineAt(r, k))
           mine  == {i \in DOMAIN list : ask \in ToSet(list[i].sources)}
<1>1. AddsUp(items, count)
  BY ItemsAddUp
<1>2. ask = <<r, LineAt(r, k).text>> /\ ask \in Asked
  BY ParsedLine DEF AskOf
<1>3. count[ask] = asked
  <2>1. count[ask] = DemandOf(ask[1], menu) * Alike(ask[1], ask[2], Len(Book[ask[1]].lines))
    BY <1>2 DEF CountOf
  <2>2. ask[1] = r /\ ask[2] = LineAt(r, k).text
    BY <1>2
  <2>3. QED
    BY <2>1, <2>2, LinesAlike
<1>4. asked \in Nat
  <2>1. DemandOf(r, menu) \in Nat /\ Times(r, LineAt(r, k)) \in Nat
    BY ItemsAddUp, LinesAlike
  <2>2. QED
    BY <2>1
<1>5. /\ DOMAIN list = DOMAIN items
      /\ \A i \in DOMAIN list : /\ list[i].sources = items[i].sources /\ list[i].unit = items[i].unit
                                /\ list[i].amount = items[i].amount
  BY DEF Shows
<1> HIDE DEF items, count, asked
<1>6. ASSUME NEW i \in DOMAIN items
      PROVE  /\ ask \in ToSet(items[i].sources) <=> items[i].key = KeyOf(ask)
             /\ items[i].key = KeyOf(ask) => /\ asked > 0 /\ items[i].amount = ScaleRange(LineAt(r, k).amount, asked)
                                             /\ items[i].unit = LineAt(r, k).unit
  <2>1. PICK q \in DOMAIN Book : \E l \in DOMAIN Book[q].lines :
                 count[AskOf(q, l)] > 0 /\ StandsFor(items[i], q, l, count[AskOf(q, l)])
    BY <1>1 DEF AddsUp
  <2>2. PICK l \in DOMAIN Book[q].lines : count[AskOf(q, l)] > 0 /\ StandsFor(items[i], q, l, count[AskOf(q, l)])
    BY <2>1
  <2>3. /\ items[i].key = KeyOf(AskOf(q, l)) /\ ToSet(items[i].sources) = {AskOf(q, l)}
        /\ items[i].amount = ScaleRange(LineAt(q, l).amount, count[AskOf(q, l)])
        /\ items[i].unit = LineAt(q, l).unit
    BY <2>2 DEF StandsFor
  <2>4. /\ AskOf(q, l) = ask => LineAt(q, l) = LineAt(r, k)
        /\ KeyOf(AskOf(q, l)) = KeyOf(ask) <=> AskOf(q, l) = ask
    BY SameAsk
  <2> HIDE DEF ask
  <2>5. ask \in ToSet(items[i].sources) <=> items[i].key = KeyOf(ask)
    BY <2>3, <2>4
  <2>6. items[i].key = KeyOf(ask) => /\ asked > 0 /\ items[i].amount = ScaleRange(LineAt(r, k).amount, asked)
                                     /\ items[i].unit = LineAt(r, k).unit
    BY <1>3, <2>2, <2>3, <2>4
  <2>7. QED
    BY <2>5, <2>6 DEF ask
<1>7. mine = {i \in DOMAIN items : items[i].key = KeyOf(ask)}
  BY <1>5, <1>6
<1>8. CASE asked = 0
  <2>1. mine = {}
    BY <1>6, <1>7, <1>8
  <2>2. QED
    BY <1>2, <1>8, <2>1 DEF Asks, asked
<1>9. CASE asked # 0
  <2>1. PICK i \in DOMAIN items : items[i].key = KeyOf(ask)
    <3>1. count[AskOf(r, k)] > 0
      BY <1>3, <1>4, <1>9
    <3>2. QED
      BY <1>1, <3>1 DEF AddsUp
  <2>2. \A j \in DOMAIN items : items[j].key = KeyOf(ask) => j = i
    BY <1>1, <2>1 DEF AddsUp
  <2>3. mine = {i}
    BY <1>7, <2>1, <2>2
  <2>4. list[i].amount = ScaleRange(LineAt(r, k).amount, asked) /\ list[i].unit = LineAt(r, k).unit
    BY <1>5, <1>6, <2>1
  <2> HIDE DEF mine
  <2>5. \E j \in mine : /\ mine = {j} /\ list[j].amount = ScaleRange(LineAt(r, k).amount, asked)
                        /\ list[j].unit = LineAt(r, k).unit
    BY <2>3, <2>4
  <2>6. QED
    BY <1>2, <1>9, <2>5, Zenon DEF Asks, asked, mine
<1>10. QED
  BY <1>8, <1>9

(* shopping.ts, aggregate.ts, display.ts: for any recipes and plan, a list has  *)
(* each line of the planned meals in one item, with the amount that all the    *)
(* meals ask for together, in whatever measurement system it is shown.         *)
THEOREM ListAddsUpHolds == WebShoppingSpec => []ListAddsUp
<1>1. ShoppingInv => ListAddsUp
  <2> SUFFICES ASSUME ShoppingInv, made, NEW r \in DOMAIN Book, NEW k \in DOMAIN Book[r].lines
               PROVE  LET line  == ParseIngredientLine(Book[r].lines[k])
                          asked == Demand(r) * Times(r, line)
                          mine  == {i \in DOMAIN listed : <<r, line.text>> \in ToSet(listed[i].sources)}
                      IN  IF Demand(r) = 0 THEN mine = {}
                          ELSE \E i \in mine :
                                  /\ mine = {i}
                                  /\ listed[i].amount = ScaleRange(line.amount, asked)
                                  /\ \A system \in {"original", "us", "metric"} :
                                       LET shown == DisplayQuantity(listed[i], system)
                                       IN  /\ shown.unit.dimension = line.unit.dimension
                                           /\ shown.unit.toBase > 0 =>
                                                shown.min * shown.unit.toBase
                                                  = line.amount.min * asked * line.unit.toBase * shown.over
    BY DEF ListAddsUp
  <2>1. PICK menu \in Seq(Dinner) : menu = dinners
    BY DEF ShoppingInv
  <2>2. PICK list : list = listed
    OBVIOUS
  <2> DEFINE line  == LineAt(r, k)
             asked == DemandOf(r, menu) * Times(r, line)
             mine  == {i \in DOMAIN list : <<r, line.text>> \in ToSet(list[i].sources)}
  <2>3. Shows(list, menu)
    BY <2>1, <2>2 DEF ShoppingInv
  <2>4. Asks(list, r, k, asked)
    BY <2>3, ListAsks
  <2>5. Demand(r) = DemandOf(r, menu)
    BY <2>1 DEF Demand, DemandOf
  <2>6. DemandOf(r, menu) \in Nat /\ Times(r, line) \in Nat \ {0}
    BY ItemsAddUp, LinesAlike
  <2>7. asked \in Nat /\ (asked = 0 <=> DemandOf(r, menu) = 0)
    BY <2>6
  <2>8. line.amount \in Amount /\ line.unit \in Units
    BY ParsedLine
  <2> HIDE DEF line, asked, mine
  <2>9. IF asked = 0 THEN mine = {}
        ELSE \E i \in mine : mine = {i} /\ list[i].amount = ScaleRange(line.amount, asked) /\ list[i].unit = line.unit
    BY <2>4, Zenon DEF Asks, line, mine
  <2>10. ASSUME NEW i \in mine, list[i].amount = ScaleRange(line.amount, asked), list[i].unit = line.unit,
                NEW system \in {"original", "us", "metric"}
         PROVE  LET shown == DisplayQuantity(list[i], system)
                IN  /\ shown.unit.dimension = line.unit.dimension
                    /\ shown.min * shown.unit.toBase = line.amount.min * asked * line.unit.toBase * shown.over
    <3>1. ScaleRange(line.amount, asked).min = line.amount.min * asked /\ line.amount.min \in Nat
      BY <2>7, <2>8 DEF ScaleRange, Amount
    <3>2. line.amount.min * asked \in Nat
      BY <2>7, <3>1
    <3>3. list[i].amount.min = line.amount.min * asked /\ list[i].amount.min \in Nat
      BY <2>10, <3>1, <3>2
    <3>4. list[i].unit \in Units
      BY <2>8, <2>10
    <3>5. /\ DisplayQuantity(list[i], system).unit.dimension = list[i].unit.dimension
          /\ DisplayQuantity(list[i], system).min * DisplayQuantity(list[i], system).unit.toBase
               = list[i].amount.min * list[i].unit.toBase * DisplayQuantity(list[i], system).over
      BY <3>3, <3>4, ShownAmount
    <3>6. QED
      BY <2>10, <3>3, <3>5
  <2>11. IF Demand(r) = 0 THEN mine = {}
         ELSE \E i \in mine :
                 /\ mine = {i}
                 /\ list[i].amount = ScaleRange(line.amount, asked)
                 /\ \A system \in {"original", "us", "metric"} :
                      LET shown == DisplayQuantity(list[i], system)
                      IN  /\ shown.unit.dimension = line.unit.dimension
                          /\ shown.unit.toBase > 0 =>
                               shown.min * shown.unit.toBase = line.amount.min * asked * line.unit.toBase * shown.over
    <3>1. CASE asked = 0
      BY <2>5, <2>7, <2>9, <3>1
    <3>2. CASE asked # 0
      <4>1. PICK i \in mine : mine = {i} /\ list[i].amount = ScaleRange(line.amount, asked) /\ list[i].unit = line.unit
        BY <2>9, <3>2
      <4>2. \A system \in {"original", "us", "metric"} :
               LET shown == DisplayQuantity(list[i], system)
               IN  /\ shown.unit.dimension = line.unit.dimension
                   /\ shown.min * shown.unit.toBase = line.amount.min * asked * line.unit.toBase * shown.over
        BY <2>10, <4>1
      <4>3. Demand(r) # 0
        BY <2>5, <2>7, <3>2
      <4>4. QED
        BY <4>1, <4>2, <4>3, Zenon
    <3>3. QED
      BY <3>1, <3>2
  <2>12. QED
    BY <2>2, <2>5, <2>11, Zenon DEF line, asked, mine, LineAt
<1>2. QED
  BY <1>1, ShoppingInvHolds, PTL

===============================================================================
