---------------------------- MODULE EmailDelivery ----------------------------
(***************************************************************************)
(* Shopping-list e-mail of the Kotlin backend: EmailDeliveryService.create *)
(* and send, and ShoppingEmailJobHandler running on the job queue.  Each   *)
(* delivery has one job, published under the key "shopping-email:<id>", so *)
(* a delivery is named by its job.                                         *)
(*                                                                         *)
(* A delivery carries a status of its own, and is claimed a second time    *)
(* after the job was: queued and failed deliveries may be claimed, and one *)
(* that has been "sending" for StaleTime.  The provider is external: it    *)
(* counts the messages it accepted, and its answer may be lost.            *)
(***************************************************************************)
EXTENDS JobHandling

CONSTANT StaleTime     \* STALE_EMAIL_SENDING_AFTER, 2 minutes, in ticks

ASSUME StaleAssumption == StaleTime \in Nat \ {0}

VARIABLES
    delivery,   \* delivery[j]: the status of the document
    age,        \* now - updatedAt of the delivery, no more than StaleTime
    inbox       \* inbox[j]: messages the provider accepted for j

mail     == <<delivery, age, inbox>>
mailVars == <<jobVars, mail>>

MailInit ==
    /\ HandlingInit
    /\ delivery = [j \in Job |-> "absent"]
    /\ age = [j \in Job |-> 0]
    /\ inbox = [j \in Job |-> 0]

SetDelivery(j, s) ==
    /\ delivery' = [delivery EXCEPT ![j] = s]
    /\ age' = [age EXCEPT ![j] = 0]

-------------------------------------------------------------------------------
(* create and send; what a handler does is named by the thread it runs on. *)

\* create stores the delivery before it publishes the job.
CreateDelivery(j) ==
    /\ StoreDocument(j)
    /\ SetDelivery(j, "queued")
    /\ UNCHANGED inbox

\* Mutant: a failed delivery is not taken up again.
ClaimableQueued(j) ==
    \/ delivery[j] = "queued"
    \/ delivery[j] = "sending" /\ age[j] >= StaleTime

\* emailDeliveryClaimFilter
DeliveryClaimable(j) ==
    \/ delivery[j] \in {"queued", "failed"}
    \/ delivery[j] = "sending" /\ age[j] >= StaleTime

\* The claim at the head of send.  A delivery that cannot be claimed makes
\* send return, and the handler succeed.
ClaimDelivery(w, t) ==
    LET j == task[w][t].job
    IN  \/ /\ Within(w, t, "start", "sending")
           /\ DeliveryClaimable(j)
           /\ SetDelivery(j, "sending")
           /\ UNCHANGED inbox
        \/ /\ Within(w, t, "start", "ok")
           /\ ~ DeliveryClaimable(j)
           /\ UNCHANGED mail

\* Decrypting, rendering or the provider fails before anything is accepted;
\* only a refusal by the provider itself can be final.
SendFails(w, t) ==
    /\ \E label \in {"refused", "failing"} : Within(w, t, "sending", label)
    /\ UNCHANGED mail

Accept(w, t) ==
    /\ inbox' = [inbox EXCEPT ![task[w][t].job] = @ + 1]
    /\ UNCHANGED <<delivery, age>>

\* Mutant: the answer is read after the call, in a way that may throw.
SendMisread(w, t) ==
    (\E label \in {"accepted", "failing"} : Within(w, t, "sending", label)) /\ Accept(w, t)

SendAccepted(w, t) == Within(w, t, "sending", "accepted") /\ Accept(w, t)

\* The message is accepted but the answer is lost or times out.
SendUnanswered(w, t) == FaultWithin(w, t, "sending", "failing") /\ Accept(w, t)

\* Mutant: the update goes by the delivery's id alone.
MarkAny(w, t, s) == SetDelivery(task[w][t].job, s) /\ UNCHANGED inbox

\* The updates after the call are guarded by the status "sending", whichever
\* run set it.
MarkFrom(w, t, s) ==
    LET j == task[w][t].job
    IN  /\ IF delivery[j] = "sending" THEN SetDelivery(j, s)
                                      ELSE UNCHANGED <<delivery, age>>
        /\ UNCHANGED inbox

MarkSent(w, t) == Within(w, t, "accepted", "ok") /\ MarkFrom(w, t, "sent")

\* The catch block, then the handler's choice of exception.
MarkFailed(w, t) ==
    /\ \/ Within(w, t, "refused", "fatal")
       \/ Within(w, t, "failing", "retryable")
    /\ MarkFrom(w, t, "failed")

\* A failed database call: after the provider's answer it leads to the catch
\* block, in the claim or the catch block it leaves send, retryable.
StoreFails(w, t) ==
    /\ \/ FaultWithin(w, t, "accepted", "failing")
       \/ \E label \in {"start", "refused", "failing"} :
             FaultWithin(w, t, label, "retryable")
       \/ CompleteFails(w, t)
    /\ UNCHANGED mail

TickMail ==
    /\ TickHandling
    /\ age' = [j \in Job |-> IF age[j] < StaleTime THEN age[j] + 1 ELSE age[j]]
    /\ UNCHANGED <<delivery, inbox>>

HandlerStep(w, t) ==
    \/ ClaimDelivery(w, t) \/ SendFails(w, t) \/ SendAccepted(w, t)
    \/ MarkSent(w, t) \/ MarkFailed(w, t)
    \/ Return(w, t) /\ UNCHANGED mail

MailNext ==
    \/ \E j \in Job : \/ CreateDelivery(j)
                      \/ (PublishJob(j) \/ RequestDies(j)) /\ UNCHANGED mail
    \/ \E w \in Worker :
          \/ (Begin(w) \/ Take(w) \/ Die(w)) /\ UNCHANGED mail
          \/ \E t \in Thread : \/ HandlerStep(w, t) \/ SendUnanswered(w, t)
                               \/ StoreFails(w, t)
    \/ QueueStep /\ UNCHANGED mail
    \/ TickMail

MailSpec == MailInit /\ [][MailNext]_mailVars

\* As in JobQueue: time passes, a process is started, one that is up polls,
\* and a handler goes on.
MailFairness ==
    /\ WF_mailVars(TickMail)
    /\ \A w \in Worker :
          /\ WF_mailVars(Begin(w) /\ UNCHANGED mail)
          /\ WF_mailVars(Take(w) /\ UNCHANGED mail)
          /\ \A t \in Thread : WF_mailVars(HandlerStep(w, t))

FairMailSpec == MailSpec /\ MailFairness

-------------------------------------------------------------------------------
(* Properties.                                                             *)

\* No process was lost, no handler outlived its lease, and no answer or
\* database call was lost.
Undisturbed == faults = 0 /\ \A w \in Worker : mode[w] # "gone"

\* Retries alone do not duplicate mail: undisturbed, a delivery is mailed at
\* most once, however often it fails, is retried and is replayed (the
\* delivery claim of send).
RetriesDoNotDuplicate == Undisturbed => \A j \in Job : inbox[j] <= 1

\* What is recorded as sent was accepted by the provider, and stays recorded:
\* no late failure of an overlapping run undoes it (the guards of send).
SentIsTrue ==
    /\ [](\A j \in Job : delivery[j] = "sent" => inbox[j] > 0)
    /\ [][\A j \in Job : delivery[j] = "sent" => delivery'[j] = "sent"]_mailVars

\* As long as it is undisturbed, a published delivery is sent, or ends failed
\* with its job among the dead letters, never half way.
DeliverySettles ==
    \A j \in Job :
        request[j] = "published" ~>
            \/ delivery[j] = "sent"
            \/ delivery[j] = "failed" /\ status[j] = "dead"
            \/ ~ Undisturbed

\* Claimed by the operations guide: a delivery left in "sending" is taken up
\* again.  The code gives up on one whose job lease runs out before the
\* delivery is stale.
SendingIsReclaimed ==
    \A j \in Job : delivery[j] = "sending" ~> delivery[j] # "sending"

\* Claimed by the phase plan: an accepted message is not sent again.
NoDuplicateMail == \A j \in Job : inbox[j] <= 1
===============================================================================
