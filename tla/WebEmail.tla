------------------------------- MODULE WebEmail -------------------------------
(* E-mail in the TypeScript application: a member asks for a shopping list to  *)
(* be mailed, or invites someone; the request stores a delivery and a link,    *)
(* and puts a message on the queue; a consumer claims the delivery, calls the  *)
(* provider and records the outcome.  The queue delivers at least once and     *)
(* tries a message three times; the request, the consumer and the provider may *)
(* each fail after what they did has taken effect.                             *)
EXTENDS Naturals, FiniteSets

CONSTANTS
    MailId,      \* deliveries, of a shopping list or of an invitation
    Copy,        \* deliveries of one queue message, more than one if duplicated
    MailLimit,   \* 5 mails in an hour, 20 a day: one limit stands for both
    TryLimit     \* 3 tries of a message

ASSUME WebEmailAssumption ==
    /\ IsFiniteSet(MailId) /\ IsFiniteSet(Copy) /\ Copy # {}
    /\ MailLimit \in Nat /\ TryLimit \in Nat \ {0}

VARIABLES
    kind,      \* what each delivery mails: "list" or "invitation"
    delivery,  \* status of each delivery
    link,      \* the share, or the invitation, that each mail carries
    asker,     \* the request behind each delivery
    queue,     \* the copies of each message: where, and how often tried
    mailed,    \* how often the provider has accepted each mail
    failures   \* how often a failure was recorded for each delivery

mailVars == <<kind, delivery, link, asker, queue, mailed, failures>>

InviteMail == {m \in MailId : kind[m] = "invitation"}
ListMail == MailId \ InviteMail
Stored == {m \in MailId : delivery[m] # "none"}

MailInit ==
    /\ kind = [m \in MailId |-> "list"]
    /\ delivery = [m \in MailId |-> "none"]
    /\ link = [m \in MailId |-> "none"]
    /\ asker = [m \in MailId |-> "idle"]
    /\ queue = [m \in MailId |-> [c \in Copy |-> [at |-> "none", tries |-> 0]]]
    /\ mailed = [m \in MailId |-> 0]
    /\ failures = [m \in MailId |-> 0]

AskerAt(m, pc) == asker[m] = pc
AskerGoto(m, pc) == asker' = [asker EXCEPT ![m] = pc]

\* update of the delivery: only from the statuses the new one may follow.
Allowed == [queued |-> {"pending"}, sent |-> {"sending"}, failed |-> {"pending", "sending"}]
Update(m, status) ==
    IF delivery[m] \in Allowed[status]
    THEN /\ delivery' = [delivery EXCEPT ![m] = status]
         /\ failures' = [failures EXCEPT ![m] = IF status = "failed" THEN @ + 1 ELSE @]
    ELSE UNCHANGED <<delivery, failures>>

-------------------------------------------------------------------------------
(* The request: queueShoppingListEmail, createHouseholdInvitation.             *)

\* An e-mail of a list starts with a share for it.
Ask(m, k) ==
    /\ AskerAt(m, "idle")
    /\ kind' = [kind EXCEPT ![m] = k]
    /\ link' = IF k = "list" THEN [link EXCEPT ![m] = "live"] ELSE link
    /\ AskerGoto(m, "count")
    /\ UNCHANGED <<delivery, queue, mailed, failures>>

\* The doors: the API, the tool, the shopping page, the settings page.
ShoppingEmailPost(m) == Ask(m, "list")
EmailShoppingList(m) == Ask(m, "list")
EmailFromPage(m)     == Ask(m, "list")
InviteFromPage(m)    == Ask(m, "invitation")

\* The mails so far are counted, and a delivery is stored in another command.
\* The share of a delivery that is not stored is revoked.
CountMails(m) ==
    /\ AskerAt(m, "count")
    /\ AskerGoto(m, IF Cardinality(Stored) >= MailLimit THEN "refused" ELSE "store")
    /\ UNCHANGED <<kind, delivery, link, queue, mailed, failures>>

StoreFails(m) ==
    /\ AskerAt(m, "store")
    /\ AskerGoto(m, "refused")
    /\ UNCHANGED <<kind, delivery, link, queue, mailed, failures>>

RevokeRefused(m) ==
    /\ AskerAt(m, "refused")
    /\ link' = [link EXCEPT ![m] = IF @ = "live" THEN "revoked" ELSE @]
    /\ AskerGoto(m, "over")
    /\ UNCHANGED <<kind, delivery, queue, mailed, failures>>

\* An invitation replaces the pending ones to the same address.
StoreDelivery(m) ==
    /\ AskerAt(m, "store")
    /\ delivery' = [delivery EXCEPT ![m] = "pending"]
    /\ link' = [n \in MailId |-> IF n = m THEN "live"
                                 ELSE IF {m, n} \subseteq InviteMail /\ link[n] = "live" THEN "revoked"
                                 ELSE link[n]]
    /\ AskerGoto(m, "send")
    /\ UNCHANGED <<kind, queue, mailed, failures>>

\* EMAIL_DELIVERY_QUEUE.send: it may throw although the message is queued.
Enqueue(m, c, told) ==
    /\ AskerAt(m, "send")
    /\ queue' = [queue EXCEPT ![m][c].at = "queued"]
    /\ AskerGoto(m, IF told THEN "note" ELSE "failed")
    /\ UNCHANGED <<kind, delivery, link, mailed, failures>>

EnqueueFails(m) ==
    /\ AskerAt(m, "send")
    /\ AskerGoto(m, "failed")
    /\ UNCHANGED <<kind, delivery, link, queue, mailed, failures>>

\* Without a queue (capture mode) the request processes the message itself.
ProcessInline(m, c) ==
    /\ AskerAt(m, "send")
    /\ queue' = [queue EXCEPT ![m][c] = [at |-> "delivered", tries |-> TryLimit]]
    /\ AskerGoto(m, "over")
    /\ UNCHANGED <<kind, delivery, link, mailed, failures>>

\* The update may be applied, and it may throw, whether it was applied or not.
NoteQueued(m) ==
    /\ AskerAt(m, "note")
    /\ \/ Update(m, "queued") /\ \E pc \in {"over", "failed"} : AskerGoto(m, pc)
       \/ AskerGoto(m, "failed") /\ UNCHANGED <<delivery, failures>>
    /\ UNCHANGED <<kind, link, queue, mailed>>

\* The catch block: the delivery has failed, and its share is revoked; an
\* invitation stays pending.
NoteFailed(m) ==
    /\ AskerAt(m, "failed")
    /\ Update(m, "failed")
    /\ AskerGoto(m, IF m \in ListMail THEN "refused" ELSE "over")
    /\ UNCHANGED <<kind, link, queue, mailed>>

\* The Worker ends with the request.
AskerLost(m) ==
    /\ asker[m] \notin {"idle", "over"}
    /\ AskerGoto(m, "over")
    /\ UNCHANGED <<kind, delivery, link, queue, mailed, failures>>

-------------------------------------------------------------------------------
(* The queue and its consumer: workers/app.ts, processShoppingEmail and        *)
(* processHouseholdInvitationEmail.                                            *)

CopyAt(m, c, at) == queue[m][c].at = at
CopyGoto(m, c, at) == queue' = [queue EXCEPT ![m][c].at = at]
\* message.retry while it has tries left, message.ack after that.
RetryOrAck(m, c) == CopyGoto(m, c, IF queue[m][c].tries < TryLimit THEN "queued" ELSE "acked")

\* The queue delivers a message a second time.
Duplicate(m, c) ==
    /\ CopyAt(m, c, "none") /\ \E d \in Copy : queue[m][d].at \notin {"none", "acked"}
    /\ asker[m] # "send"
    /\ CopyGoto(m, c, "queued")
    /\ UNCHANGED <<kind, delivery, link, asker, mailed, failures>>

Deliver(m, c) ==
    /\ CopyAt(m, c, "queued")
    /\ queue' = [queue EXCEPT ![m][c] = [at |-> "delivered", tries |-> @.tries + 1]]
    /\ UNCHANGED <<kind, delivery, link, asker, mailed, failures>>

\* Mutant: a delivery that is being sent is claimed as well.
ClaimableAgain(m) == /\ delivery[m] \in {"pending", "queued", "failed", "sending"}
                     /\ m \in InviteMail => link[m] = "live"
\* claim: whoever finds nothing to claim has nothing to do, and acks.
Claimable(m) == /\ delivery[m] \in {"pending", "queued", "failed"}
                /\ m \in InviteMail => link[m] = "live"
Claim(m, c) ==
    /\ CopyAt(m, c, "delivered")
    /\ IF Claimable(m)
       THEN delivery' = [delivery EXCEPT ![m] = "sending"] /\ CopyGoto(m, c, "claimed")
       ELSE UNCHANGED delivery /\ CopyGoto(m, c, "acked")
    /\ UNCHANGED <<kind, link, asker, mailed, failures>>

\* The provider accepts the mail; its answer, or anything before it, may fail.
SendMail(m, c, told) ==
    /\ CopyAt(m, c, "claimed")
    /\ mailed' = [mailed EXCEPT ![m] = @ + 1]
    /\ CopyGoto(m, c, IF told THEN "accepted" ELSE "failing")
    /\ UNCHANGED <<kind, delivery, link, asker, failures>>

SendFails(m, c) ==
    /\ CopyAt(m, c, "claimed")
    /\ CopyGoto(m, c, "failing")
    /\ UNCHANGED <<kind, delivery, link, asker, mailed, failures>>

\* As in NoteQueued.
RecordSent(m, c) ==
    /\ CopyAt(m, c, "accepted")
    /\ \/ Update(m, "sent") /\ \E at \in {"acked", "failing"} : CopyGoto(m, c, at)
       \/ CopyGoto(m, c, "failing") /\ UNCHANGED <<delivery, failures>>
    /\ UNCHANGED <<kind, link, asker, mailed>>

RecordFailed(m, c) ==
    /\ CopyAt(m, c, "failing")
    /\ Update(m, "failed")
    /\ RetryOrAck(m, c)
    /\ UNCHANGED <<kind, link, asker, mailed>>

\* A command fails outside the try block, or the Worker ends: nothing is
\* recorded, and the queue tries again.
ConsumerLost(m, c) ==
    /\ queue[m][c].at \in {"delivered", "claimed", "accepted", "failing"}
    /\ RetryOrAck(m, c)
    /\ UNCHANGED <<kind, delivery, link, asker, mailed, failures>>

-------------------------------------------------------------------------------
(* The link is revoked, or expires, or the invitation is accepted.             *)

EndLink(m) ==
    /\ link[m] = "live"
    /\ link' = [link EXCEPT ![m] = "revoked"]
    /\ UNCHANGED <<kind, delivery, asker, queue, mailed, failures>>

MailNext ==
    \E m \in MailId :
        \/ ShoppingEmailPost(m) \/ EmailShoppingList(m) \/ EmailFromPage(m) \/ InviteFromPage(m)
        \/ CountMails(m) \/ StoreFails(m) \/ RevokeRefused(m) \/ StoreDelivery(m)
        \/ EnqueueFails(m) \/ NoteQueued(m) \/ NoteFailed(m) \/ AskerLost(m)
        \/ EndLink(m)
        \/ \E c \in Copy :
              \/ ProcessInline(m, c) \/ Duplicate(m, c) \/ Deliver(m, c) \/ Claim(m, c)
              \/ SendFails(m, c) \/ RecordSent(m, c) \/ RecordFailed(m, c) \/ ConsumerLost(m, c)
              \/ \E told \in BOOLEAN : Enqueue(m, c, told) \/ SendMail(m, c, told)

MailSpec == MailInit /\ [][MailNext]_mailVars

-------------------------------------------------------------------------------
(* A mail goes out again only after a failure of it was recorded: neither a    *)
(* duplicated message, nor a retry, nor a consumer that died sends it twice on *)
(* its own; and "sent" is said only of a mail the provider accepted (email.ts: *)
(* claim and update; workers/app.ts: queue).                                   *)
RepeatsFollowFailures ==
    \A m \in MailId : /\ mailed[m] <= 1 + failures[m]
                      /\ delivery[m] = "sent" => mailed[m] > 0
===============================================================================
