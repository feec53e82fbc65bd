----------------------------- MODULE JobHandling -----------------------------
(***************************************************************************)
(* What the job types have in common: an HTTP request stores a document of *)
(* its own and then publishes the document's job, and a JobHandler works   *)
(* on the document in several steps, on a thread of the runner, before the *)
(* runner records how it ended.  EmailDelivery and Ingestion give the      *)
(* steps; a document is named by its job.                                  *)
(***************************************************************************)
EXTENDS JobQueue

VARIABLES
    request,    \* request[j]: how far the request that creates j got:
                \* "none", "stored", "published" or "lost"
    pc          \* pc[w][t]: how far the handler on a thread got

handling == <<request, pc>>
jobVars  == <<vars, handling>>

HandlingInit ==
    /\ Init
    /\ request = [j \in Job |-> "none"]
    /\ pc = [w \in Worker |-> [t \in Thread |-> "none"]]

RequestTo(j, from, to) ==
    /\ request[j] = from
    /\ request' = [request EXCEPT ![j] = to]

\* The document and the job are two writes in no transaction: the process
\* may die between them, and nothing publishes the job later.
StoreDocument(j) == RequestTo(j, "none", "stored") /\ UNCHANGED <<vars, pc>>
PublishJob(j)    == RequestTo(j, "stored", "published") /\ Publish(j) /\ UNCHANGED pc
RequestDies(j)   == RequestTo(j, "stored", "lost") /\ UNCHANGED <<vars, pc>>

\* A handler at a step, and the step it goes on to.
At(w, t, label)   == task[w][t] # Idle /\ pc[w][t] = label
Goto(w, t, label) == pc' = [pc EXCEPT ![w][t] = label]

\* A step of a handler that the queue has no part in.
Within(w, t, from, to) ==
    /\ At(w, t, from)
    /\ Goto(w, t, to)
    /\ UNCHANGED <<vars, request>>

\* The same, when something goes wrong that the fault budget counts.
FaultWithin(w, t, from, to) ==
    /\ At(w, t, from)
    /\ Fault
    /\ Goto(w, t, to)
    /\ UNCHANGED <<document, runner, replays, request>>

Take(w) ==
    \E t \in Thread, j \in Job :
        Claim(w, t, j) /\ Goto(w, t, "start") /\ UNCHANGED request

\* The handler is over and the runner records its outcome.
Return(w, t) ==
    /\ pc[w][t] \in Outcome
    /\ \/ Settle(w, t, pc[w][t])
       \/ pc[w][t] # "ok" /\ SettleFails(w, t)
    /\ Goto(w, t, "none")
    /\ UNCHANGED request

\* When complete throws, the runner turns to fail(handler_failed).
CompleteFails(w, t) == FaultWithin(w, t, "ok", "fatal")

Die(w) ==
    /\ Crash(w)
    /\ pc' = [pc EXCEPT ![w] = [t \in Thread |-> "none"]]
    /\ UNCHANGED request

Begin(w) == Start(w) /\ UNCHANGED handling

\* Steps of the queue that concern no handler.
QueueStep ==
    /\ \/ \E j \in Job : ReplayDead(j)
       \/ \E w \in Worker : \/ ClaimFails(w) \/ Stop(w) \/ Exit(w)
                            \/ \E j \in Job : ClaimOrphans(w, j)
    /\ UNCHANGED handling

TickHandling == Tick /\ UNCHANGED handling
==============================================================================
