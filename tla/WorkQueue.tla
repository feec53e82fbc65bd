------------------------------ MODULE WorkQueue ------------------------------
(***************************************************************************)
(* What the durable job collection promises, with time, workers' threads   *)
(* and leases left out: a job waits, is leased by a worker, and leaves the *)
(* lease by being finished, put back, or buried.  Only a buried job can be *)
(* replayed, and a finished job is final.  tries counts the leases handed  *)
(* out since the job was last enqueued.                                    *)
(***************************************************************************)
EXTENDS Naturals

CONSTANTS Job,        \* the jobs that may ever be published
          Worker,     \* the processes that lease jobs
          NoWorker    \* the holder of a job nobody holds

VARIABLES phase,      \* phase[j]: where job j is in its life
          holder,     \* holder[j]: the worker the lease is made out to
          tries       \* tries[j]: leases handed out since j was enqueued

vars == <<phase, holder, tries>>

Phase == {"absent", "waiting", "leased", "done", "dead"}

Init ==
    /\ phase = [j \in Job |-> "absent"]
    /\ holder = [j \in Job |-> NoWorker]
    /\ tries = [j \in Job |-> 0]

Enqueue(j) ==
    /\ phase[j] = "absent"
    /\ phase' = [phase EXCEPT ![j] = "waiting"]
    /\ tries' = [tries EXCEPT ![j] = 0]
    /\ UNCHANGED holder

\* A waiting job is leased, or the lease of a leased job is handed on.
Lease(j, w) ==
    /\ phase[j] \in {"waiting", "leased"}
    /\ phase' = [phase EXCEPT ![j] = "leased"]
    /\ holder' = [holder EXCEPT ![j] = w]
    /\ tries' = [tries EXCEPT ![j] = @ + 1]

\* The holder gives the lease up: for good, or back to the waiting jobs.
GiveUp(j, outcome) ==
    /\ phase[j] = "leased"
    /\ phase' = [phase EXCEPT ![j] = outcome]
    /\ holder' = [holder EXCEPT ![j] = NoWorker]
    /\ UNCHANGED tries

Replay(j) ==
    /\ phase[j] = "dead"
    /\ phase' = [phase EXCEPT ![j] = "waiting"]
    /\ tries' = [tries EXCEPT ![j] = 0]
    /\ UNCHANGED holder

Next ==
    \E j \in Job :
        \/ Enqueue(j)
        \/ \E w \in Worker : Lease(j, w)
        \/ \E outcome \in {"waiting", "done", "dead"} : GiveUp(j, outcome)
        \/ Replay(j)

Spec == Init /\ [][Next]_vars
==============================================================================
