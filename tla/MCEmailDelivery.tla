--------------------------- MODULE MCEmailDelivery ---------------------------
(* Instances of EmailDelivery for TLC. *)
EXTENDS EmailDelivery, TLC

\* Nothing orders the workers, the threads or the deliveries of an instance.
Symmetry == Permutations(Worker) \cup Permutations(Thread) \cup Permutations(Job)
==============================================================================
