------------------------------ MODULE MCJobQueue ------------------------------
(* Instances of JobQueue for TLC. *)
EXTENDS JobQueue, TLC

\* Nothing orders the workers, the threads or the jobs of an instance.
Symmetry == Permutations(Worker) \cup Permutations(Thread) \cup Permutations(Job)
===============================================================================
