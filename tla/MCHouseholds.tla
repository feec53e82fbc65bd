------------------------------ MODULE MCHouseholds ------------------------------
(* Instances of Households for TLC. *)
EXTENDS Households, TLC

\* Nothing orders the users, the invitations or the requests.
Symmetry == Permutations(User) \cup Permutations(Invitation)
            \cup Permutations(Inviter) \cup Permutations(Tab)
===============================================================================
