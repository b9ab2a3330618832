---------------------------- MODULE MCRequestStore ----------------------------
(* TLC instances of RequestStore. *)
EXTENDS RequestStore, TLC

(* Ids are interchangeable: nothing but equality is asked of them. *)
MCSymmetry == Permutations(Id)

=============================================================================
