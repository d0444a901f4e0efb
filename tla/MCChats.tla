------------------------------- MODULE MCChats -------------------------------
(* Symmetry of the small instance of Chats. *)
EXTENDS Chats, TLC

Symmetry == Permutations(Handlers) \cup Permutations(Admins)
=============================================================================
