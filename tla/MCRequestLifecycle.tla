-------------------------- MODULE MCRequestLifecycle --------------------------
(* Symmetry of the small instances of RequestLifecycle (safety runs only). *)
EXTENDS RequestLifecycle, TLC

Symmetry ==
    Permutations(Requests) \cup Permutations(Providers)
        \cup Permutations(Handlers) \cup Permutations(Workers)
=============================================================================
