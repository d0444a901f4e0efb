---------------------------- MODULE MCOfferHistory ----------------------------
(* Symmetry of the small instances of OfferHistory. *)
EXTENDS OfferHistory, TLC

Symmetry ==
    Permutations(Requests) \cup Permutations(Providers)
        \cup Permutations(Handlers) \cup Permutations(Workers)
=============================================================================
