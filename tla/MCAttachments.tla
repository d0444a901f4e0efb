----------------------------- MODULE MCAttachments ------------------------------
EXTENDS Attachments, TLC

Symmetry == Permutations(Images) \cup Permutations(Handlers)
=============================================================================
