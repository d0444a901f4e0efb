------------------------------- MODULE MCAccounts -------------------------------
EXTENDS Accounts, TLC

Symmetry ==
    Permutations(Users) \cup Permutations(Emails) \cup Permutations(Passwords)
        \cup Permutations(Addresses) \cup Permutations(Handlers)
=============================================================================
