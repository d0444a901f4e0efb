---------------------------- MODULE AccountDirectory ----------------------------
(***************************************************************************)
(* What the accounts promise: an email belongs to one account at a time,   *)
(* from its registration until the account moves to another email or goes, *)
(* an account is activated once and goes for good, and only an active      *)
(* account moves.                                                          *)
(***************************************************************************)
CONSTANTS Users, Emails

VARIABLES
    stage,   \* stage[u]: how far the account u has come
    holders  \* holders[e]: the accounts that have the email e

vars == <<stage, holders>>

Init ==
    /\ stage = [u \in Users |-> "none"]
    /\ holders = [e \in Emails |-> {}]

Register(u, e) ==
    /\ stage[u] = "none"
    /\ holders[e] = {}
    /\ stage' = [stage EXCEPT ![u] = "registered"]
    /\ holders' = [holders EXCEPT ![e] = {u}]

Activate(u) ==
    /\ stage[u] = "registered"
    /\ stage' = [stage EXCEPT ![u] = "active"]
    /\ UNCHANGED holders

Move(u, e) ==
    /\ stage[u] = "active"
    /\ holders[e] = {}
    /\ holders' = [f \in Emails |-> IF f = e THEN {u} ELSE holders[f] \ {u}]
    /\ UNCHANGED stage

Delete(u) ==
    /\ stage[u] \in {"registered", "active"}
    /\ stage' = [stage EXCEPT ![u] = "gone"]
    /\ holders' = [e \in Emails |-> holders[e] \ {u}]

Next ==
    \E u \in Users :
        \/ Activate(u) \/ Delete(u)
        \/ \E e \in Emails : Register(u, e) \/ Move(u, e)

Spec == Init /\ [][Next]_vars
=============================================================================
