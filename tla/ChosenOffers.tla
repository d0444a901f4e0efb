----------------------------- MODULE ChosenOffers -----------------------------
(***************************************************************************)
(* The offers on requests as the chats see them: which are Active now, and *)
(* whether their request is.  An offer becomes Active one at a time, and   *)
(* only together with its request; jobs and cancelations may close any of  *)
(* the offers of a request at once, and leave the request Active or not.   *)
(*                                                                         *)
(* RequestLifecycle implements it, and so does Chats for the one request   *)
(* whose offers it follows.                                                *)
(***************************************************************************)
CONSTANTS Requests, Offers

VARIABLES
    active,   \* the requests that are Active
    chosen    \* chosen[h]: the offers on h that are Active

cvars == <<active, chosen>>

CInit == active = {} /\ chosen = [h \in Requests |-> {}]

Choose(h, o) ==
    /\ active' = active \cup {h}
    /\ chosen' = [chosen EXCEPT ![h] = @ \cup {o}]

Close(h, closed) ==
    /\ active' \in {active \cup {h}, active \ {h}}
    /\ chosen' = [chosen EXCEPT ![h] = @ \ closed]

CNext ==
    \E h \in Requests :
        \/ \E o \in Offers : Choose(h, o)
        \/ \E closed \in SUBSET Offers : Close(h, closed)

CSpec == CInit /\ [][CNext]_cvars
=============================================================================
