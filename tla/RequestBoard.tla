----------------------------- MODULE RequestBoard -----------------------------
(***************************************************************************)
(* Requests and offers as the provider's list of incoming requests reads   *)
(* them, and what the list may rely on: an id is published once, Pending   *)
(* and in time; a request leaves Pending and comes back to it, but never   *)
(* comes back in time; an offer is made on a request that is there, and    *)
(* goes only with its provider or its request.                             *)
(*                                                                         *)
(* RequestLifecycle implements it with all that moves a request; Matching  *)
(* implements it with what it lets happen to the list.                     *)
(***************************************************************************)
CONSTANTS Requests, Providers

VARIABLES
    status,   \* of each request, as far as the list asks
    inTime,   \* the requests whose acceptUntill is not over
    offers    \* the pairs of a provider and a request with an offer

bvars == <<status, inTime, offers>>

Listed == {"Pending", "Closed"}

BInit ==
    /\ status = [r \in Requests |-> "None"]
    /\ inTime = {} /\ offers = {}

Publish(r) ==
    /\ status[r] = "None"
    /\ status' = [status EXCEPT ![r] = "Pending"]
    /\ inTime' = inTime \cup {r}
    /\ UNCHANGED offers

Move(r) ==
    /\ status[r] \in Listed
    /\ \E s \in Listed : status' = [status EXCEPT ![r] = s]
    /\ UNCHANGED <<inTime, offers>>

\* At midnight the accept dates of any number of requests are over.
RunOut(group) == inTime' = inTime \ group /\ UNCHANGED <<status, offers>>

Offer(p, r) ==
    /\ status[r] \in Listed
    /\ offers' = offers \cup {<<p, r>>}
    /\ UNCHANGED <<status, inTime>>

RequestGoes(r) ==
    /\ status[r] \in Listed
    /\ status' = [status EXCEPT ![r] = "Deleted"]
    /\ offers' = {o \in offers : o[2] # r}
    /\ UNCHANGED inTime

ProviderGoes(p) == offers' = {o \in offers : o[1] # p} /\ UNCHANGED <<status, inTime>>

BNext ==
    \/ \E r \in Requests : Publish(r) \/ Move(r) \/ RequestGoes(r)
    \/ \E p \in Providers, r \in Requests : Offer(p, r)
    \/ \E group \in SUBSET Requests : RunOut(group)
    \/ \E p \in Providers : ProviderGoes(p)

BSpec == BInit /\ [][BNext]_bvars
=============================================================================
