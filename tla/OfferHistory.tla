----------------------------- MODULE OfferHistory -----------------------------
(***************************************************************************)
(* RequestLifecycle with one history variable: the statuses each row of    *)
(* ProviderRequest has held.  Nothing reads it; it lets the properties     *)
(* speak of what a row was, since the code overwrites what it was.         *)
(***************************************************************************)
EXTENDS RequestLifecycle

VARIABLE held    \* held[h][v]: every status the offer of v on h has had

hvars == <<vars, held>>

HInit == Init /\ held = [h \in Requests |-> [v \in Providers |-> {}]]

Remember ==
    held' = [h \in Requests |-> [v \in Providers |->
                held[h][v] \cup ({offerStatus'[h][v]} \ {"None"})]]

HNext == Next /\ Remember

HSpec == HInit /\ [][HNext]_hvars

HTypeOK == TypeOK /\ held \in [Requests -> [Providers -> SUBSET OfferStatus]]

-----------------------------------------------------------------------------
(* Properties *)

\* Only an offer the horeca chose at some time is ever Finished (and so asked
\* a review for, and counted as delivered): no stale list of a job finishes
\* an offer that nobody approved.
OnlyChosenFinish ==
    \A h \in Requests, v \in Providers : "Finished" \in held[h][v] => "Active" \in held[h][v]

\* Only an offer that was Finished has a review, though the insert comes after
\* the check and the offer can be canceled or approved again between the two.
OnlyFinishedReviewed == \A r \in reviews : "Finished" \in held[r.request][r.provider]

\* A request completed successfully has had an offer that was Finished, even
\* if the list of successful requests was read long before it was written.
SuccessWasDelivered ==
    \A h \in Requests :
        status[h] = "CompletedSuccessfully" => \E v \in Providers : "Finished" \in held[h][v]

-----------------------------------------------------------------------------
(* The lifecycle implements the milestones. *)

MilestoneOf(h, v) ==
    IF ReviewsOf(h, v) # {}             THEN "reviewed"
    ELSE IF "Finished" \in held[h][v]   THEN "finished"
    ELSE IF "Active" \in held[h][v]     THEN "chosen"
    ELSE IF held[h][v] # {}             THEN "offered"
    ELSE "none"

Abstract == INSTANCE OfferMilestones WITH
    milestone <- [h \in Requests |-> [v \in Providers |-> MilestoneOf(h, v)]],
    won       <- {h \in Requests : status[h] = "CompletedSuccessfully"}

\* Each offer passes its milestones in order and keeps them, and a request is
\* won only after one of its offers was finished.
MilestonesInOrder == Abstract!MSpec
=============================================================================
