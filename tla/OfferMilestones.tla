---------------------------- MODULE OfferMilestones ----------------------------
(***************************************************************************)
(* What the request lifecycle promises about an offer, whatever handlers   *)
(* and jobs overlap, fail or are repeated: it passes its milestones in one *)
(* order and keeps them,                                                   *)
(*                                                                         *)
(*     none -> offered -> chosen -> finished -> reviewed                   *)
(*                                                                         *)
(* and a request is recorded as won only once some offer of it has been    *)
(* finished.  The code guards neither approvals nor cancelations by the    *)
(* request's status, so a won request may be reopened; that too is stated. *)
(***************************************************************************)
CONSTANTS Requests, Providers

VARIABLES
    milestone,   \* the last milestone of each offer
    won          \* the requests that are completed successfully

mvars == <<milestone, won>>

Milestones == {"none", "offered", "chosen", "finished", "reviewed"}

MInit ==
    /\ milestone = [h \in Requests |-> [v \in Providers |-> "none"]]
    /\ won = {}

\* The offers on h of a group of providers pass from one milestone to the next.
Pass(h, group, before, after) ==
    /\ \A v \in group : milestone[h][v] = before
    /\ milestone' = [milestone EXCEPT ![h] =
                        [v \in Providers |-> IF v \in group THEN after ELSE milestone[h][v]]]

\* Choosing or finishing an offer writes the status of its request as well.
MayReopen(h) == won' \in {won, won \ {h}}

Offer(h, v)     == Pass(h, {v}, "none", "offered") /\ UNCHANGED won
Choose(h, v)    == Pass(h, {v}, "offered", "chosen") /\ MayReopen(h)
Finish(h, group) == Pass(h, group, "chosen", "finished") /\ MayReopen(h)
Evaluate(h, v)  == Pass(h, {v}, "finished", "reviewed") /\ UNCHANGED won

Win(h) ==
    /\ \E v \in Providers : milestone[h][v] \in {"finished", "reviewed"}
    /\ won' = won \cup {h}
    /\ UNCHANGED milestone

Reopen(h) ==
    /\ h \in won
    /\ won' = won \ {h}
    /\ UNCHANGED milestone

MNext ==
    \E h \in Requests :
        \/ \E v \in Providers : Offer(h, v) \/ Choose(h, v) \/ Evaluate(h, v)
        \/ \E group \in SUBSET Providers : Finish(h, group)
        \/ Win(h)
        \/ Reopen(h)

MSpec == MInit /\ [][MNext]_mvars
=============================================================================
