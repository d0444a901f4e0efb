--------------------------- MODULE RequestLifecycle ---------------------------
(***************************************************************************)
(* The life of a horeca request and of the offers (provider requests) made *)
(* on it: the handlers of HorecaRequestsService, ProviderRequestsService,  *)
(* HorecaPrivateRequestsService and ReviewsService, and the two hourly     *)
(* jobs that close what is overdue.                                        *)
(*                                                                         *)
(* Each database call is one step.  A handler that reads, awaits and then  *)
(* writes is two steps, and what it read is kept in call[w]; a job that    *)
(* reads a list and then updates its records one by one keeps that list    *)
(* and the offers it read with it in job[j].  A nested Prisma update is    *)
(* one transaction that locks the request row first: one step.             *)
(*                                                                         *)
(* Left out here: WebSocket pushes (nothing is stored), the chat messages  *)
(* of a cancellation (a component of its own), images and items.           *)
(***************************************************************************)
EXTENDS Integers, FiniteSets

CONSTANTS
    Requests,     \* ids of horeca requests
    Providers,    \* users that make offers
    Handlers,     \* HTTP handlers that may be suspended at an await together
    Workers,      \* jobs of the horeca queue that may run together
    Day,          \* ticks of the clock in a day
    MaxTime,      \* bound: the last tick
    MaxDelivery,  \* bound: the latest deliveryTime a request is created with
    MaxCalls,     \* bound: HTTP calls made in a behaviour
    MaxFaults     \* bound: rejected awaits and process crashes

ASSUME DayAssumption    == Day \in Nat \ {0}
ASSUME BoundsAssumption == {MaxTime, MaxDelivery, MaxCalls, MaxFaults} \subseteq Nat

VARIABLES
    now,                     \* the clock
    status,                  \* HorecaRequest.status, "None": no such row
    acceptUntill,            \* HorecaRequest.acceptUntill, a @db.Date column
    deliveryTime,            \* HorecaRequest.deliveryTime
    reviewNotificationSent,  \* HorecaRequest.reviewNotificationSent
    offerStatus,             \* ProviderRequest.status, by request and provider
    reviews,                 \* rows of ProviderRequestReview
    call,                    \* what a suspended handler will do next
    job,                     \* what a running job of the queue has read
    calls, faults            \* counters of the two bounds

requestVars == <<status, acceptUntill, deliveryTime, reviewNotificationSent>>
dbVars      == <<requestVars, offerStatus, reviews>>
vars        == <<now, dbVars, call, job, calls, faults>>

RequestStatus == {"Pending", "Active", "CompletedSuccessfully", "CompletedUnsuccessfully"}
OfferStatus   == {"Pending", "Active", "Canceled", "Finished"}

\* A row with this id may not exist; in a job's snapshot: it was not read.
StatusOrNone == RequestStatus \cup {"None"}
OfferOrNone  == OfferStatus \cup {"None"}

Review == [request : Requests, provider : Providers,
           isDelivered : {0, 1}, isSuccessfully : {0, 1}]

IdleCall == [op |-> "idle"]
Call     == [op : {"insertOffer", "privateOffer", "privateApprove", "cancelActiveOffer",
                   "cancelOtherOffer", "insertReview"},
             request : Requests, provider : Providers]

NoOffers == [h \in Requests |-> [v \in Providers |-> "None"]]
IdleJob  == [stage |-> "idle", now |-> 0, todo |-> {}, bad |-> {}, snapshot |-> NoOffers]
Job      == [stage : {"idle", "expire", "deliver", "remind", "weigh", "close"},
             now : Nat, todo : SUBSET Requests, bad : SUBSET Requests,
             snapshot : [Requests -> [Providers -> OfferOrNone]]]

TypeOK ==
    /\ now \in Nat
    /\ status \in [Requests -> StatusOrNone]
    /\ acceptUntill \in [Requests -> Nat]
    /\ deliveryTime \in [Requests -> Nat]
    /\ reviewNotificationSent \in [Requests -> BOOLEAN]
    /\ offerStatus \in [Requests -> [Providers -> OfferOrNone]]
    /\ reviews \subseteq Review
    /\ call \in [Handlers -> Call \cup {IdleCall}]
    /\ job \in [Workers -> Job]
    /\ calls \in Nat
    /\ faults \in Nat

Init ==
    /\ now = 0
    /\ status = [h \in Requests |-> "None"]
    /\ acceptUntill = [h \in Requests |-> 0]
    /\ deliveryTime = [h \in Requests |-> 0]
    /\ reviewNotificationSent = [h \in Requests |-> FALSE]
    /\ offerStatus = NoOffers
    /\ reviews = {}
    /\ call = [w \in Handlers |-> IdleCall]
    /\ job = [j \in Workers |-> IdleJob]
    /\ calls = 0
    /\ faults = 0

-----------------------------------------------------------------------------
(* Helpers *)

\* Midnight of the day of t: what a @db.Date column or filter keeps of t.
DateOf(t) == (t \div Day) * Day

\* Mutant: the status map of requests, used for an offer.
ClosedOfferOfWrongMap(s) == IF s = "Pending" THEN "CompletedUnsuccessfully" ELSE s

\* Mutant: every open offer is finished.
ClosedOfferAlwaysFinished(s) == IF s \in {"Pending", "Active"} THEN "Finished" ELSE s

\* providerRequestsStatusMap: what a job writes for the status it has read.
ClosedOffer(s) == CASE s = "Pending" -> "Canceled"
                    [] s = "Active"  -> "Finished"
                    [] OTHER         -> s

\* Rows that a job's query returned with their offers.
Snapshot(list) == [h \in Requests |-> IF h \in list THEN offerStatus[h]
                                                    ELSE [v \in Providers |-> "None"]]

\* The offers of h after a job wrote, for every offer it had read, the
\* closed form of the status it had read.
OffersClosed(j, h) ==
    [v \in Providers |-> IF job[j].snapshot[h][v] = "None"
                         THEN offerStatus[h][v]
                         ELSE ClosedOffer(job[j].snapshot[h][v])]

Finished(h)   == {v \in Providers : offerStatus[h][v] = "Finished"}
ReviewsOf(h, v) == {r \in reviews : r.request = h /\ r.provider = v}
Positive(r)   == r.isDelivered = 1 /\ r.isSuccessfully = 1

\* One more HTTP call of the bounded number.
Called == calls < MaxCalls /\ calls' = calls + 1

Suspend(w, op, h, v) ==
    /\ call[w] = IdleCall
    /\ call' = [call EXCEPT ![w] = [op |-> op, request |-> h, provider |-> v]]

Resume(w, op) == call[w].op = op /\ call' = [call EXCEPT ![w] = IdleCall]

-----------------------------------------------------------------------------
(* Horeca: requests *)

\* create: the dates are checked in full, only the date of acceptUntill is kept.
CreateRow(h, accept, delivery) ==
    /\ status[h] = "None"
    /\ now <= accept /\ now <= delivery
    /\ accept < delivery
    /\ status' = [status EXCEPT ![h] = "Pending"]
    /\ acceptUntill' = [acceptUntill EXCEPT ![h] = DateOf(accept)]
    /\ deliveryTime' = [deliveryTime EXCEPT ![h] = delivery]
    /\ UNCHANGED reviewNotificationSent

Create(h, accept, delivery) ==
    /\ Called
    /\ CreateRow(h, accept, delivery)
    /\ UNCHANGED <<now, offerStatus, reviews, call, job, faults>>

\* Mutant: an upsert, which gives the request an offer nobody made.
ApproveRowUpserts(h, v) ==
    /\ status[h] # "None"
    /\ offerStatus' = [offerStatus EXCEPT ![h][v] = "Active"]
    /\ status' = [status EXCEPT ![h] = "Active"]
    /\ UNCHANGED <<acceptUntill, deliveryTime, reviewNotificationSent>>

\* The nested update fails as a whole when the request has no such offer.
ApproveRow(h, v) ==
    /\ offerStatus[h][v] # "None"
    /\ offerStatus' = [offerStatus EXCEPT ![h][v] = "Active"]
    /\ status' = [status EXCEPT ![h] = "Active"]
    /\ UNCHANGED <<acceptUntill, deliveryTime, reviewNotificationSent>>

ApproveProviderRequest(h, v) ==
    /\ Called
    /\ ApproveRow(h, v)
    /\ UNCHANGED <<now, reviews, call, job, faults>>

\* Mutant: a request that is opened again is on offer for another day.
CancelRowProlongs(h, v) ==
    /\ offerStatus[h][v] # "None"
    /\ offerStatus' = [offerStatus EXCEPT ![h][v] = "Canceled"]
    /\ status' = [status EXCEPT ![h] = "Pending"]
    /\ acceptUntill' = [acceptUntill EXCEPT ![h] = DateOf(now)]
    /\ UNCHANGED <<deliveryTime, reviewNotificationSent>>

CancelRow(h, v) ==
    /\ offerStatus[h][v] # "None"
    /\ offerStatus' = [offerStatus EXCEPT ![h][v] = "Canceled"]
    /\ status' = [status EXCEPT ![h] = "Pending"]
    /\ UNCHANGED <<acceptUntill, deliveryTime, reviewNotificationSent>>

CancelProviderRequest(h, v) ==
    /\ Called
    /\ CancelRow(h, v)
    /\ UNCHANGED <<now, reviews, call, job, faults>>

Cancel(h) ==
    /\ Called
    /\ status[h] # "None"
    /\ offerStatus' = [offerStatus EXCEPT ![h] =
           [v \in Providers |-> IF @[v] \in {"Pending", "Active"} THEN "Canceled" ELSE @[v]]]
    /\ status' = [status EXCEPT ![h] = "CompletedUnsuccessfully"]
    /\ UNCHANGED <<now, acceptUntill, deliveryTime, reviewNotificationSent,
                   reviews, call, job, faults>>

\* A private request is a request, an offer of the chosen provider and its
\* approval: three awaits of one handler.
CreatePrivate(w, h, v, accept, delivery) ==
    /\ Called
    /\ CreateRow(h, accept, delivery)
    /\ Suspend(w, "privateOffer", h, v)
    /\ UNCHANGED <<now, offerStatus, reviews, job, faults>>

PrivateOffer(w) ==
    LET h == call[w].request
        v == call[w].provider
    IN  /\ call[w].op = "privateOffer"
        /\ \/ /\ offerStatus[h][v] = "None"
              /\ offerStatus' = [offerStatus EXCEPT ![h][v] = "Pending"]
              /\ call' = [call EXCEPT ![w].op = "privateApprove"]
           \/ /\ offerStatus[h][v] # "None"     \* unique (userId, horecaRequestId)
              /\ call' = [call EXCEPT ![w] = IdleCall]
              /\ UNCHANGED offerStatus
        /\ UNCHANGED <<now, requestVars, reviews, job, calls, faults>>

PrivateApprove(w) ==
    /\ Resume(w, "privateApprove")
    /\ ApproveRow(call[w].request, call[w].provider)
    /\ UNCHANGED <<now, reviews, job, calls, faults>>

-----------------------------------------------------------------------------
(* Provider: offers *)

\* create reads the request and lets only a Pending one pass ...
BeginOffer(w, h, v) ==
    /\ Called
    /\ status[h] = "Pending"
    /\ Suspend(w, "insertOffer", h, v)
    /\ UNCHANGED <<now, dbVars, job, faults>>

\* Mutant: the insert replaces the offer there is.
InsertOfferReplaces(w) ==
    /\ Resume(w, "insertOffer")
    /\ offerStatus' = [offerStatus EXCEPT ![call[w].request][call[w].provider] = "Pending"]
    /\ UNCHANGED <<now, requestVars, reviews, job, calls, faults>>

\* ... and then inserts, whatever the request has become.
InsertOffer(w) ==
    LET h == call[w].request
        v == call[w].provider
    IN  /\ Resume(w, "insertOffer")
        /\ offerStatus' = IF offerStatus[h][v] = "None"   \* unique (userId, horecaRequestId)
                          THEN [offerStatus EXCEPT ![h][v] = "Pending"]
                          ELSE offerStatus
        /\ UNCHANGED <<now, requestVars, reviews, job, calls, faults>>

\* cancel chooses its write by the status it reads.
BeginCancelOffer(w, h, v) ==
    /\ Called
    /\ offerStatus[h][v] # "None"
    /\ Suspend(w, IF offerStatus[h][v] = "Active" THEN "cancelActiveOffer"
                                                  ELSE "cancelOtherOffer", h, v)
    /\ UNCHANGED <<now, dbVars, job, faults>>

CancelActiveOffer(w) ==
    /\ Resume(w, "cancelActiveOffer")
    /\ CancelRow(call[w].request, call[w].provider)
    /\ UNCHANGED <<now, reviews, job, calls, faults>>

CancelOtherOffer(w) ==
    /\ Resume(w, "cancelOtherOffer")
    /\ offerStatus' = [offerStatus EXCEPT ![call[w].request][call[w].provider] = "Canceled"]
    /\ UNCHANGED <<now, requestVars, reviews, job, calls, faults>>

-----------------------------------------------------------------------------
(* Reviews *)

\* Mutant: any offer of the request may be reviewed.
BeginReviewOfAny(w, h, v) ==
    /\ Called
    /\ offerStatus[h][v] # "None"
    /\ Suspend(w, "insertReview", h, v)
    /\ UNCHANGED <<now, dbVars, job, faults>>

BeginReview(w, h, v) ==
    /\ Called
    /\ offerStatus[h][v] = "Finished"
    /\ Suspend(w, "insertReview", h, v)
    /\ UNCHANGED <<now, dbVars, job, faults>>

InsertReview(w, isDelivered, isSuccessfully) ==
    LET h == call[w].request
        v == call[w].provider
        review == [request |-> h, provider |-> v,
                   isDelivered |-> isDelivered, isSuccessfully |-> isSuccessfully]
    IN  /\ Resume(w, "insertReview")
        /\ reviews' = IF ReviewsOf(h, v) = {} THEN reviews \cup {review}
                                              ELSE reviews   \* unique providerRequestId
        /\ UNCHANGED <<now, requestVars, offerStatus, job, calls, faults>>

-----------------------------------------------------------------------------
(* The job pastRequests *)

Expired(t) == {h \in Requests : status[h] = "Pending" /\ acceptUntill[h] < DateOf(t)}

\* Mutant: the date of the delivery is compared, not its time.
DeliveredToday(t) == {h \in Requests : status[h] = "Active" /\ DateOf(deliveryTime[h]) <= t}

Delivered(t) == {h \in Requests : status[h] = "Active" /\ deliveryTime[h] <= t}

\* pastRequests takes the time once, for both of its queries.
StartPastRequests(j) ==
    /\ job[j].stage = "idle"
    /\ job' = [job EXCEPT ![j] = [stage |-> "expire", now |-> now, todo |-> Expired(now),
                                  bad |-> {}, snapshot |-> Snapshot(Expired(now))]]
    /\ UNCHANGED <<now, dbVars, call, calls, faults>>

\* h has been dealt with; what was read with it is forgotten.
Written(j, h) ==
    job' = [job EXCEPT ![j].todo = @ \ {h},
                       ![j].snapshot[h] = [v \in Providers |-> "None"]]

\* Mutant: only the offers are closed.
ExpireOffersOnly(j, h) ==
    /\ job[j].stage = "expire" /\ h \in job[j].todo
    /\ offerStatus' = [offerStatus EXCEPT ![h] = OffersClosed(j, h)]
    /\ Written(j, h)
    /\ UNCHANGED <<now, requestVars, reviews, call, calls, faults>>

\* The record is found by id alone: its status was checked by the query.
Expire(j, h) ==
    /\ job[j].stage = "expire" /\ h \in job[j].todo
    /\ status' = [status EXCEPT ![h] = "CompletedUnsuccessfully"]
    /\ offerStatus' = [offerStatus EXCEPT ![h] = OffersClosed(j, h)]
    /\ Written(j, h)
    /\ UNCHANGED <<now, acceptUntill, deliveryTime, reviewNotificationSent,
                   reviews, call, calls, faults>>

ReadDelivered(j) ==
    LET list == Delivered(job[j].now)
    IN  /\ job[j].stage = "expire" /\ job[j].todo = {}
        /\ job' = [job EXCEPT ![j] = [stage |-> "deliver", now |-> 0, todo |-> list,
                                      bad |-> {}, snapshot |-> Snapshot(list)]]
        /\ UNCHANGED <<now, dbVars, call, calls, faults>>

\* The status map has no entry for Active: the status that was read is written back.
Deliver(j, h) ==
    /\ job[j].stage = "deliver" /\ h \in job[j].todo
    /\ status' = [status EXCEPT ![h] = "Active"]
    /\ offerStatus' = [offerStatus EXCEPT ![h] = OffersClosed(j, h)]
    /\ Written(j, h)
    /\ UNCHANGED <<now, acceptUntill, deliveryTime, reviewNotificationSent,
                   reviews, call, calls, faults>>

-----------------------------------------------------------------------------
(* The job sendReviewNotification *)

\* Mutant: no day is left for the delivery.
ToRemindAtOnce ==
    {h \in Requests : /\ status[h] = "Active"
                      /\ ~reviewNotificationSent[h]
                      /\ deliveryTime[h] < now
                      /\ Finished(h) # {}}

ToRemind ==
    {h \in Requests : /\ status[h] = "Active"
                      /\ ~reviewNotificationSent[h]
                      /\ deliveryTime[h] + Day < now
                      /\ Finished(h) # {}}

\* Mutant: two days instead of three.
OverdueAfterTwoDays(t) == {h \in Requests : status[h] = "Active" /\ deliveryTime[h] + 2 * Day < t}

Overdue(t) == {h \in Requests : status[h] = "Active" /\ deliveryTime[h] + 3 * Day < t}

\* Mutant: every finished offer, not some, which none at all satisfies.
SuccessfulByEvery(t) ==
    {h \in Overdue(t) : \A v \in Finished(h) : \A r \in ReviewsOf(h, v) : Positive(r)}

\* Some finished offer has no review, or a positive one.
Successful(t) ==
    {h \in Overdue(t) : \E v \in Finished(h) : \A r \in ReviewsOf(h, v) : Positive(r)}

\* Mutant: the query without the case that no offer is finished.
UnsuccessfulByReview(t) ==
    {h \in Overdue(t) : \E v \in Finished(h) : \E r \in ReviewsOf(h, v) :
                            r.isDelivered = 0 \/ r.isSuccessfully = 1}

\* Some finished offer has a review with isDelivered = 0 or isSuccessfully = 1,
\* or no offer is finished.
Unsuccessful(t) ==
    {h \in Overdue(t) : \/ Finished(h) = {}
                        \/ \E v \in Finished(h) : \E r \in ReviewsOf(h, v) :
                               r.isDelivered = 0 \/ r.isSuccessfully = 1}

StartReviewNotification(j) ==
    /\ job[j].stage = "idle"
    /\ job' = [job EXCEPT ![j].stage = "remind", ![j].todo = ToRemind]
    /\ UNCHANGED <<now, dbVars, call, calls, faults>>

Remind(j, h) ==
    /\ job[j].stage = "remind" /\ h \in job[j].todo
    /\ reviewNotificationSent' = [reviewNotificationSent EXCEPT ![h] = TRUE]
    /\ job' = [job EXCEPT ![j].todo = @ \ {h}]
    /\ UNCHANGED <<now, status, acceptUntill, deliveryTime, offerStatus, reviews,
                   call, calls, faults>>

\* The second reminder only reads and pushes; then the lists of the requests
\* to close are read, one after the other, with the same threshold.
ReadSuccessful(j) ==
    /\ job[j].stage = "remind" /\ job[j].todo = {}
    /\ job' = [job EXCEPT ![j].stage = "weigh", ![j].now = now, ![j].todo = Successful(now)]
    /\ UNCHANGED <<now, dbVars, call, calls, faults>>

ReadUnsuccessful(j) ==
    /\ job[j].stage = "weigh"
    /\ job' = [job EXCEPT ![j].stage = "close", ![j].now = 0,
                          ![j].bad = Unsuccessful(job[j].now)]
    /\ UNCHANGED <<now, dbVars, call, calls, faults>>

CloseSuccessfully(j, h) ==
    /\ job[j].stage = "close" /\ h \in job[j].todo
    /\ status' = [status EXCEPT ![h] = "CompletedSuccessfully"]
    /\ job' = [job EXCEPT ![j].todo = @ \ {h}]
    /\ UNCHANGED <<now, acceptUntill, deliveryTime, reviewNotificationSent, offerStatus,
                   reviews, call, calls, faults>>

CloseUnsuccessfully(j, h) ==
    /\ job[j].stage = "close" /\ h \in job[j].bad
    /\ status' = [status EXCEPT ![h] = "CompletedUnsuccessfully"]
    /\ job' = [job EXCEPT ![j].bad = @ \ {h}]
    /\ UNCHANGED <<now, acceptUntill, deliveryTime, reviewNotificationSent, offerStatus,
                   reviews, call, calls, faults>>

EndJob(j) ==
    /\ job[j].stage \in {"deliver", "close"}
    /\ job[j].todo = {} /\ job[j].bad = {}
    /\ job' = [job EXCEPT ![j] = IdleJob]
    /\ UNCHANGED <<now, dbVars, call, calls, faults>>

-----------------------------------------------------------------------------
(* Time and faults *)

Tick ==
    /\ now < MaxTime
    /\ now' = now + 1
    /\ UNCHANGED <<dbVars, call, job, calls, faults>>

Fault == faults < MaxFaults /\ faults' = faults + 1

\* An await of a handler is rejected: the rest of the handler does not happen.
CallFails(w) ==
    /\ Fault
    /\ call[w] # IdleCall
    /\ call' = [call EXCEPT ![w] = IdleCall]
    /\ UNCHANGED <<now, dbVars, job, calls>>

\* One update of a list is rejected: allSettled goes on with the others.
UpdateFails(j, h) ==
    /\ Fault
    /\ \/ /\ job[j].stage \in {"expire", "deliver"} /\ h \in job[j].todo
          /\ Written(j, h)
       \/ /\ job[j].stage = "close" /\ h \in job[j].todo
          /\ job' = [job EXCEPT ![j].todo = @ \ {h}]
       \/ /\ job[j].stage = "close" /\ h \in job[j].bad
          /\ job' = [job EXCEPT ![j].bad = @ \ {h}]
    /\ UNCHANGED <<now, dbVars, call, calls>>

\* A query of a job, or the awaited update of a reminder, is rejected: the job fails.
JobFails(j) ==
    /\ Fault
    /\ job[j].stage \in {"expire", "remind", "weigh"}
    /\ job[j].stage = "expire" => job[j].todo = {}
    /\ job' = [job EXCEPT ![j] = IdleJob]
    /\ UNCHANGED <<now, dbVars, call, calls>>

\* The process stops and is started again: only the database is left.  Bull
\* runs a stalled job from its beginning, which is a job started later.
Crash ==
    /\ Fault
    /\ call' = [w \in Handlers |-> IdleCall]
    /\ job' = [j \in Workers |-> IdleJob]
    /\ UNCHANGED <<now, dbVars, calls>>

-----------------------------------------------------------------------------
(* Specification *)

Dates == 0 .. MaxDelivery

HorecaCall(h) ==
    \/ \E accept, delivery \in Dates : Create(h, accept, delivery)
    \/ Cancel(h)
    \/ \E v \in Providers : \/ ApproveProviderRequest(h, v)
                            \/ CancelProviderRequest(h, v)

PrivateCall(w, h) ==
    \E v \in Providers, accept, delivery \in Dates : CreatePrivate(w, h, v, accept, delivery)

ProviderCall(w, h) ==
    \E v \in Providers : \/ BeginOffer(w, h, v)
                         \/ BeginCancelOffer(w, h, v)

ReviewCall(w, h) ==
    \E v \in Providers : BeginReview(w, h, v)

UserStep ==
    \E h \in Requests :
        \/ HorecaCall(h)
        \/ \E w \in Handlers : PrivateCall(w, h) \/ ProviderCall(w, h) \/ ReviewCall(w, h)

HandlerStep(w) ==
    \/ PrivateOffer(w)
    \/ PrivateApprove(w)
    \/ InsertOffer(w)
    \/ CancelActiveOffer(w)
    \/ CancelOtherOffer(w)
    \/ \E isDelivered, isSuccessfully \in {0, 1} : InsertReview(w, isDelivered, isSuccessfully)

JobStep(j) ==
    \/ \E h \in Requests : \/ Expire(j, h)
                           \/ Deliver(j, h)
                           \/ Remind(j, h)
                           \/ CloseSuccessfully(j, h)
                           \/ CloseUnsuccessfully(j, h)
    \/ ReadDelivered(j)
    \/ ReadSuccessful(j)
    \/ ReadUnsuccessful(j)
    \/ EndJob(j)

FaultStep ==
    \/ \E w \in Handlers : CallFails(w)
    \/ \E j \in Workers : JobFails(j) \/ \E h \in Requests : UpdateFails(j, h)
    \/ Crash

Next ==
    \/ UserStep
    \/ \E w \in Handlers : HandlerStep(w)
    \/ \E j \in Workers : \/ StartPastRequests(j)
                          \/ StartReviewNotification(j)
                          \/ JobStep(j)
    \/ FaultStep
    \/ Tick

Spec == Init /\ [][Next]_vars

\* Node resumes every handler and job whose await has settled; the cron adds
\* both jobs every hour to a FIFO queue, so each is started again and again.
Fairness ==
    /\ WF_vars(Tick)
    /\ \A w \in Handlers : WF_vars(HandlerStep(w))
    /\ \A j \in Workers : WF_vars(JobStep(j))
    /\ SF_vars(\E j \in Workers : StartPastRequests(j))
    /\ SF_vars(\E j \in Workers : StartReviewNotification(j))

FairSpec == Spec /\ Fairness

-----------------------------------------------------------------------------
(* Properties *)

\* An offer is Finished only when the accept date of its request, or its
\* delivery time, is over: neither a list a job read long ago nor a late
\* write of Expire or Deliver finishes the offer of a request still open.
FinishedIsDue ==
    \A h \in Requests, v \in Providers :
        offerStatus[h][v] = "Finished" =>
            acceptUntill[h] < DateOf(now) \/ deliveryTime[h] <= now

\* A request is completed with success only after the three days that
\* handleRequestsOnReviewToComplete leaves for a review are over.
SuccessIsOverdue ==
    \A h \in Requests :
        status[h] = "CompletedSuccessfully" => deliveryTime[h] + 3 * Day < now

\* The horeca is asked for a review only a day after the delivery.
ReminderIsDue ==
    \A h \in Requests : reviewNotificationSent[h] => deliveryTime[h] + Day < now

\* An offer never goes back to Pending, and one that is not chosen when it is
\* finished was canceled: the jobs write the closed form of what they have
\* read, and no interleaving makes that turn a Pending offer into a Finished one.
OfferStep(before, after) ==
    /\ after = "Pending" => before = "None"
    /\ after = "Finished" => before \in {"Active", "Canceled"}
    /\ after # "None"

OffersAdvance ==
    [][\A h \in Requests, v \in Providers :
          offerStatus'[h][v] # offerStatus[h][v] =>
              OfferStep(offerStatus[h][v], offerStatus'[h][v])]_offerStatus

\* The hourly job closes every Pending request whose accept date is over,
\* unless someone else moves it out of Pending first.
ExpiredLeavesPending ==
    \A h \in Requests :
        (status[h] = "Pending" /\ acceptUntill[h] < DateOf(now)) ~> (status[h] # "Pending")

\* The request waits for a close that no query selects: every finished offer
\* of it has the review "delivered, but not successfully".
HalfPositive(r) == r.isDelivered = 1 /\ r.isSuccessfully = 0

Unselected(h) ==
    /\ status[h] = "Active"
    /\ Finished(h) # {}
    /\ \A v \in Finished(h) : \E r \in ReviewsOf(h, v) : HalfPositive(r)

\* Every request is completed in the end by its owner or by the jobs, except
\* the ones that neither closing query selects.
EveryRequestCompletes ==
    \A h \in Requests :
        (status[h] # "None") ~>
            \/ status[h] \in {"CompletedSuccessfully", "CompletedUnsuccessfully"}
            \/ Unselected(h)

-----------------------------------------------------------------------------
(* What other components see of the lifecycle *)

\* The dates are compared as the list of incoming requests compares them.
Board == INSTANCE RequestBoard WITH
    status <- [h \in Requests |-> IF status[h] \in {"None", "Pending"} THEN status[h]
                                                                      ELSE "Closed"],
    inTime <- {h \in Requests : status[h] # "None" /\ DateOf(now) <= acceptUntill[h]},
    offers <- {o \in Providers \X Requests : offerStatus[o[2]][o[1]] # "None"}

Choices == INSTANCE ChosenOffers WITH
    Offers <- Providers,
    active <- {h \in Requests : status[h] = "Active"},
    chosen <- [h \in Requests |-> {v \in Providers : offerStatus[h][v] = "Active"}]

\* Whatever handlers, jobs and faults overlap, requests and offers come and go
\* as Matching lets them: an offer inserted late, or canceled late, is on a
\* request that is there, and no request comes back in time.
BoardKept == Board!BSpec

\* As Chats lets offers be chosen and closed: no stale list or late write makes an offer
\* Active, and none is made Active without its request.
ChoicesKept == Choices!CSpec

-----------------------------------------------------------------------------
(* What a comment of the repository says, and the code does not do *)

\* schema.prisma:64, a request is CompletedUnsuccessfully "according review if
\* any of review options is not positive".
NegativeReviewCloses ==
    \A h \in Requests :
        (status[h] = "Active" /\ \E v \in Finished(h) : \E r \in ReviewsOf(h, v) : ~Positive(r))
            ~> (status[h] # "Active")
=============================================================================
