---------------------------- MODULE LifecycleProofs ----------------------------
(***************************************************************************)
(* The safety properties of RequestLifecycle and OfferHistory, and that    *)
(* OfferHistory implements OfferMilestones, for every value of the         *)
(* constants.  No property is inductive by itself.  What a job will write  *)
(* depends on the list and the snapshot it holds, so SafetyInv adds what   *)
(* those can still say of the database after other handlers and jobs have  *)
(* run; HistoryInv adds, of each thing a job or a handler keeps over an    *)
(* await, that the history remembers it.                                   *)
(***************************************************************************)
EXTENDS OfferHistory, TLAPS

-----------------------------------------------------------------------------
(* Type correctness, for any number of requests, providers, handlers and   *)
(* jobs, and any length of a day.                                          *)

\* Midnight of a later day is a later midnight, and never after the time it is of.
LEMMA DateOfMonotone ==
    ASSUME NEW s \in Nat, NEW t \in Nat, s <= t
    PROVE  DateOf(s) \in Nat /\ DateOf(s) <= DateOf(t) /\ DateOf(t) <= t
<1> DEFINE a == s \div Day
           b == t \div Day
<1>1. /\ a \in Int /\ a * Day <= s /\ s < a * Day + Day
      /\ b \in Int /\ b * Day <= t /\ t < b * Day + Day
  BY DayAssumption
<1>2. a >= 0 /\ b >= 0
  BY DayAssumption
<1> HIDE DEF a, b
<1>3. a <= b
  <2>1. SUFFICES ASSUME b + 1 <= a PROVE FALSE
    BY <1>1
  <2>2. (b + 1) * Day <= a * Day
    BY <2>1, <1>1, DayAssumption
  <2>3. (b + 1) * Day = b * Day + Day
    BY <1>1, DayAssumption
  <2>4. QED
    BY <1>1, <2>2, <2>3, DayAssumption
<1>4. a * Day <= b * Day
  BY <1>1, <1>2, <1>3, DayAssumption
<1>5. a * Day \in Nat
  BY <1>1, <1>2, DayAssumption
<1>6. QED
  BY <1>1, <1>4, <1>5, DayAssumption DEF DateOf, a, b

\* What a job keeps of its queries has the type of a snapshot.
LEMMA SnapshotType ==
    ASSUME TypeOK, NEW list
    PROVE  Snapshot(list) \in [Requests -> [Providers -> OfferOrNone]]
  BY DEF TypeOK, Snapshot, OfferOrNone

\* The closed form of a status is a status, so a job's write keeps the type.
LEMMA OffersClosedType ==
    ASSUME TypeOK, NEW j \in Workers, NEW h \in Requests
    PROVE  OffersClosed(j, h) \in [Providers -> OfferOrNone]
<1>1. job[j].snapshot[h] \in [Providers -> OfferOrNone]
  BY DEF TypeOK, Job
<1>2. offerStatus[h] \in [Providers -> OfferOrNone]
  BY DEF TypeOK
<1>3. \A s \in OfferOrNone : ClosedOffer(s) \in OfferOrNone
  BY DEF ClosedOffer, OfferOrNone, OfferStatus
<1>4. QED
  BY <1>1, <1>2, <1>3 DEF OffersClosed

\* Forgetting a record of a list keeps the type of the job.
LEMMA WrittenType ==
    ASSUME TypeOK, NEW j \in Workers, NEW h \in Requests, Written(j, h)
    PROVE  job' \in [Workers -> Job]
<1>1. job \in [Workers -> Job] /\ job[j] \in Job
  BY DEF TypeOK
<1>2. [v \in Providers |-> "None"] \in [Providers -> OfferOrNone]
  BY DEF OfferOrNone
<1>3. [job[j] EXCEPT !.todo = @ \ {h}, !.snapshot[h] = [v \in Providers |-> "None"]] \in Job
  BY <1>1, <1>2 DEF Job
<1>4. QED
  BY <1>1, <1>3 DEF Written

\* So does taking a request off a list.
LEMMA ShorterListType ==
    ASSUME TypeOK, NEW j \in Workers, NEW h \in Requests,
           \/ job' = [job EXCEPT ![j].todo = @ \ {h}]
           \/ job' = [job EXCEPT ![j].bad = @ \ {h}]
    PROVE  job' \in [Workers -> Job]
<1>1. job \in [Workers -> Job] /\ job[j] \in Job
  BY DEF TypeOK
<1>2. [job[j] EXCEPT !.todo = @ \ {h}] \in Job /\ [job[j] EXCEPT !.bad = @ \ {h}] \in Job
  BY <1>1 DEF Job
<1>3. QED
  BY <1>1, <1>2

LEMMA IdleJobType == IdleJob \in Job
  BY DEF IdleJob, Job, NoOffers, OfferOrNone

LEMMA InitType == Init => TypeOK
  BY IdleJobType DEF Init, TypeOK, NoOffers, StatusOrNone, OfferOrNone, IdleCall

\* The rows that the users' calls write at once.
LEMMA UserStepType ==
    ASSUME TypeOK, UserStep
    PROVE  TypeOK'
<1> USE DEF TypeOK, Called
<1>1. ASSUME NEW h \in Requests, NEW accept \in Dates, NEW delivery \in Dates,
             CreateRow(h, accept, delivery)
      PROVE  /\ status' \in [Requests -> StatusOrNone]
             /\ acceptUntill' \in [Requests -> Nat]
             /\ deliveryTime' \in [Requests -> Nat]
             /\ reviewNotificationSent' \in [Requests -> BOOLEAN]
  <2>1. accept \in Nat /\ delivery \in Nat
    BY BoundsAssumption DEF Dates
  <2>2. DateOf(accept) \in Nat
    BY <2>1, DateOfMonotone
  <2>3. QED
    BY <1>1, <2>1, <2>2 DEF CreateRow, StatusOrNone, RequestStatus
<1>2. ASSUME NEW w \in Handlers, NEW h \in Requests, NEW v \in Providers,
             NEW op \in {"insertOffer", "privateOffer", "cancelActiveOffer",
                         "cancelOtherOffer", "insertReview"},
             Suspend(w, op, h, v)
      PROVE  call' \in [Handlers -> Call \cup {IdleCall}]
  BY <1>2 DEF Suspend, Call
<1>3. ASSUME NEW h \in Requests, NEW accept \in Dates, NEW delivery \in Dates,
             Create(h, accept, delivery)
      PROVE  TypeOK'
  BY <1>1, <1>3 DEF Create
<1>4. ASSUME NEW w \in Handlers, NEW h \in Requests, NEW v \in Providers,
             NEW accept \in Dates, NEW delivery \in Dates,
             CreatePrivate(w, h, v, accept, delivery)
      PROVE  TypeOK'
  BY <1>1, <1>2, <1>4 DEF CreatePrivate
<1>5. ASSUME NEW h \in Requests, Cancel(h)
      PROVE  TypeOK'
  BY <1>5 DEF Cancel, StatusOrNone, RequestStatus, OfferOrNone, OfferStatus
<1>6. ASSUME NEW h \in Requests, NEW v \in Providers, ApproveProviderRequest(h, v)
      PROVE  TypeOK'
  BY <1>6 DEF ApproveProviderRequest, ApproveRow, StatusOrNone, RequestStatus, OfferOrNone, OfferStatus
<1>7. ASSUME NEW h \in Requests, NEW v \in Providers, CancelProviderRequest(h, v)
      PROVE  TypeOK'
  BY <1>7 DEF CancelProviderRequest, CancelRow, StatusOrNone, RequestStatus, OfferOrNone, OfferStatus
<1>8. ASSUME NEW w \in Handlers, NEW h \in Requests, NEW v \in Providers,
             BeginOffer(w, h, v) \/ BeginCancelOffer(w, h, v) \/ BeginReview(w, h, v)
      PROVE  TypeOK'
  BY <1>2, <1>8 DEF BeginOffer, BeginCancelOffer, BeginReview, dbVars, requestVars
<1>9. QED
  BY <1>3, <1>4, <1>5, <1>6, <1>7, <1>8 DEF UserStep, HorecaCall, PrivateCall, ProviderCall, ReviewCall

LEMMA OneOfferType ==
    ASSUME TypeOK, NEW h \in Requests, NEW v \in Providers, NEW s \in OfferStatus
    PROVE  [offerStatus EXCEPT ![h][v] = s] \in [Requests -> [Providers -> OfferOrNone]]
<1>1. offerStatus[h] \in [Providers -> OfferOrNone] /\ s \in OfferOrNone
  BY DEF TypeOK, OfferOrNone
<1>2. [offerStatus[h] EXCEPT ![v] = s] \in [Providers -> OfferOrNone]
  BY <1>1
<1>3. QED
  BY <1>2 DEF TypeOK

LEMMA HandlerStepType ==
    ASSUME TypeOK, NEW w \in Handlers, HandlerStep(w)
    PROVE  TypeOK'
<1> USE DEF TypeOK, requestVars, StatusOrNone, RequestStatus, OfferOrNone, OfferStatus
<1>1. call[w].op # "idle" => call[w] \in Call
  BY DEF IdleCall
<1>2. ASSUME NEW op, Resume(w, op)
      PROVE  call' \in [Handlers -> Call \cup {IdleCall}]
  BY <1>2 DEF Resume
<1>3. CASE PrivateOffer(w)
  <2>1. call[w] \in Call /\ [call[w] EXCEPT !.op = "privateApprove"] \in Call
    BY <1>1, <1>3 DEF PrivateOffer, Call
  <2>2. call' \in [Handlers -> Call \cup {IdleCall}]
    BY <1>3, <2>1 DEF PrivateOffer
  <2>3. call[w].request \in Requests /\ call[w].provider \in Providers
    BY <2>1 DEF Call
  <2>4. offerStatus' \in [Requests -> [Providers -> OfferOrNone]]
    <3>1. \/ offerStatus' = [offerStatus EXCEPT ![call[w].request][call[w].provider] = "Pending"]
          \/ offerStatus' = offerStatus
      BY <1>3, Zenon DEF PrivateOffer
    <3>2. "Pending" \in OfferStatus
      OBVIOUS
    <3>3. QED
      BY <2>3, <3>1, <3>2, OneOfferType
  <2>5. QED
    BY <1>3, <2>2, <2>4 DEF PrivateOffer
<1>4. CASE PrivateApprove(w)
  BY <1>1, <1>2, <1>4 DEF PrivateApprove, ApproveRow, Resume, Call
<1>5. CASE InsertOffer(w)
  BY <1>1, <1>2, <1>5 DEF InsertOffer, Resume, Call
<1>6. CASE CancelActiveOffer(w)
  BY <1>1, <1>2, <1>6 DEF CancelActiveOffer, CancelRow, Resume, Call
<1>7. CASE CancelOtherOffer(w)
  BY <1>1, <1>2, <1>7 DEF CancelOtherOffer, Resume, Call
<1>8. ASSUME NEW isDelivered \in {0, 1}, NEW isSuccessfully \in {0, 1},
             InsertReview(w, isDelivered, isSuccessfully)
      PROVE  TypeOK'
  BY <1>1, <1>2, <1>8 DEF InsertReview, Resume, Call, Review
<1>9. QED
  BY <1>3, <1>4, <1>5, <1>6, <1>7, <1>8 DEF HandlerStep

LEMMA JobStartType ==
    ASSUME TypeOK, NEW j \in Workers, StartPastRequests(j) \/ StartReviewNotification(j)
    PROVE  TypeOK'
<1> USE DEF TypeOK, dbVars, requestVars
<1>1. CASE StartPastRequests(j)
  <2>1. [stage |-> "expire", now |-> now, todo |-> Expired(now), bad |-> {},
         snapshot |-> Snapshot(Expired(now))] \in Job
    BY SnapshotType DEF Job, Expired
  <2>2. QED
    BY <1>1, <2>1 DEF StartPastRequests
<1>2. CASE StartReviewNotification(j)
  <2>1. ToRemind \subseteq Requests
    BY DEF ToRemind
  <2>2. [job[j] EXCEPT !.stage = "remind", !.todo = ToRemind] \in Job
    BY <2>1 DEF Job
  <2>3. QED
    BY <1>2, <2>2 DEF StartReviewNotification
<1>3. QED
  BY <1>1, <1>2

LEMMA JobStepType ==
    ASSUME TypeOK, NEW j \in Workers, JobStep(j)
    PROVE  TypeOK'
<1> USE DEF TypeOK, dbVars, requestVars
<1>1. ASSUME NEW h \in Requests, Expire(j, h)
      PROVE  TypeOK'
  BY <1>1, WrittenType, OffersClosedType DEF Expire, StatusOrNone, RequestStatus
<1>2. ASSUME NEW h \in Requests, Deliver(j, h)
      PROVE  TypeOK'
  BY <1>2, WrittenType, OffersClosedType DEF Deliver, StatusOrNone, RequestStatus
<1>3. ASSUME NEW h \in Requests, Remind(j, h)
      PROVE  TypeOK'
  BY <1>3, ShorterListType DEF Remind
<1>4. ASSUME NEW h \in Requests, CloseSuccessfully(j, h)
      PROVE  TypeOK'
  BY <1>4, ShorterListType DEF CloseSuccessfully, StatusOrNone, RequestStatus
<1>5. ASSUME NEW h \in Requests, CloseUnsuccessfully(j, h)
      PROVE  TypeOK'
  BY <1>5, ShorterListType DEF CloseUnsuccessfully, StatusOrNone, RequestStatus
<1>6. CASE ReadDelivered(j)
  BY <1>6, SnapshotType DEF ReadDelivered, Job, Delivered
<1>7. CASE ReadSuccessful(j)
  <2>1. Successful(now) \subseteq Requests
    BY DEF Successful, Overdue
  <2>2. [job[j] EXCEPT !.stage = "weigh", !.now = now, !.todo = Successful(now)] \in Job
    BY <2>1 DEF Job
  <2>3. QED
    BY <1>7, <2>2 DEF ReadSuccessful
<1>8. CASE ReadUnsuccessful(j)
  <2>1. Unsuccessful(job[j].now) \subseteq Requests
    BY DEF Unsuccessful, Overdue
  <2>2. [job[j] EXCEPT !.stage = "close", !.now = 0,
                       !.bad = Unsuccessful(job[j].now)] \in Job
    BY <2>1 DEF Job
  <2>3. QED
    BY <1>8, <2>2 DEF ReadUnsuccessful
<1>9. CASE EndJob(j)
  BY <1>9, IdleJobType DEF EndJob
<1>10. QED
  BY <1>1, <1>2, <1>3, <1>4, <1>5, <1>6, <1>7, <1>8, <1>9 DEF JobStep

LEMMA FaultStepType ==
    ASSUME TypeOK, FaultStep
    PROVE  TypeOK'
<1> USE DEF TypeOK, dbVars, requestVars, Fault
<1>1. ASSUME NEW w \in Handlers, CallFails(w)
      PROVE  TypeOK'
  BY <1>1 DEF CallFails
<1>2. ASSUME NEW j \in Workers, JobFails(j)
      PROVE  TypeOK'
  BY <1>2, IdleJobType DEF JobFails
<1>3. ASSUME NEW j \in Workers, NEW h \in Requests, UpdateFails(j, h)
      PROVE  TypeOK'
  <2>1. job' \in [Workers -> Job]
    BY <1>3, WrittenType, ShorterListType DEF UpdateFails
  <2>2. QED
    BY <1>3, <2>1 DEF UpdateFails
<1>4. CASE Crash
  BY <1>4, IdleJobType DEF Crash
<1>5. QED
  BY <1>1, <1>2, <1>3, <1>4 DEF FaultStep

LEMMA TypeStep ==
    ASSUME TypeOK, [Next]_vars
    PROVE  TypeOK'
<1>1. CASE Tick
  BY <1>1 DEF Tick, TypeOK, dbVars, requestVars
<1>2. CASE UNCHANGED vars
  BY <1>2 DEF vars, TypeOK, dbVars, requestVars
<1>3. QED
  BY <1>1, <1>2, UserStepType, HandlerStepType, JobStartType, JobStepType, FaultStepType DEF Next

\* Every variable keeps its type in every step.
THEOREM TypeCorrect == Spec => []TypeOK
<1>1. TypeOK /\ [Next]_vars => TypeOK'
  BY TypeStep
<1>2. QED
  BY InitType, <1>1, PTL DEF Spec

-----------------------------------------------------------------------------
(* Safety. *)

\* What membership in a list means at each stage of a job.
Due(stage, h) ==
    /\ stage = "expire"  => acceptUntill[h] < DateOf(now)
    /\ stage = "deliver" => deliveryTime[h] <= now
    /\ stage = "remind"  => deliveryTime[h] + Day < now
    /\ stage \in {"weigh", "close"} => deliveryTime[h] + 3 * Day < now

ListsAreDue ==
    \A j \in Workers :
        /\ job[j].now <= now
        /\ \A h \in job[j].todo : Due(job[j].stage, h)

\* An id without a row is in no list, suspended call or offer.
MissingIsUnused ==
    \A h \in Requests : status[h] = "None" =>
        /\ ~reviewNotificationSent[h]
        /\ \A v \in Providers : offerStatus[h][v] = "None"
        /\ \A j \in Workers : h \notin job[j].todo \cup job[j].bad
        /\ \A w \in Handlers : call[w].op # "idle" => call[w].request # h

\* An offer that a job has read as Active or Finished has been chosen, whatever it is now.
SnapshotsLag ==
    \A j \in Workers, h \in Requests, v \in Providers :
        /\ job[j].snapshot[h][v] # "None" => offerStatus[h][v] # "None"
        /\ job[j].snapshot[h][v] \in {"Active", "Finished"} =>
               offerStatus[h][v] \notin {"None", "Pending"}

SafetyInv ==
    /\ TypeOK
    /\ ListsAreDue
    /\ MissingIsUnused
    /\ SnapshotsLag
    /\ FinishedIsDue
    /\ SuccessIsOverdue
    /\ ReminderIsDue

-----------------------------------------------------------------------------
(* What a step may do to each part of the state. *)

TimeStep == now <= now'

\* The dates of a request are fixed when its row is created.
DatesStep ==
    \A h \in Requests : status[h] # "None" =>
        /\ status'[h] # "None"
        /\ acceptUntill'[h] = acceptUntill[h]
        /\ deliveryTime'[h] = deliveryTime[h]

OffersStep ==
    \A h \in Requests, v \in Providers :
        offerStatus'[h][v] # offerStatus[h][v] =>
            /\ OfferStep(offerStatus[h][v], offerStatus'[h][v])
            /\ status[h] # "None"
            /\ offerStatus'[h][v] = "Finished" =>
                   \E j \in Workers : job[j].stage \in {"expire", "deliver"} /\ h \in job[j].todo

ClosedStep ==
    \A h \in Requests :
        /\ status'[h] = "CompletedSuccessfully" =>
               \/ status[h] = "CompletedSuccessfully"
               \/ \E j \in Workers : job[j].stage = "close" /\ h \in job[j].todo
        /\ reviewNotificationSent'[h] =>
               \/ reviewNotificationSent[h]
               \/ \E j \in Workers : job[j].stage = "remind" /\ h \in job[j].todo

\* A list is what is left of the list it was, or has just been read.
ListsStep ==
    \A j \in Workers :
        /\ job'[j].now <= now
        /\ \A h \in job'[j].todo : Due(job'[j].stage, h)
        /\ \A h \in job'[j].todo \cup job'[j].bad : status[h] # "None"

CallsStep ==
    \A w \in Handlers : call'[w].op # "idle" =>
        call'[w].request \in Requests /\ status'[call'[w].request] # "None"

\* A snapshot is kept, forgotten or has just been read.
SnapshotsStep ==
    \A j \in Workers, h \in Requests, v \in Providers :
        job'[j].snapshot[h][v] \in {"None", job[j].snapshot[h][v], offerStatus[h][v]}

Effects ==
    /\ TimeStep
    /\ DatesStep
    /\ OffersStep
    /\ ClosedStep
    /\ ListsStep
    /\ CallsStep
    /\ SnapshotsStep

\* A step with these effects preserves the invariant.
LEMMA EffectsPreserve ==
    ASSUME SafetyInv, TypeOK', Effects
    PROVE  SafetyInv'
<1> USE DEF Effects
<1>1. now \in Nat /\ now' \in Nat /\ now <= now' /\ Day \in Nat
  BY DayAssumption DEF SafetyInv, TypeOK, TimeStep
<1>2. DateOf(now) \in Nat /\ DateOf(now') \in Nat /\ DateOf(now) <= DateOf(now')
  BY <1>1, DateOfMonotone
<1>3. ASSUME NEW h \in Requests, status[h] # "None"
      PROVE  /\ acceptUntill[h] \in Nat /\ acceptUntill'[h] = acceptUntill[h]
             /\ deliveryTime[h] \in Nat /\ deliveryTime'[h] = deliveryTime[h]
  BY <1>3 DEF SafetyInv, TypeOK, DatesStep
<1>4. ASSUME NEW h \in Requests, status[h] # "None", NEW s, Due(s, h)
      PROVE  /\ s = "expire"  => acceptUntill'[h] < DateOf(now')
             /\ s = "deliver" => deliveryTime'[h] <= now'
             /\ s = "remind"  => deliveryTime'[h] + Day < now'
             /\ s \in {"weigh", "close"} => deliveryTime'[h] + 3 * Day < now'
  BY <1>4, <1>1, <1>2, <1>3 DEF Due
<1>5. ListsAreDue'
  <2>1. \A j \in Workers : job'[j].now \in Nat /\ job'[j].todo \subseteq Requests
    BY DEF TypeOK, Job
  <2>2. ASSUME NEW j \in Workers PROVE job'[j].now <= now'
    BY <1>1, <2>1 DEF ListsStep
  <2>3. ASSUME NEW j \in Workers, NEW h \in job'[j].todo
        PROVE  Due(job[j].stage, h)'
    <3>1. h \in Requests /\ status[h] # "None" /\ Due(job'[j].stage, h)
      BY <2>1 DEF ListsStep
    <3>2. QED
      BY <3>1, <1>4 DEF Due, DateOf
  <2>4. QED
    BY <2>2, <2>3 DEF ListsAreDue
<1>6. MissingIsUnused'
  BY DEF SafetyInv, MissingIsUnused, DatesStep, OffersStep, ClosedStep, ListsStep, CallsStep
<1>7. SnapshotsLag'
  BY DEF SafetyInv, SnapshotsLag, SnapshotsStep, OffersStep, OfferStep
<1>8. ASSUME NEW h \in Requests, NEW j \in Workers, h \in job[j].todo
      PROVE  Due(job[j].stage, h) /\ status[h] # "None"
  BY <1>8 DEF SafetyInv, ListsAreDue, MissingIsUnused
<1>9. FinishedIsDue'
  <2> SUFFICES ASSUME NEW h \in Requests, NEW v \in Providers, offerStatus'[h][v] = "Finished"
               PROVE  acceptUntill'[h] < DateOf(now') \/ deliveryTime'[h] <= now'
    BY DEF FinishedIsDue, DateOf
  <2>1. CASE offerStatus[h][v] = "Finished"
    BY <2>1, <1>1, <1>2, <1>3 DEF SafetyInv, FinishedIsDue, MissingIsUnused
  <2>2. CASE offerStatus[h][v] # "Finished"
    <3>1. PICK j \in Workers : job[j].stage \in {"expire", "deliver"} /\ h \in job[j].todo
      BY <2>2 DEF OffersStep
    <3>2. QED
      BY <3>1, <1>8, <1>4
  <2>3. QED
    BY <2>1, <2>2
<1>10. SuccessIsOverdue'
  <2> SUFFICES ASSUME NEW h \in Requests, status'[h] = "CompletedSuccessfully"
               PROVE  deliveryTime'[h] + 3 * Day < now'
    BY DEF SuccessIsOverdue
  <2>1. CASE status[h] = "CompletedSuccessfully"
    BY <2>1, <1>1, <1>3 DEF SafetyInv, SuccessIsOverdue
  <2>2. CASE status[h] # "CompletedSuccessfully"
    <3>1. PICK j \in Workers : job[j].stage = "close" /\ h \in job[j].todo
      BY <2>2 DEF ClosedStep
    <3>2. QED
      BY <3>1, <1>8, <1>4
  <2>3. QED
    BY <2>1, <2>2
<1>11. ReminderIsDue'
  <2> SUFFICES ASSUME NEW h \in Requests, reviewNotificationSent'[h]
               PROVE  deliveryTime'[h] + Day < now'
    BY DEF ReminderIsDue
  <2>1. CASE reviewNotificationSent[h]
    BY <2>1, <1>1, <1>3 DEF SafetyInv, ReminderIsDue, MissingIsUnused
  <2>2. CASE ~reviewNotificationSent[h]
    <3>1. PICK j \in Workers : job[j].stage = "remind" /\ h \in job[j].todo
      BY <2>2 DEF ClosedStep
    <3>2. QED
      BY <3>1, <1>8, <1>4
  <2>3. QED
    BY <2>1, <2>2
<1>12. QED
  BY <1>5, <1>6, <1>7, <1>9, <1>10, <1>11 DEF SafetyInv

-----------------------------------------------------------------------------
(* Every step has these effects. *)

LEMMA JobKept ==
    ASSUME SafetyInv, UNCHANGED job
    PROVE  ListsStep /\ SnapshotsStep
<1>1. \A j \in Workers : job[j].todo \subseteq Requests /\ job[j].bad \subseteq Requests
  BY DEF SafetyInv, TypeOK, Job
<1>2. ListsStep
  BY <1>1 DEF SafetyInv, ListsAreDue, MissingIsUnused, ListsStep
<1>3. SnapshotsStep
  BY DEF SnapshotsStep
<1>4. QED
  BY <1>2, <1>3

\* The calls that were suspended, or fewer, have their rows still.
LEMMA CallsKept ==
    ASSUME SafetyInv, DatesStep,
           \A w \in Handlers : call'[w] = call[w] \/ call'[w] = IdleCall
    PROVE  CallsStep
<1>1. \A w \in Handlers : call[w].op # "idle" => call[w].request \in Requests
  BY DEF SafetyInv, TypeOK, Call, IdleCall
<1>2. \A w \in Handlers : call'[w].op # "idle" => call'[w] = call[w]
  BY DEF IdleCall
<1>3. QED
  BY <1>1, <1>2 DEF SafetyInv, MissingIsUnused, DatesStep, CallsStep

LEMMA SuspendedCalls ==
    ASSUME SafetyInv, DatesStep, NEW w \in Handlers, NEW op, NEW h \in Requests, NEW v,
           status'[h] # "None", Suspend(w, op, h, v)
    PROVE  CallsStep
<1>1. \A u \in Handlers : call[u].op # "idle" => call[u].request \in Requests
  BY DEF SafetyInv, TypeOK, Call, IdleCall
<1>2. call'[w].request = h
  BY DEF Suspend, SafetyInv, TypeOK
<1>3. \A u \in Handlers \ {w} : call'[u] = call[u]
  BY DEF Suspend, SafetyInv, TypeOK
<1>4. QED
  BY <1>1, <1>2, <1>3 DEF SafetyInv, MissingIsUnused, DatesStep, CallsStep

\* A handler writes one offer: a new row, or the new status of a row there is.
LEMMA OneOfferStep ==
    ASSUME SafetyInv, NEW h \in Requests, NEW v \in Providers, status[h] # "None",
           NEW s \in {"Pending", "Active", "Canceled"},
           s = "Pending" => offerStatus[h][v] = "None",
           offerStatus' = [offerStatus EXCEPT ![h][v] = s]
    PROVE  OffersStep
<1>1. ASSUME NEW g \in Requests, NEW u \in Providers
      PROVE  offerStatus'[g][u] = IF g = h /\ u = v THEN s ELSE offerStatus[g][u]
  BY DEF SafetyInv, TypeOK
<1>2. QED
  BY <1>1 DEF OffersStep, OfferStep

LEMMA UserEffects ==
    ASSUME SafetyInv, UserStep
    PROVE  Effects
<1> USE DEF SafetyInv, TypeOK
<1>1. UNCHANGED <<now, job, reviewNotificationSent>> => TimeStep /\ ListsStep /\ SnapshotsStep
  BY JobKept DEF TimeStep
<1>2. ASSUME NEW h \in Requests, NEW accept \in Dates, NEW delivery \in Dates,
             CreateRow(h, accept, delivery), UNCHANGED offerStatus
      PROVE  DatesStep /\ OffersStep /\ ClosedStep /\ status'[h] # "None"
  BY <1>2 DEF CreateRow, DatesStep, OffersStep, ClosedStep
<1>3. ASSUME NEW h \in Requests, NEW accept \in Dates, NEW delivery \in Dates,
             Create(h, accept, delivery)
      PROVE  Effects
  BY <1>1, <1>2, <1>3, CallsKept DEF Create, CreateRow, Effects
<1>4. ASSUME NEW w \in Handlers, NEW h \in Requests, NEW v \in Providers,
             NEW accept \in Dates, NEW delivery \in Dates,
             CreatePrivate(w, h, v, accept, delivery)
      PROVE  Effects
  BY <1>1, <1>2, <1>4, SuspendedCalls DEF CreatePrivate, CreateRow, Effects
<1>5. ASSUME NEW h \in Requests, Cancel(h)
      PROVE  Effects
  <2>1. DatesStep /\ ClosedStep
    BY <1>5 DEF Cancel, DatesStep, ClosedStep
  <2>2. OffersStep
    BY <1>5 DEF Cancel, OffersStep, OfferStep
  <2>3. QED
    BY <1>1, <1>5, <2>1, <2>2, CallsKept DEF Cancel, Effects
<1>6. ASSUME NEW h \in Requests, NEW v \in Providers,
             \/ ApproveProviderRequest(h, v)
             \/ CancelProviderRequest(h, v)
      PROVE  Effects
  <2>1. DatesStep /\ ClosedStep
    BY <1>6 DEF ApproveProviderRequest, CancelProviderRequest, ApproveRow, CancelRow,
                DatesStep, ClosedStep
  <2>2. OffersStep
    BY <1>6, OneOfferStep
       DEF ApproveProviderRequest, CancelProviderRequest, ApproveRow, CancelRow, MissingIsUnused
  <2>3. QED
    BY <1>1, <1>6, <2>1, <2>2, CallsKept
       DEF ApproveProviderRequest, CancelProviderRequest, ApproveRow, CancelRow, Effects
<1>7. ASSUME NEW w \in Handlers, NEW h \in Requests, NEW v \in Providers,
             BeginOffer(w, h, v) \/ BeginCancelOffer(w, h, v) \/ BeginReview(w, h, v)
      PROVE  Effects
  <2>1. UNCHANGED <<now, dbVars, job>> /\ \E op : Suspend(w, op, h, v)
    BY <1>7 DEF BeginOffer, BeginCancelOffer, BeginReview
  <2>2. DatesStep /\ OffersStep /\ ClosedStep
    BY <2>1 DEF dbVars, requestVars, DatesStep, OffersStep, ClosedStep
  <2>3. status'[h] # "None"
    BY <1>7 DEF BeginOffer, BeginCancelOffer, BeginReview, dbVars, requestVars, MissingIsUnused
  <2>4. QED
    BY <1>1, <2>1, <2>2, <2>3, SuspendedCalls DEF dbVars, requestVars, Effects
<1>8. QED
  BY <1>3, <1>4, <1>5, <1>6, <1>7 DEF UserStep, HorecaCall, PrivateCall, ProviderCall, ReviewCall

LEMMA HandlerEffects ==
    ASSUME SafetyInv, NEW w \in Handlers, HandlerStep(w)
    PROVE  Effects
<1> DEFINE h == call[w].request
           v == call[w].provider
<1>1. UNCHANGED <<now, job, acceptUntill, deliveryTime, reviewNotificationSent>>
  BY DEF HandlerStep, PrivateOffer, PrivateApprove, InsertOffer, CancelActiveOffer,
         CancelOtherOffer, InsertReview, ApproveRow, CancelRow, requestVars
<1>2. call[w].op # "idle" => h \in Requests /\ v \in Providers /\ status[h] # "None"
  BY DEF SafetyInv, TypeOK, Call, IdleCall, MissingIsUnused
<1>3. TimeStep /\ ListsStep /\ SnapshotsStep
  BY <1>1, JobKept DEF TimeStep, SafetyInv, TypeOK
<1>4. ASSUME \/ UNCHANGED status
             \/ \E g \in Requests, s \in {"Active", "Pending"} : status' = [status EXCEPT ![g] = s]
      PROVE  DatesStep /\ ClosedStep
  BY <1>1, <1>4 DEF DatesStep, ClosedStep, SafetyInv, TypeOK
<1>5. UNCHANGED offerStatus => OffersStep
  BY DEF OffersStep
<1>6. ASSUME NEW op, Resume(w, op)
      PROVE  \A u \in Handlers : call'[u] = call[u] \/ call'[u] = IdleCall
  BY <1>6 DEF Resume, SafetyInv, TypeOK
<1>7. CASE PrivateOffer(w)
  <2>1. DatesStep /\ ClosedStep
    BY <1>7, <1>4 DEF PrivateOffer, requestVars
  <2>2. \/ /\ offerStatus[h][v] = "None"
           /\ offerStatus' = [offerStatus EXCEPT ![h][v] = "Pending"]
        \/ UNCHANGED offerStatus
    BY <1>7, Zenon DEF PrivateOffer
  <2>3. OffersStep
    BY <1>7, <1>2, <1>5, <2>2, OneOfferStep DEF PrivateOffer
  <2>4. CallsStep
    <3>1. /\ \A u \in Handlers \ {w} : call'[u] = call[u]
          /\ call'[w].op # "idle" => call'[w].request = h
      BY <1>7, <1>2 DEF PrivateOffer, SafetyInv, TypeOK, Call, IdleCall
    <3>2. \A u \in Handlers : call[u].op # "idle" => call[u].request \in Requests
      BY DEF SafetyInv, TypeOK, Call, IdleCall
    <3>3. QED
      BY <1>7, <1>2, <2>1, <3>1, <3>2
         DEF PrivateOffer, SafetyInv, MissingIsUnused, DatesStep, CallsStep
  <2>5. QED
    BY <1>3, <2>1, <2>3, <2>4 DEF Effects
<1>8. CASE PrivateApprove(w) \/ CancelActiveOffer(w)
  <2>1. DatesStep /\ ClosedStep
    BY <1>8, <1>2, <1>4 DEF PrivateApprove, CancelActiveOffer, Resume, ApproveRow, CancelRow
  <2>2. OffersStep
    BY <1>8, <1>2, OneOfferStep
       DEF PrivateApprove, CancelActiveOffer, Resume, ApproveRow, CancelRow
  <2>3. QED
    BY <1>8, <1>3, <1>6, <2>1, <2>2, CallsKept DEF PrivateApprove, CancelActiveOffer, Effects
<1>9. CASE InsertOffer(w) \/ CancelOtherOffer(w)
  <2>1. DatesStep /\ ClosedStep
    BY <1>9, <1>4 DEF InsertOffer, CancelOtherOffer, requestVars
  <2>2. OffersStep
    BY <1>9, <1>2, <1>5, OneOfferStep DEF InsertOffer, CancelOtherOffer, Resume
  <2>3. QED
    BY <1>9, <1>3, <1>6, <2>1, <2>2, CallsKept DEF InsertOffer, CancelOtherOffer, Effects
<1>10. ASSUME NEW isDelivered \in {0, 1}, NEW isSuccessfully \in {0, 1},
              InsertReview(w, isDelivered, isSuccessfully)
       PROVE  Effects
  <2>1. DatesStep /\ ClosedStep /\ OffersStep
    BY <1>10, <1>4, <1>5 DEF InsertReview, requestVars
  <2>2. QED
    BY <1>10, <1>3, <1>6, <2>1, CallsKept DEF InsertReview, Effects
<1>11. QED
  BY <1>7, <1>8, <1>9, <1>10 DEF HandlerStep

\* A step of one job leaves the lists and snapshots of the others as they were.
LEMMA OneJobStep ==
    ASSUME SafetyInv, NEW j \in Workers, NEW new, job' = [job EXCEPT ![j] = new],
           new.now <= now,
           \A h \in new.todo : Due(new.stage, h),
           \A h \in new.todo \cup new.bad : h \in Requests /\ status[h] # "None",
           \A h \in Requests, v \in Providers :
               new.snapshot[h][v] \in {"None", job[j].snapshot[h][v], offerStatus[h][v]}
    PROVE  ListsStep /\ SnapshotsStep
<1>1. job'[j] = new /\ \A i \in Workers \ {j} : job'[i] = job[i]
  BY DEF SafetyInv, TypeOK
<1>2. \A i \in Workers : job[i].todo \subseteq Requests /\ job[i].bad \subseteq Requests
  BY DEF SafetyInv, TypeOK, Job
<1>3. ListsStep
  BY <1>1, <1>2 DEF ListsStep, SafetyInv, ListsAreDue, MissingIsUnused
<1>4. SnapshotsStep
  BY <1>1 DEF SnapshotsStep
<1>5. QED
  BY <1>3, <1>4

\* The fields a job keeps when only its list changes.
LEMMA ListedRows ==
    ASSUME SafetyInv, NEW j \in Workers
    PROVE  /\ job[j] \in Job
           /\ job[j].now <= now
           /\ \A h \in job[j].todo : Due(job[j].stage, h)
           /\ \A h \in job[j].todo \cup job[j].bad : h \in Requests /\ status[h] # "None"
  BY DEF SafetyInv, TypeOK, Job, ListsAreDue, MissingIsUnused

LEMMA SnapshotRows ==
    ASSUME NEW list, NEW h \in Requests, NEW v \in Providers
    PROVE  Snapshot(list)[h][v] \in {"None", offerStatus[h][v]}
  BY DEF Snapshot

LEMMA WrittenStep ==
    ASSUME SafetyInv, NEW j \in Workers, NEW h \in Requests, Written(j, h)
    PROVE  ListsStep /\ SnapshotsStep
<1> DEFINE new == [job[j] EXCEPT !.todo = @ \ {h},
                                 !.snapshot[h] = [v \in Providers |-> "None"]]
<1>1. job[j] \in Job
  BY ListedRows
<1>2. /\ new.now = job[j].now /\ new.stage = job[j].stage /\ new.bad = job[j].bad
      /\ new.todo = job[j].todo \ {h}
      /\ \A g \in Requests, v \in Providers :
             new.snapshot[g][v] \in {"None", job[j].snapshot[g][v]}
  BY <1>1 DEF Job
<1>3. job' = [job EXCEPT ![j] = new]
  BY <1>1 DEF Written, SafetyInv, TypeOK
<1> HIDE DEF new
<1>4. /\ new.now <= now
      /\ \A g \in new.todo : Due(new.stage, g)
      /\ \A g \in new.todo \cup new.bad : g \in Requests /\ status[g] # "None"
  BY <1>2, ListedRows
<1>5. \A g \in Requests, v \in Providers :
          new.snapshot[g][v] \in {"None", job[j].snapshot[g][v], offerStatus[g][v]}
  BY <1>2
<1>6. QED
  BY <1>3, <1>4, <1>5, OneJobStep

LEMMA ShorterListStep ==
    ASSUME SafetyInv, NEW j \in Workers, NEW h \in Requests,
           \/ job' = [job EXCEPT ![j].todo = @ \ {h}]
           \/ job' = [job EXCEPT ![j].bad = @ \ {h}]
    PROVE  ListsStep /\ SnapshotsStep
<1>1. job[j] \in Job
  BY ListedRows
<1>2. PICK new : /\ job' = [job EXCEPT ![j] = new]
                 /\ new \in {[job[j] EXCEPT !.todo = @ \ {h}], [job[j] EXCEPT !.bad = @ \ {h}]}
  OBVIOUS
<1>3. /\ new.now = job[j].now /\ new.stage = job[j].stage /\ new.snapshot = job[j].snapshot
      /\ new.todo \subseteq job[j].todo /\ new.bad \subseteq job[j].bad
  BY <1>1, <1>2 DEF Job
<1>4. /\ new.now <= now
      /\ \A g \in new.todo : Due(new.stage, g)
      /\ \A g \in new.todo \cup new.bad : g \in Requests /\ status[g] # "None"
  BY <1>3, ListedRows
<1>5. \A g \in Requests, v \in Providers :
          new.snapshot[g][v] \in {"None", job[j].snapshot[g][v], offerStatus[g][v]}
  BY <1>3
<1>6. QED
  BY <1>2, <1>4, <1>5, OneJobStep

LEMMA EndedJobStep ==
    ASSUME SafetyInv, NEW j \in Workers, job' = [job EXCEPT ![j] = IdleJob]
    PROVE  ListsStep /\ SnapshotsStep
<1>1. /\ IdleJob.now <= now /\ IdleJob.todo = {} /\ IdleJob.bad = {}
      /\ \A h \in Requests, v \in Providers : IdleJob.snapshot[h][v] = "None"
  BY DEF IdleJob, NoOffers, SafetyInv, TypeOK
<1>2. /\ \A h \in IdleJob.todo : Due(IdleJob.stage, h)
      /\ \A h \in IdleJob.todo \cup IdleJob.bad : h \in Requests /\ status[h] # "None"
      /\ \A h \in Requests, v \in Providers :
             IdleJob.snapshot[h][v] \in {"None", job[j].snapshot[h][v], offerStatus[h][v]}
  BY <1>1
<1>3. QED
  BY <1>1, <1>2, OneJobStep

\* What Expire and Deliver write over the offers of h.
LEMMA OffersClosedStep ==
    ASSUME SafetyInv, NEW j \in Workers, NEW h \in Requests, h \in job[j].todo,
           job[j].stage \in {"expire", "deliver"},
           offerStatus' = [offerStatus EXCEPT ![h] = OffersClosed(j, h)]
    PROVE  OffersStep
<1>1. ASSUME NEW v \in Providers
      PROVE  /\ OffersClosed(j, h)[v] # offerStatus[h][v] =>
                    OfferStep(offerStatus[h][v], OffersClosed(j, h)[v])
  <2>1. job[j].snapshot[h][v] \in OfferOrNone
    BY DEF SafetyInv, TypeOK, Job
  <2>2. CASE job[j].snapshot[h][v] = "None"
    BY <2>2 DEF OffersClosed
  <2>3. CASE job[j].snapshot[h][v] # "None"
    <3>1. OffersClosed(j, h)[v] = ClosedOffer(job[j].snapshot[h][v])
      BY <2>3 DEF OffersClosed
    <3>2. /\ ClosedOffer(job[j].snapshot[h][v]) \in {"Canceled", "Finished"}
          /\ ClosedOffer(job[j].snapshot[h][v]) = "Finished" =>
                 job[j].snapshot[h][v] \in {"Active", "Finished"}
      BY <2>1, <2>3 DEF ClosedOffer, OfferOrNone, OfferStatus
    <3>3. offerStatus[h][v] \in OfferOrNone
      BY DEF SafetyInv, TypeOK
    <3>4. QED
      BY <3>1, <3>2, <3>3 DEF OfferStep, SafetyInv, SnapshotsLag, OfferOrNone, OfferStatus
  <2>4. QED
    BY <2>2, <2>3
<1>2. /\ offerStatus'[h] = OffersClosed(j, h)
      /\ \A g \in Requests \ {h} : offerStatus'[g] = offerStatus[g]
  BY DEF SafetyInv, TypeOK
<1>3. QED
  BY <1>1, <1>2, ListedRows DEF OffersStep

LEMMA JobStartEffects ==
    ASSUME SafetyInv, NEW j \in Workers, StartPastRequests(j) \/ StartReviewNotification(j)
    PROVE  Effects
<1>1. UNCHANGED <<now, dbVars, call>>
  BY DEF StartPastRequests, StartReviewNotification
<1>2. TimeStep /\ DatesStep /\ OffersStep /\ ClosedStep
  BY <1>1 DEF TimeStep, DatesStep, OffersStep, ClosedStep, dbVars, requestVars, SafetyInv, TypeOK
<1>3. CallsStep
  BY <1>1, <1>2, CallsKept
<1>4. ListsStep /\ SnapshotsStep
  <2>1. CASE StartPastRequests(j)
    <3> DEFINE new == [stage |-> "expire", now |-> now, todo |-> Expired(now), bad |-> {},
                       snapshot |-> Snapshot(Expired(now))]
    <3>1. /\ job' = [job EXCEPT ![j] = new]
          /\ new.now <= now
          /\ \A h \in new.todo : Due(new.stage, h)
      BY <2>1 DEF StartPastRequests, Expired, Due, SafetyInv, TypeOK
    <3>2. \A h \in new.todo \cup new.bad : h \in Requests /\ status[h] # "None"
      BY DEF Expired
    <3>3. \A h \in Requests, v \in Providers :
              new.snapshot[h][v] \in {"None", job[j].snapshot[h][v], offerStatus[h][v]}
      BY SnapshotRows
    <3> HIDE DEF new
    <3>4. QED
      BY <3>1, <3>2, <3>3, OneJobStep
  <2>2. CASE StartReviewNotification(j)
    <3> DEFINE new == [job[j] EXCEPT !.stage = "remind", !.todo = ToRemind]
    <3>1. job[j] \in Job /\ job[j].stage = "idle" /\ job' = [job EXCEPT ![j] = new]
      BY <2>2, ListedRows DEF StartReviewNotification
    <3>2. /\ new.now = job[j].now /\ new.snapshot = job[j].snapshot /\ new.bad = job[j].bad
          /\ new.stage = "remind" /\ new.todo = ToRemind
      BY <3>1 DEF Job
    <3>3. \A h \in ToRemind : h \in Requests /\ status[h] # "None" /\ Due("remind", h)
      BY DEF ToRemind, Due
    <3> HIDE DEF new
    <3>4. QED
      BY <3>1, <3>2, <3>3, ListedRows, OneJobStep
  <2>3. QED
    BY <2>1, <2>2
<1>5. QED
  BY <1>2, <1>3, <1>4 DEF Effects

LEMMA JobEffects ==
    ASSUME SafetyInv, NEW j \in Workers, JobStep(j)
    PROVE  Effects
<1>1. UNCHANGED <<now, call, acceptUntill, deliveryTime>> /\ TimeStep
  BY DEF JobStep, Expire, Deliver, Remind, CloseSuccessfully, CloseUnsuccessfully,
         ReadDelivered, ReadSuccessful, ReadUnsuccessful, EndJob, dbVars, requestVars,
         TimeStep, SafetyInv, TypeOK
<1>2. DatesStep => CallsStep
  BY <1>1, CallsKept
<1>3. UNCHANGED offerStatus => OffersStep
  BY DEF OffersStep
<1>4. ASSUME NEW h \in Requests, Expire(j, h) \/ Deliver(j, h)
      PROVE  Effects
  <2>1. DatesStep /\ ClosedStep
    BY <1>1, <1>4 DEF Expire, Deliver, DatesStep, ClosedStep, SafetyInv, TypeOK
  <2>2. OffersStep
    BY <1>4, OffersClosedStep DEF Expire, Deliver
  <2>3. ListsStep /\ SnapshotsStep
    BY <1>4, WrittenStep DEF Expire, Deliver
  <2>4. QED
    BY <1>1, <1>2, <2>1, <2>2, <2>3 DEF Effects
<1>5. ASSUME NEW h \in Requests,
             Remind(j, h) \/ CloseSuccessfully(j, h) \/ CloseUnsuccessfully(j, h)
      PROVE  Effects
  <2>1. DatesStep /\ ClosedStep
    BY <1>1, <1>5 DEF Remind, CloseSuccessfully, CloseUnsuccessfully, DatesStep, ClosedStep,
                      SafetyInv, TypeOK
  <2>2. OffersStep
    BY <1>3, <1>5 DEF Remind, CloseSuccessfully, CloseUnsuccessfully
  <2>3. ListsStep /\ SnapshotsStep
    BY <1>5, ShorterListStep DEF Remind, CloseSuccessfully, CloseUnsuccessfully
  <2>4. QED
    BY <1>1, <1>2, <2>1, <2>2, <2>3 DEF Effects
<1>6. ASSUME UNCHANGED dbVars
      PROVE  DatesStep /\ OffersStep /\ ClosedStep
  BY <1>6 DEF dbVars, requestVars, DatesStep, OffersStep, ClosedStep
<1>7. CASE ReadDelivered(j)
  <2> DEFINE list == Delivered(job[j].now)
             new == [stage |-> "deliver", now |-> 0, todo |-> list, bad |-> {},
                     snapshot |-> Snapshot(list)]
  <2>1. job' = [job EXCEPT ![j] = new] /\ UNCHANGED dbVars
    BY <1>7 DEF ReadDelivered
  <2>2. job[j].now \in Nat /\ now \in Nat /\ job[j].now <= now
    BY ListedRows DEF Job, SafetyInv, TypeOK
  <2>3. \A h \in list : h \in Requests /\ status[h] # "None" /\ Due("deliver", h)
    BY <2>2 DEF Delivered, Due, SafetyInv, TypeOK
  <2>4. \A h \in Requests, v \in Providers :
            new.snapshot[h][v] \in {"None", job[j].snapshot[h][v], offerStatus[h][v]}
    BY SnapshotRows
  <2> HIDE DEF list
  <2>5. /\ new.now <= now
        /\ \A h \in new.todo : Due(new.stage, h)
        /\ \A h \in new.todo \cup new.bad : h \in Requests /\ status[h] # "None"
    BY <2>2, <2>3
  <2> HIDE DEF new
  <2>6. ListsStep /\ SnapshotsStep
    BY <2>1, <2>4, <2>5, OneJobStep
  <2>7. QED
    BY <1>1, <1>2, <1>6, <2>1, <2>6 DEF Effects
<1>8. CASE ReadSuccessful(j)
  <2> DEFINE new == [job[j] EXCEPT !.stage = "weigh", !.now = now, !.todo = Successful(now)]
  <2>1. job' = [job EXCEPT ![j] = new] /\ UNCHANGED dbVars
    BY <1>8 DEF ReadSuccessful
  <2>2. /\ new.now = now /\ new.stage = "weigh" /\ new.bad = job[j].bad
        /\ new.snapshot = job[j].snapshot /\ new.todo = Successful(now)
    BY ListedRows DEF Job
  <2>3. \A h \in Successful(now) : h \in Requests /\ status[h] # "None" /\ Due("weigh", h)
    BY DEF Successful, Overdue, Due
  <2>4. now <= now
    BY DEF SafetyInv, TypeOK
  <2> HIDE DEF new
  <2>5. ListsStep /\ SnapshotsStep
    BY <2>1, <2>2, <2>3, <2>4, ListedRows, OneJobStep
  <2>6. QED
    BY <1>1, <1>2, <1>6, <2>1, <2>5 DEF Effects
<1>9. CASE ReadUnsuccessful(j)
  <2> DEFINE list == Unsuccessful(job[j].now)
             new == [job[j] EXCEPT !.stage = "close", !.now = 0, !.bad = list]
  <2>1. job' = [job EXCEPT ![j] = new] /\ UNCHANGED dbVars /\ job[j].stage = "weigh"
    BY <1>9 DEF ReadUnsuccessful
  <2>2. /\ new.now = 0 /\ new.stage = "close" /\ new.bad = list
        /\ new.snapshot = job[j].snapshot /\ new.todo = job[j].todo
    BY ListedRows DEF Job
  <2>3. \A h \in list : h \in Requests /\ status[h] # "None"
    BY DEF Unsuccessful, Overdue
  <2>4. \A h \in job[j].todo : h \in Requests /\ status[h] # "None" /\ Due("close", h)
    BY <2>1, ListedRows DEF Due
  <2>5. 0 <= now
    BY DEF SafetyInv, TypeOK
  <2> HIDE DEF list, new
  <2>6. ListsStep /\ SnapshotsStep
    BY <2>1, <2>2, <2>3, <2>4, <2>5, OneJobStep
  <2>7. QED
    BY <1>1, <1>2, <1>6, <2>1, <2>6 DEF Effects
<1>10. CASE EndJob(j)
  <2>1. job' = [job EXCEPT ![j] = IdleJob] /\ UNCHANGED dbVars
    BY <1>10 DEF EndJob
  <2>2. ListsStep /\ SnapshotsStep
    BY <2>1, EndedJobStep
  <2>3. QED
    BY <1>1, <1>2, <1>6, <2>1, <2>2 DEF Effects
<1>11. QED
  BY <1>4, <1>5, <1>7, <1>8, <1>9, <1>10 DEF JobStep

LEMMA FaultEffects ==
    ASSUME SafetyInv, FaultStep
    PROVE  Effects
<1>1. UNCHANGED <<now, dbVars>>
  BY DEF FaultStep, CallFails, JobFails, UpdateFails, Crash
<1>2. TimeStep /\ DatesStep /\ OffersStep /\ ClosedStep
  BY <1>1 DEF TimeStep, DatesStep, OffersStep, ClosedStep, dbVars, requestVars, SafetyInv, TypeOK
<1>3. CallsStep
  <2>1. \A w \in Handlers : call'[w] = call[w] \/ call'[w] = IdleCall
    BY DEF FaultStep, CallFails, JobFails, UpdateFails, Crash, SafetyInv, TypeOK
  <2>2. QED
    BY <1>2, <2>1, CallsKept
<1>4. ListsStep /\ SnapshotsStep
  <2>1. CASE \E j \in Workers, h \in Requests : UpdateFails(j, h)
    BY <2>1, WrittenStep, ShorterListStep DEF UpdateFails
  <2>2. CASE \E j \in Workers : JobFails(j)
    BY <2>2, EndedJobStep DEF JobFails
  <2>3. CASE Crash
    <3>1. \A j \in Workers : job'[j] = IdleJob
      BY <2>3 DEF Crash
    <3>2. /\ IdleJob.now <= now /\ IdleJob.todo = {} /\ IdleJob.bad = {}
          /\ \A h \in Requests, v \in Providers : IdleJob.snapshot[h][v] = "None"
      BY DEF IdleJob, NoOffers, SafetyInv, TypeOK
    <3>3. QED
      BY <3>1, <3>2 DEF ListsStep, SnapshotsStep
  <2>4. CASE \E w \in Handlers : CallFails(w)
    <3>1. UNCHANGED job
      BY <2>4 DEF CallFails
    <3>2. QED
      BY <3>1, JobKept
  <2>5. QED
    BY <2>1, <2>2, <2>3, <2>4 DEF FaultStep
<1>5. QED
  BY <1>2, <1>3, <1>4 DEF Effects

LEMMA TickEffects ==
    ASSUME SafetyInv, Tick \/ UNCHANGED vars
    PROVE  Effects
<1>1. UNCHANGED <<dbVars, call, job>> /\ TimeStep
  BY DEF Tick, vars, TimeStep, SafetyInv, TypeOK
<1>2. DatesStep /\ OffersStep /\ ClosedStep
  BY <1>1 DEF DatesStep, OffersStep, ClosedStep, dbVars, requestVars
<1>3. QED
  BY <1>1, <1>2, CallsKept, JobKept DEF Effects

-----------------------------------------------------------------------------

LEMMA InitSafety == Init => SafetyInv
<1> SUFFICES ASSUME Init PROVE SafetyInv
  OBVIOUS
<1>1. TypeOK
  BY InitType
<1>2. ListsAreDue /\ MissingIsUnused /\ SnapshotsLag
  BY DEF Init, ListsAreDue, MissingIsUnused, SnapshotsLag, IdleJob, IdleCall, NoOffers
<1>3. FinishedIsDue /\ SuccessIsOverdue /\ ReminderIsDue
  BY DEF Init, FinishedIsDue, SuccessIsOverdue, ReminderIsDue, NoOffers
<1>4. QED
  BY <1>1, <1>2, <1>3 DEF SafetyInv

LEMMA StepEffects ==
    ASSUME SafetyInv, [Next]_vars
    PROVE  Effects
  BY UserEffects, HandlerEffects, JobStartEffects, JobEffects, FaultEffects, TickEffects DEF Next

\* The strengthened invariant holds in every reachable state.
THEOREM Safety == Spec => []SafetyInv
<1>1. SafetyInv /\ [Next]_vars => SafetyInv'
  <2> SUFFICES ASSUME SafetyInv, [Next]_vars PROVE SafetyInv'
    OBVIOUS
  <2>1. TypeOK'
    BY TypeStep DEF SafetyInv
  <2>2. QED
    BY <2>1, StepEffects, EffectsPreserve
<1>2. QED
  BY InitSafety, <1>1, PTL DEF Spec

\* No list a job has read long ago finishes an offer before the accept date or
\* the delivery of its request is over.
THEOREM FinishedDue == Spec => []FinishedIsDue
<1>1. SafetyInv => FinishedIsDue
  BY DEF SafetyInv
<1>2. QED
  BY <1>1, Safety, PTL

\* A request is completed with success only three days after its delivery.
THEOREM SuccessOverdue == Spec => []SuccessIsOverdue
<1>1. SafetyInv => SuccessIsOverdue
  BY DEF SafetyInv
<1>2. QED
  BY <1>1, Safety, PTL

\* A review is asked for only a day after the delivery.
THEOREM ReminderDue == Spec => []ReminderIsDue
<1>1. SafetyInv => ReminderIsDue
  BY DEF SafetyInv
<1>2. QED
  BY <1>1, Safety, PTL

\* No step, of any handler or job, takes an offer back to Pending or finishes
\* one that was never chosen.
THEOREM OffersOnlyAdvance == Spec => OffersAdvance
<1>1. SafetyInv /\ [Next]_vars =>
        [\A h \in Requests, v \in Providers :
            offerStatus'[h][v] # offerStatus[h][v] =>
                OfferStep(offerStatus[h][v], offerStatus'[h][v])]_offerStatus
  BY StepEffects DEF Effects, OffersStep
<1>2. QED
  BY <1>1, Safety, PTL DEF Spec, OffersAdvance

-----------------------------------------------------------------------------
(* The histories.  A read status was held, a list for success had a        *)
(* finished offer, a review that will be inserted has an offer that was    *)
(* finished.                                                               *)

\* The status of an offer is part of its history, and only a missing row has none.
HeldNow ==
    \A h \in Requests, v \in Providers :
        IF offerStatus[h][v] = "None" THEN held[h][v] = {}
                                      ELSE offerStatus[h][v] \in held[h][v]

\* What a job has read of an offer is part of its history.
HeldRead ==
    \A j \in Workers, h \in Requests, v \in Providers :
        job[j].snapshot[h][v] \in held[h][v] \cup {"None"}

WasFinished(h) == \E v \in Providers : "Finished" \in held[h][v]

ListsWereFinished ==
    \A j \in Workers : job[j].stage \in {"weigh", "close"} =>
        \A h \in job[j].todo : WasFinished(h)

\* A handler that has read an offer knows what it once was.
CallsWereRead ==
    \A w \in Handlers :
        /\ call[w].op = "insertReview" => "Finished" \in held[call[w].request][call[w].provider]
        /\ call[w].op = "cancelOtherOffer" => held[call[w].request][call[w].provider] # {}

HistoryInv ==
    /\ SafetyInv
    /\ held \in [Requests -> [Providers -> SUBSET OfferStatus]]
    /\ HeldNow
    /\ HeldRead
    /\ ListsWereFinished
    /\ CallsWereRead
    /\ OnlyChosenFinish
    /\ OnlyFinishedReviewed
    /\ SuccessWasDelivered

-----------------------------------------------------------------------------
(* Where a step takes what it writes from. *)

FinishedStep ==
    \A h \in Requests, v \in Providers :
        offerStatus'[h][v] = "Finished" =>
            \/ offerStatus[h][v] = "Finished"
            \/ \E j \in Workers : job[j].snapshot[h][v] \in {"Active", "Finished"}

CalledStep ==
    \A w \in Handlers : call'[w].op \in {"insertReview", "cancelOtherOffer"} =>
        \/ call'[w] = call[w]
        \/ /\ call'[w].request \in Requests /\ call'[w].provider \in Providers
           /\ offerStatus[call'[w].request][call'[w].provider] # "None"
           /\ call'[w].op = "insertReview" =>
                  offerStatus[call'[w].request][call'[w].provider] = "Finished"

ReviewsStep ==
    \A r \in reviews' :
        \/ r \in reviews
        \/ \E w \in Handlers : /\ call[w].op = "insertReview"
                               /\ r.request = call[w].request /\ r.provider = call[w].provider

WonListsStep ==
    \A j \in Workers : job'[j].stage \in {"weigh", "close"} =>
        \A h \in job'[j].todo :
            \/ job[j].stage \in {"weigh", "close"} /\ h \in job[j].todo
            \/ Finished(h) # {}

Sources ==
    /\ FinishedStep
    /\ CalledStep
    /\ ReviewsStep
    /\ WonListsStep

LEMMA HeldGrows ==
    ASSUME HistoryInv, TypeOK', Remember
    PROVE  /\ held' \in [Requests -> [Providers -> SUBSET OfferStatus]]
           /\ \A h \in Requests, v \in Providers :
                  held'[h][v] = held[h][v] \cup ({offerStatus'[h][v]} \ {"None"})
  BY DEF HistoryInv, Remember, TypeOK, OfferOrNone

\* A step that takes what it writes from there preserves the invariant.
LEMMA SourcesPreserve ==
    ASSUME HistoryInv, SafetyInv', Remember, Effects, Sources
    PROVE  HistoryInv'
<1> USE DEF HistoryInv
<1>1. /\ held' \in [Requests -> [Providers -> SUBSET OfferStatus]]
      /\ \A h \in Requests, v \in Providers :
             held'[h][v] = held[h][v] \cup ({offerStatus'[h][v]} \ {"None"})
  BY HeldGrows DEF SafetyInv
<1>2. HeldNow'
  BY <1>1 DEF HeldNow, Effects, OffersStep, OfferStep
<1>3. HeldRead'
  BY <1>1 DEF HeldRead, HeldNow, Effects, SnapshotsStep
<1>4. ListsWereFinished'
  <2> SUFFICES ASSUME NEW j \in Workers, job'[j].stage \in {"weigh", "close"},
                      NEW h \in job'[j].todo
               PROVE  WasFinished(h)'
    BY DEF ListsWereFinished
  <2>1. h \in Requests
    BY DEF SafetyInv, TypeOK, Job
  <2>2. \E v \in Providers : "Finished" \in held[h][v]
    BY <2>1 DEF Sources, WonListsStep, ListsWereFinished, WasFinished, Finished, HeldNow
  <2>3. QED
    BY <1>1, <2>1, <2>2 DEF WasFinished
<1>5. CallsWereRead'
  <2> SUFFICES ASSUME NEW w \in Handlers, call'[w].op \in {"insertReview", "cancelOtherOffer"}
               PROVE  /\ call'[w].op = "insertReview" =>
                             "Finished" \in held'[call'[w].request][call'[w].provider]
                      /\ held'[call'[w].request][call'[w].provider] # {}
    BY DEF CallsWereRead
  <2>1. call'[w].request \in Requests /\ call'[w].provider \in Providers
    BY DEF SafetyInv, TypeOK, Call, IdleCall
  <2>2. /\ call'[w].op = "insertReview" =>
               "Finished" \in held[call'[w].request][call'[w].provider]
        /\ held[call'[w].request][call'[w].provider] # {}
    BY <2>1 DEF Sources, CalledStep, CallsWereRead, HeldNow
  <2>3. QED
    BY <1>1, <2>1, <2>2
<1>6. OnlyChosenFinish'
  <2> SUFFICES ASSUME NEW h \in Requests, NEW v \in Providers, "Finished" \in held'[h][v]
               PROVE  "Active" \in held'[h][v]
    BY DEF OnlyChosenFinish
  <2>1. CASE "Finished" \in held[h][v]
    BY <1>1, <2>1 DEF OnlyChosenFinish
  <2>2. CASE "Finished" \notin held[h][v]
    <3>1. offerStatus'[h][v] = "Finished" /\ offerStatus[h][v] # "Finished"
      BY <1>1, <2>2 DEF HeldNow
    <3>2. PICK j \in Workers : job[j].snapshot[h][v] \in {"Active", "Finished"}
      BY <3>1 DEF Sources, FinishedStep
    <3>3. QED
      BY <1>1, <2>2, <3>2 DEF HeldRead
  <2>3. QED
    BY <2>1, <2>2
<1>7. OnlyFinishedReviewed'
  <2> SUFFICES ASSUME NEW r \in reviews'
               PROVE  "Finished" \in held'[r.request][r.provider]
    BY DEF OnlyFinishedReviewed
  <2>1. r.request \in Requests /\ r.provider \in Providers
    BY DEF SafetyInv, TypeOK, Review
  <2>2. "Finished" \in held[r.request][r.provider]
    BY DEF Sources, ReviewsStep, OnlyFinishedReviewed, CallsWereRead
  <2>3. QED
    BY <1>1, <2>1, <2>2
<1>8. SuccessWasDelivered'
  <2> SUFFICES ASSUME NEW h \in Requests, status'[h] = "CompletedSuccessfully"
               PROVE  \E v \in Providers : "Finished" \in held'[h][v]
    BY DEF SuccessWasDelivered
  <2>1. \E v \in Providers : "Finished" \in held[h][v]
    BY DEF Effects, ClosedStep, SuccessWasDelivered, ListsWereFinished, WasFinished
  <2>2. QED
    BY <1>1, <2>1
<1>9. QED
  BY <1>1, <1>2, <1>3, <1>4, <1>5, <1>6, <1>7, <1>8

-----------------------------------------------------------------------------
(* Every step takes what it writes from there. *)

\* A step that finishes nothing, reviews nothing and reads no list.
LEMMA PlainSources ==
    ASSUME SafetyInv,
           \A h \in Requests, v \in Providers :
               offerStatus'[h][v] # offerStatus[h][v] => offerStatus'[h][v] # "Finished",
           reviews' \subseteq reviews,
           \A w \in Handlers : call'[w] = call[w] \/ call'[w].op \notin {"insertReview", "cancelOtherOffer"},
           \A j \in Workers : job'[j].stage \in {"weigh", "close"} =>
               job[j].stage \in {"weigh", "close"} /\ job'[j].todo \subseteq job[j].todo
    PROVE  Sources
  BY DEF Sources, FinishedStep, CalledStep, ReviewsStep, WonListsStep

LEMMA UserSources ==
    ASSUME SafetyInv, UserStep
    PROVE  Sources
<1> USE DEF SafetyInv, TypeOK
<1>1. UNCHANGED <<reviews, job>>
  BY DEF UserStep, HorecaCall, PrivateCall, ProviderCall, ReviewCall,
         Create, CreatePrivate, Cancel, ApproveProviderRequest,
         CancelProviderRequest, BeginOffer, BeginCancelOffer, BeginReview, dbVars, requestVars
<1>2. \A h \in Requests, v \in Providers :
          offerStatus'[h][v] # offerStatus[h][v] => offerStatus'[h][v] # "Finished"
  <2> DEFINE NoneFinished ==
               \A k \in Requests, u \in Providers :
                   offerStatus'[k][u] # offerStatus[k][u] => offerStatus'[k][u] # "Finished"
  <2>1. ASSUME NEW h \in Requests, Cancel(h) PROVE NoneFinished
    BY <2>1 DEF Cancel
  <2>2. ASSUME NEW h \in Requests, NEW v \in Providers,
               ApproveProviderRequest(h, v) \/ CancelProviderRequest(h, v)
        PROVE  NoneFinished
    <3>1. PICK s \in {"Active", "Canceled"} :
              offerStatus' = [offerStatus EXCEPT ![h][v] = s]
      BY <2>2 DEF ApproveProviderRequest, ApproveRow, CancelProviderRequest, CancelRow
    <3>2. offerStatus \in [Requests -> [Providers -> OfferOrNone]]
      OBVIOUS
    <3>3. \A k \in Requests, u \in Providers :
              offerStatus'[k][u] = offerStatus[k][u] \/ offerStatus'[k][u] = s
      BY ONLY <3>1, <3>2
    <3>4. QED
      BY <3>3
  <2>3. ASSUME NEW h \in Requests,
               \/ \E accept, delivery \in Dates : Create(h, accept, delivery)
               \/ \E w \in Handlers : PrivateCall(w, h) \/ ProviderCall(w, h) \/ ReviewCall(w, h)
        PROVE  UNCHANGED offerStatus
    BY <2>3 DEF PrivateCall, ProviderCall, ReviewCall, Create, CreatePrivate, BeginOffer,
                BeginCancelOffer, BeginReview, dbVars, requestVars
  <2>4. UNCHANGED offerStatus => NoneFinished
    OBVIOUS
  <2> HIDE DEF NoneFinished
  <2>5. NoneFinished
    BY <2>1, <2>2, <2>3, <2>4 DEF UserStep, HorecaCall
  <2>6. QED
    BY <2>5 DEF NoneFinished
<1>3. CASE \E w \in Handlers, h \in Requests, v \in Providers :
               BeginReview(w, h, v) \/ BeginCancelOffer(w, h, v)
  <2>1. PICK w \in Handlers, h \in Requests, v \in Providers :
            BeginReview(w, h, v) \/ BeginCancelOffer(w, h, v)
    BY <1>3
  <2>2. PICK op : /\ op = "insertReview" => offerStatus[h][v] = "Finished"
                  /\ offerStatus[h][v] # "None"
                  /\ Suspend(w, op, h, v)
    BY <2>1 DEF BeginReview, BeginCancelOffer
  <2>3. /\ call'[w] = [op |-> op, request |-> h, provider |-> v]
        /\ \A u \in Handlers \ {w} : call'[u] = call[u]
    BY <2>2 DEF Suspend
  <2>4. CalledStep
    BY <2>2, <2>3 DEF CalledStep
  <2>5. QED
    BY <1>1, <1>2, <2>4 DEF Sources, FinishedStep, ReviewsStep, WonListsStep
<1>4. CASE ~\E w \in Handlers, h \in Requests, v \in Providers :
               BeginReview(w, h, v) \/ BeginCancelOffer(w, h, v)
  <2>1. \/ UNCHANGED call
        \/ \E w \in Handlers, h \in Requests, v \in Providers :
               \E op \in {"privateOffer", "insertOffer"} : Suspend(w, op, h, v)
    BY <1>4 DEF UserStep, HorecaCall, PrivateCall, ProviderCall, ReviewCall,
         Create, CreatePrivate, Cancel, ApproveProviderRequest,
                CancelProviderRequest, BeginOffer
  <2>2. \A w \in Handlers :
            call'[w] = call[w] \/ call'[w].op \notin {"insertReview", "cancelOtherOffer"}
    <3>1. ASSUME NEW w \in Handlers, NEW h \in Requests, NEW v \in Providers,
                 NEW op \in {"privateOffer", "insertOffer"},
                 Suspend(w, op, h, v), NEW u \in Handlers
          PROVE  call'[u] = call[u] \/ call'[u].op \notin {"insertReview", "cancelOtherOffer"}
      BY <3>1 DEF Suspend
    <3>2. QED
      BY <2>1, <3>1
  <2>3. QED
    BY <1>1, <1>2, <2>2, PlainSources
<1>5. QED
  BY <1>3, <1>4

LEMMA HandlerSources ==
    ASSUME SafetyInv, NEW w \in Handlers, HandlerStep(w)
    PROVE  Sources
<1> USE DEF SafetyInv, TypeOK
<1>1. UNCHANGED job
  BY DEF HandlerStep, PrivateOffer, PrivateApprove, InsertOffer, CancelActiveOffer,
         CancelOtherOffer, InsertReview
<1>2. \A u \in Handlers : call'[u] = call[u] \/ call'[u].op \notin {"insertReview", "cancelOtherOffer"}
  <2>1. CASE call' = [call EXCEPT ![w] = IdleCall]
    BY <2>1 DEF IdleCall
  <2>2. CASE call' = [call EXCEPT ![w].op = "privateApprove"] /\ call[w].op = "privateOffer"
    <3>1. call[w] \in Call
      BY <2>2 DEF IdleCall
    <3>2. [call[w] EXCEPT !.op = "privateApprove"].op = "privateApprove"
      BY <3>1 DEF Call
    <3>3. call'[w].op = "privateApprove"
      BY <2>2, <3>2
    <3>4. QED
      BY <2>2, <3>3
  <2>3. QED
    BY <2>1, <2>2 DEF HandlerStep, PrivateOffer, PrivateApprove, InsertOffer, CancelActiveOffer,
                      CancelOtherOffer, InsertReview, Resume
<1>3. \A h \in Requests, v \in Providers :
          offerStatus'[h][v] # offerStatus[h][v] => offerStatus'[h][v] # "Finished"
  BY DEF HandlerStep, PrivateOffer, PrivateApprove, InsertOffer, CancelActiveOffer,
         CancelOtherOffer, InsertReview, ApproveRow, CancelRow
<1>4. CASE reviews' \subseteq reviews
  BY <1>1, <1>2, <1>3, <1>4, PlainSources
<1>5. ASSUME NEW isDelivered \in {0, 1}, NEW isSuccessfully \in {0, 1},
             InsertReview(w, isDelivered, isSuccessfully)
      PROVE  Sources
  BY <1>1, <1>2, <1>3, <1>5 DEF InsertReview, Resume, Sources, FinishedStep, CalledStep,
                                ReviewsStep, WonListsStep
<1>6. QED
  BY <1>4, <1>5 DEF HandlerStep, PrivateOffer, PrivateApprove, InsertOffer, CancelActiveOffer,
                    CancelOtherOffer

\* A job finishes the offers it has read as Active or Finished.
LEMMA ClosedSources ==
    ASSUME SafetyInv, NEW j \in Workers, NEW h \in Requests,
           offerStatus' = [offerStatus EXCEPT ![h] = OffersClosed(j, h)]
    PROVE  FinishedStep
<1>1. ASSUME NEW v \in Providers, OffersClosed(j, h)[v] = "Finished"
      PROVE  offerStatus[h][v] = "Finished" \/ job[j].snapshot[h][v] \in {"Active", "Finished"}
  <2>1. job[j].snapshot[h][v] \in OfferOrNone
    BY DEF SafetyInv, TypeOK, Job
  <2>2. QED
    BY <1>1, <2>1 DEF OffersClosed, ClosedOffer, OfferOrNone, OfferStatus
<1>2. /\ offerStatus'[h] = OffersClosed(j, h)
      /\ \A g \in Requests \ {h} : offerStatus'[g] = offerStatus[g]
  BY DEF SafetyInv, TypeOK
<1>3. QED
  BY <1>1, <1>2 DEF FinishedStep

\* Dealing with a request of a list only takes it off the list.
LEMMA ListShortens ==
    ASSUME SafetyInv, NEW j \in Workers, NEW h \in Requests,
           \/ Written(j, h)
           \/ job' = [job EXCEPT ![j].todo = @ \ {h}]
           \/ job' = [job EXCEPT ![j].bad = @ \ {h}]
    PROVE  \A i \in Workers : job'[i].stage = job[i].stage /\ job'[i].todo \subseteq job[i].todo
<1>1. job[j] \in Job /\ job \in [Workers -> Job]
  BY DEF SafetyInv, TypeOK
<1>2. CASE Written(j, h)
  <2> DEFINE new == [job[j] EXCEPT !.todo = @ \ {h},
                                   !.snapshot[h] = [v \in Providers |-> "None"]]
  <2>1. job' = [job EXCEPT ![j] = new]
    BY <1>1, <1>2 DEF Written
  <2>2. new.stage = job[j].stage /\ new.todo \subseteq job[j].todo
    BY <1>1 DEF Job
  <2> HIDE DEF new
  <2>3. QED
    BY <1>1, <2>1, <2>2
<1>3. CASE job' = [job EXCEPT ![j].todo = @ \ {h}] \/ job' = [job EXCEPT ![j].bad = @ \ {h}]
  <2>1. PICK new : /\ job' = [job EXCEPT ![j] = new]
                   /\ new \in {[job[j] EXCEPT !.todo = @ \ {h}], [job[j] EXCEPT !.bad = @ \ {h}]}
    BY <1>3
  <2>2. new.stage = job[j].stage /\ new.todo \subseteq job[j].todo
    BY <1>1, <2>1 DEF Job
  <2>3. QED
    BY <1>1, <2>1, <2>2
<1>4. QED
  BY <1>2, <1>3

\* A job's list only gets shorter, or is read.
LEMMA JobSources ==
    ASSUME SafetyInv, NEW j \in Workers,
           StartPastRequests(j) \/ StartReviewNotification(j) \/ JobStep(j)
    PROVE  Sources
<1> USE DEF SafetyInv, TypeOK
<1>1. UNCHANGED <<reviews, call>>
  BY DEF StartPastRequests, StartReviewNotification, JobStep, Expire, Deliver, Remind,
         CloseSuccessfully, CloseUnsuccessfully, ReadDelivered, ReadSuccessful,
         ReadUnsuccessful, EndJob, dbVars
<1>2. FinishedStep
  <2>1. UNCHANGED offerStatus => FinishedStep
    BY DEF FinishedStep
  <2>2. QED
    BY <2>1, ClosedSources
       DEF StartPastRequests, StartReviewNotification, JobStep, Expire, Deliver, Remind,
           CloseSuccessfully, CloseUnsuccessfully, ReadDelivered, ReadSuccessful,
           ReadUnsuccessful, EndJob, dbVars
<1>3. \A i \in Workers \ {j} : job'[i] = job[i]
  BY DEF StartPastRequests, StartReviewNotification, JobStep, Expire, Deliver, Remind, Written,
         CloseSuccessfully, CloseUnsuccessfully, ReadDelivered, ReadSuccessful,
         ReadUnsuccessful, EndJob
<1>4. job[j] \in Job
  OBVIOUS
<1>5. \/ job'[j].stage \notin {"weigh", "close"}
      \/ /\ job[j].stage \in {"weigh", "close"}
         /\ job'[j].todo \subseteq job[j].todo
      \/ job'[j].todo = Successful(now)
  <2>1. CASE StartPastRequests(j) \/ ReadDelivered(j) \/ EndJob(j)
    BY <2>1 DEF StartPastRequests, ReadDelivered, EndJob, IdleJob
  <2>2. CASE StartReviewNotification(j)
    BY <1>4, <2>2 DEF StartReviewNotification, Job
  <2>3. CASE ReadSuccessful(j)
    BY <1>4, <2>3 DEF ReadSuccessful, Job
  <2>4. CASE ReadUnsuccessful(j)
    BY <1>4, <2>4 DEF ReadUnsuccessful, Job
  <2>5. CASE \E h \in Requests : Expire(j, h) \/ Deliver(j, h)
    <3>1. job'[j].stage = job[j].stage /\ job[j].stage \in {"expire", "deliver"}
      BY <2>5, ListShortens DEF Expire, Deliver
    <3>2. QED
      BY <3>1
  <2>6. CASE \E h \in Requests : \/ Remind(j, h)
                                 \/ CloseSuccessfully(j, h)
                                 \/ CloseUnsuccessfully(j, h)
    <3>1. /\ job'[j].stage = job[j].stage
          /\ job'[j].todo \subseteq job[j].todo
      BY <2>6, ListShortens DEF Remind, CloseSuccessfully, CloseUnsuccessfully
    <3>2. QED
      BY <3>1
  <2>7. QED
    BY <2>1, <2>2, <2>3, <2>4, <2>5, <2>6 DEF JobStep
<1>6. \A h \in Successful(now) : Finished(h) # {}
  BY DEF Successful
<1>7. WonListsStep
  BY <1>3, <1>5, <1>6 DEF WonListsStep
<1>8. QED
  BY <1>1, <1>2, <1>7 DEF Sources, CalledStep, ReviewsStep

LEMMA FaultSources ==
    ASSUME SafetyInv, FaultStep \/ Tick \/ UNCHANGED vars
    PROVE  Sources
<1> USE DEF SafetyInv, TypeOK
<1>1. UNCHANGED <<offerStatus, reviews>>
  BY DEF FaultStep, CallFails, JobFails, UpdateFails, Crash, Tick, vars, dbVars
<1>2. \A w \in Handlers : call'[w] = call[w] \/ call'[w].op \notin {"insertReview", "cancelOtherOffer"}
  BY DEF FaultStep, CallFails, JobFails, UpdateFails, Crash, Tick, vars, IdleCall
<1>3. ASSUME NEW j \in Workers, job' = [job EXCEPT ![j] = IdleJob]
      PROVE  \A i \in Workers : job'[i] = job[i] \/ job'[i].stage = "idle"
  BY <1>3 DEF IdleJob
<1>4. ASSUME NEW j \in Workers, NEW h \in Requests, UpdateFails(j, h)
      PROVE  \A i \in Workers : job'[i].stage = job[i].stage /\ job'[i].todo \subseteq job[i].todo
  BY <1>4, ListShortens DEF UpdateFails
<1>5. \A j \in Workers : job'[j].stage \in {"weigh", "close"} =>
          job[j].stage \in {"weigh", "close"} /\ job'[j].todo \subseteq job[j].todo
  BY <1>3, <1>4 DEF FaultStep, CallFails, JobFails, Crash, IdleJob, Tick, vars
<1>6. QED
  BY <1>1, <1>2, <1>5, PlainSources

LEMMA StepSources ==
    ASSUME SafetyInv, [Next]_vars
    PROVE  Sources
  BY UserSources, HandlerSources, JobSources, FaultSources DEF Next

LEMMA HistoryInit == HInit => HistoryInv
<1> SUFFICES ASSUME HInit PROVE HistoryInv
  OBVIOUS
<1>1. SafetyInv
  BY InitSafety DEF HInit
<1>2. /\ held \in [Requests -> [Providers -> SUBSET OfferStatus]]
      /\ \A h \in Requests, v \in Providers : held[h][v] = {}
  BY DEF HInit
<1>3. HeldNow /\ HeldRead /\ ListsWereFinished /\ CallsWereRead
  BY <1>2 DEF HInit, Init, HeldNow, HeldRead, ListsWereFinished, CallsWereRead,
              NoOffers, IdleJob, IdleCall
<1>4. OnlyChosenFinish /\ OnlyFinishedReviewed /\ SuccessWasDelivered
  BY <1>2 DEF HInit, Init, OnlyChosenFinish, OnlyFinishedReviewed, SuccessWasDelivered
<1>5. QED
  BY <1>1, <1>2, <1>3, <1>4 DEF HistoryInv

\* A stuttering step has nothing to remember.
LEMMA StutterRemembers ==
    ASSUME HistoryInv, UNCHANGED hvars
    PROVE  Remember
<1>1. UNCHANGED <<held, offerStatus>>
  BY DEF hvars, vars, dbVars
<1>2. \A h \in Requests, v \in Providers :
          held[h][v] = held[h][v] \cup ({offerStatus[h][v]} \ {"None"})
  BY DEF HistoryInv, HeldNow
<1>3. held = [h \in Requests |-> [v \in Providers |->
                 held[h][v] \cup ({offerStatus[h][v]} \ {"None"})]]
  BY <1>2 DEF HistoryInv
<1>4. QED
  BY <1>1, <1>3 DEF Remember

LEMMA HistoryStep ==
    ASSUME HistoryInv, [HNext]_hvars
    PROVE  HistoryInv' /\ Remember /\ [Next]_vars /\ Effects /\ TypeOK'
<1>1. [Next]_vars /\ Remember
  BY StutterRemembers DEF HNext, hvars
<1>2. SafetyInv
  BY DEF HistoryInv
<1>3. TypeOK' /\ Effects /\ Sources
  BY <1>1, <1>2, TypeStep, StepEffects, StepSources DEF SafetyInv
<1>4. SafetyInv'
  BY <1>2, <1>3, EffectsPreserve
<1>5. QED
  BY <1>1, <1>3, <1>4, SourcesPreserve

\* The strengthened invariant of the history holds in every reachable state.
THEOREM History == HSpec => []HistoryInv
<1>1. HistoryInv /\ [HNext]_hvars => HistoryInv'
  BY HistoryStep
<1>2. QED
  BY HistoryInit, <1>1, PTL DEF HSpec

\* The lifecycle with its history keeps its types.
THEOREM HistoryTypes == HSpec => []HTypeOK
<1>1. HistoryInv => HTypeOK
  BY DEF HistoryInv, SafetyInv, HTypeOK
<1>2. QED
  BY <1>1, History, PTL

\* No job finishes an offer the horeca never chose.
THEOREM ChosenFinish == HSpec => []OnlyChosenFinish
<1>1. HistoryInv => OnlyChosenFinish
  BY DEF HistoryInv
<1>2. QED
  BY <1>1, History, PTL

\* No offer has a review without having been finished.
THEOREM FinishedReviewed == HSpec => []OnlyFinishedReviewed
<1>1. HistoryInv => OnlyFinishedReviewed
  BY DEF HistoryInv
<1>2. QED
  BY <1>1, History, PTL

\* No request is completed with success without a finished offer.
THEOREM SuccessDelivered == HSpec => []SuccessWasDelivered
<1>1. HistoryInv => SuccessWasDelivered
  BY DEF HistoryInv
<1>2. QED
  BY <1>1, History, PTL

-----------------------------------------------------------------------------
(* Every step passes a milestone, reopens a request or stutters. *)

milestones == [h \in Requests |-> [v \in Providers |-> MilestoneOf(h, v)]]
wins       == {h \in Requests : status[h] = "CompletedSuccessfully"}

\* What a step of the milestones is, without the names of the abstract variables.
Passes(h, group, before, after) ==
    /\ \A v \in group : milestones[h][v] = before
    /\ milestones' = [milestones EXCEPT ![h] =
           [v \in Providers |-> IF v \in group THEN after ELSE milestones[h][v]]]

LEMMA MilestonesOfInit == HInit => Abstract!MInit
  BY DEF HInit, Init, Abstract!MInit, MilestoneOf, ReviewsOf

\* What is known of every step of HSpec.
StepFacts ==
    /\ HistoryInv
    /\ Remember
    /\ Effects
    /\ TypeOK'

AbstractStep == [Abstract!MNext]_(Abstract!mvars)

\* An offer that is not written, or is canceled, keeps its milestone.
LEMMA KeptMilestone ==
    ASSUME StepFacts, NEW h \in Requests, NEW v \in Providers,
           \/ offerStatus'[h][v] = offerStatus[h][v]
           \/ offerStatus'[h][v] = "Canceled" /\ held[h][v] # {},
           ReviewsOf(h, v)' = ReviewsOf(h, v)
    PROVE  MilestoneOf(h, v)' = MilestoneOf(h, v)
<1>1. held'[h][v] = held[h][v] \cup ({offerStatus'[h][v]} \ {"None"})
  BY HeldGrows DEF StepFacts
<1>2. offerStatus[h][v] = "None" \/ offerStatus[h][v] \in held[h][v]
  BY DEF StepFacts, HistoryInv, HeldNow
<1>3. held'[h][v] \in {held[h][v], held[h][v] \cup {"Canceled"}}
  BY <1>1, <1>2
<1>4. held[h][v] # {} \/ held'[h][v] = {}
  BY <1>1, <1>2
<1>5. QED
  BY <1>3, <1>4 DEF MilestoneOf

\* The milestones before an offer is reviewed, finished, or chosen.
LEMMA MilestonesBefore ==
    ASSUME HistoryInv, NEW h \in Requests, NEW v \in Providers
    PROVE  /\ "Finished" \notin held[h][v] => ReviewsOf(h, v) = {}
           /\ "Active" \notin held[h][v] => "Finished" \notin held[h][v]
           /\ held[h][v] = {} => MilestoneOf(h, v) = "none"
           /\ held[h][v] # {} /\ "Active" \notin held[h][v] => MilestoneOf(h, v) = "offered"
           /\ "Active" \in held[h][v] /\ "Finished" \notin held[h][v] =>
                  MilestoneOf(h, v) = "chosen"
           /\ "Finished" \in held[h][v] /\ ReviewsOf(h, v) = {} => MilestoneOf(h, v) = "finished"
<1>1. "Finished" \notin held[h][v] => ReviewsOf(h, v) = {}
  BY DEF HistoryInv, OnlyFinishedReviewed, ReviewsOf
<1>2. "Active" \notin held[h][v] => "Finished" \notin held[h][v]
  BY DEF HistoryInv, OnlyChosenFinish
<1>3. QED
  BY <1>1, <1>2 DEF MilestoneOf

LEMMA OneMilestone ==
    ASSUME NEW h \in Requests, NEW group \in SUBSET Providers, NEW before, NEW after,
           \A v \in group : MilestoneOf(h, v) = before /\ MilestoneOf(h, v)' = after,
           \A g \in Requests, v \in Providers :
               g # h \/ v \notin group => MilestoneOf(g, v)' = MilestoneOf(g, v)
    PROVE  Passes(h, group, before, after)
  BY DEF Passes, milestones

LEMMA KeptMilestones ==
    ASSUME \A h \in Requests, v \in Providers : MilestoneOf(h, v)' = MilestoneOf(h, v)
    PROVE  milestones' = milestones
  BY DEF milestones

\* The requests won, after the status of one request was written.
LEMMA WinsStep ==
    ASSUME TypeOK, NEW h \in Requests, NEW s, status' = [status EXCEPT ![h] = s]
    PROVE  wins' = IF s = "CompletedSuccessfully" THEN wins \cup {h} ELSE wins \ {h}
<1>1. \A g \in Requests : status'[g] = IF g = h THEN s ELSE status[g]
  BY DEF TypeOK
<1>2. QED
  BY <1>1 DEF wins

LEMMA LossStep ==
    ASSUME TypeOK, NEW h \in Requests,
           status' = [status EXCEPT ![h] = "CompletedUnsuccessfully"]
    PROVE  wins' = wins \ {h}
<1>1. \A g \in Requests :
          status'[g] = IF g = h THEN "CompletedUnsuccessfully" ELSE status[g]
  BY DEF TypeOK
<1>2. QED
  BY <1>1 DEF wins

LEMMA ReopenStep ==
    ASSUME NEW h \in Requests, milestones' = milestones, wins' \in {wins, wins \ {h}}
    PROVE  AbstractStep
<1>1. CASE wins' = wins
  BY <1>1 DEF AbstractStep, Abstract!mvars, milestones, wins
<1>2. CASE wins' # wins
  <2>1. h \in wins /\ wins' = wins \ {h}
    BY <1>2
  <2>2. Abstract!Reopen(h)
    BY <2>1 DEF Abstract!Reopen, milestones, wins
  <2>3. QED
    BY <2>2 DEF AbstractStep, Abstract!MNext
<1>3. QED
  BY <1>1, <1>2

LEMMA PassStep ==
    ASSUME NEW h \in Requests, NEW v \in Providers,
           \/ Passes(h, {v}, "none", "offered") /\ wins' = wins
           \/ Passes(h, {v}, "offered", "chosen") /\ wins' \in {wins, wins \ {h}}
           \/ Passes(h, {v}, "finished", "reviewed") /\ wins' = wins
    PROVE  AbstractStep
<1>1. Abstract!Offer(h, v) \/ Abstract!Choose(h, v) \/ Abstract!Evaluate(h, v)
  BY DEF Abstract!Offer, Abstract!Choose, Abstract!Evaluate, Abstract!Pass, Abstract!MayReopen,
         Passes, milestones, wins
<1>2. QED
  BY <1>1 DEF AbstractStep, Abstract!MNext

LEMMA FinishStep ==
    ASSUME NEW h \in Requests, NEW group \in SUBSET Providers,
           Passes(h, group, "chosen", "finished"), wins' \in {wins, wins \ {h}}
    PROVE  AbstractStep
<1>1. Abstract!Finish(h, group)
  BY DEF Abstract!Finish, Abstract!Pass, Abstract!MayReopen, Passes, milestones, wins
<1>2. QED
  BY <1>1 DEF AbstractStep, Abstract!MNext

\* A handler that writes one offer makes it, chooses it or cancels it.
LEMMA WrittenOfferStep ==
    ASSUME StepFacts, UNCHANGED reviews,
           NEW h \in Requests, NEW v \in Providers, NEW s \in {"Pending", "Active", "Canceled"},
           offerStatus' = [offerStatus EXCEPT ![h][v] = s],
           IF s = "Pending" THEN held[h][v] = {} /\ wins' = wins
                            ELSE held[h][v] # {},
           wins' \in {wins, wins \ {h}}
    PROVE  AbstractStep
<1> USE DEF StepFacts
<1>1. \A g \in Requests, u \in Providers :
          offerStatus'[g][u] = IF g = h /\ u = v THEN s ELSE offerStatus[g][u]
  BY DEF HistoryInv, SafetyInv, TypeOK
<1>2. \A g \in Requests, u \in Providers : ReviewsOf(g, u)' = ReviewsOf(g, u)
  BY DEF ReviewsOf
<1>3. \A g \in Requests, u \in Providers :
          g # h \/ u # v => MilestoneOf(g, u)' = MilestoneOf(g, u)
  BY <1>1, <1>2, KeptMilestone
<1>4. held'[h][v] = held[h][v] \cup {s}
  BY <1>1, HeldGrows
<1>5. CASE s = "Pending"
  <2>1. MilestoneOf(h, v) = "none" /\ ReviewsOf(h, v) = {}
    BY <1>5, MilestonesBefore
  <2>2. MilestoneOf(h, v)' = "offered"
    BY <1>2, <1>4, <1>5, <2>1 DEF MilestoneOf
  <2>3. Passes(h, {v}, "none", "offered")
    BY <1>3, <2>1, <2>2, OneMilestone
  <2>4. QED
    BY <1>5, <2>3, PassStep
<1>6. CASE s = "Active" /\ "Active" \notin held[h][v]
  <2>1. /\ MilestoneOf(h, v) = "offered" /\ ReviewsOf(h, v) = {}
        /\ "Finished" \notin held[h][v]
    BY <1>6, MilestonesBefore
  <2>2. MilestoneOf(h, v)' = "chosen"
    BY <1>2, <1>4, <1>6, <2>1 DEF MilestoneOf
  <2>3. Passes(h, {v}, "offered", "chosen")
    BY <1>3, <2>1, <2>2, OneMilestone
  <2>4. QED
    BY <2>3, PassStep
<1>7. CASE s = "Canceled" \/ (s = "Active" /\ "Active" \in held[h][v])
  <2>1. MilestoneOf(h, v)' = MilestoneOf(h, v)
    BY <1>2, <1>4, <1>7 DEF MilestoneOf
  <2>2. milestones' = milestones
    BY <1>3, <2>1, KeptMilestones
  <2>3. QED
    BY <2>2, ReopenStep
<1>8. \/ s = "Pending"
      \/ s = "Active" /\ "Active" \notin held[h][v]
      \/ s = "Canceled" \/ (s = "Active" /\ "Active" \in held[h][v])
  OBVIOUS
<1> HIDE DEF StepFacts
<1> QED
  BY ONLY <1>5, <1>6, <1>7, <1>8

\* A step that leaves the offers and the reviews keeps the milestones.
LEMMA UnwrittenOffers ==
    ASSUME StepFacts, UNCHANGED <<offerStatus, reviews>>
    PROVE  milestones' = milestones
<1>1. \A h \in Requests, v \in Providers : ReviewsOf(h, v)' = ReviewsOf(h, v)
  BY DEF ReviewsOf
<1>2. \A h \in Requests, v \in Providers : MilestoneOf(h, v)' = MilestoneOf(h, v)
  BY <1>1, KeptMilestone
<1>3. QED
  BY <1>2, KeptMilestones

LEMMA UnwrittenStep ==
    ASSUME StepFacts, UNCHANGED <<offerStatus, reviews>>, wins' = wins
    PROVE  AbstractStep
  BY UnwrittenOffers DEF AbstractStep, Abstract!mvars, milestones, wins

LEMMA UserRefines ==
    ASSUME StepFacts, UserStep
    PROVE  AbstractStep
<1> USE DEF StepFacts
<1>1. TypeOK /\ HistoryInv
  BY DEF HistoryInv, SafetyInv
<1>2. ASSUME NEW h \in Requests, NEW accept \in Dates, NEW delivery \in Dates,
             CreateRow(h, accept, delivery), UNCHANGED <<offerStatus, reviews>>
      PROVE  AbstractStep
  <2>1. wins' = wins
    BY <1>1, <1>2, WinsStep DEF CreateRow, wins
  <2>2. QED
    BY <1>2, <2>1, UnwrittenStep
<1>3. ASSUME NEW h \in Requests, Cancel(h)
      PROVE  AbstractStep
  <2>1. \A g \in Requests, v \in Providers :
            \/ offerStatus'[g][v] = offerStatus[g][v]
            \/ offerStatus'[g][v] = "Canceled" /\ held[g][v] # {}
    BY <1>1, <1>3 DEF Cancel, TypeOK, HistoryInv, HeldNow
  <2>2. \A g \in Requests, v \in Providers : ReviewsOf(g, v)' = ReviewsOf(g, v)
    BY <1>3 DEF Cancel, ReviewsOf
  <2>3. milestones' = milestones
    <3>1. \A g \in Requests, v \in Providers : MilestoneOf(g, v)' = MilestoneOf(g, v)
      BY <2>1, <2>2, KeptMilestone
    <3>2. QED
      BY <3>1, KeptMilestones
  <2>4. wins' = wins \ {h}
    <3>1. status' = [status EXCEPT ![h] = "CompletedUnsuccessfully"]
      BY <1>3 DEF Cancel
    <3>2. QED
      BY <1>1, <3>1, LossStep
  <2>5. QED
    BY <2>3, <2>4, ReopenStep
<1>4. ASSUME NEW h \in Requests, NEW v \in Providers,
             ApproveProviderRequest(h, v) \/ CancelProviderRequest(h, v)
      PROVE  AbstractStep
  <2>1. /\ offerStatus[h][v] # "None" /\ UNCHANGED reviews
        /\ \E s \in {"Active", "Canceled"} : offerStatus' = [offerStatus EXCEPT ![h][v] = s]
        /\ \E s \in {"Active", "Pending"} : status' = [status EXCEPT ![h] = s]
    BY <1>4 DEF ApproveProviderRequest, CancelProviderRequest, ApproveRow, CancelRow
  <2>2. held[h][v] # {}
    BY <1>1, <2>1 DEF HistoryInv, HeldNow
  <2>3. wins' = wins \ {h}
    BY <1>1, <2>1, WinsStep
  <2>4. QED
    BY <2>1, <2>2, <2>3, WrittenOfferStep
<1>5. ASSUME NEW w \in Handlers, NEW h \in Requests, NEW v \in Providers,
             BeginOffer(w, h, v) \/ BeginCancelOffer(w, h, v) \/ BeginReview(w, h, v)
      PROVE  AbstractStep
  BY <1>5, UnwrittenStep DEF BeginOffer, BeginCancelOffer, BeginReview, dbVars, requestVars, wins
<1>6. QED
  BY <1>2, <1>3, <1>4, <1>5 DEF UserStep, HorecaCall, PrivateCall, ProviderCall, ReviewCall,
            Create, CreatePrivate

\* The first review of a finished offer is its last milestone.
LEMMA ReviewedStep ==
    ASSUME StepFacts, UNCHANGED offerStatus, wins' = wins,
           NEW h \in Requests, NEW v \in Providers, NEW review,
           review.request = h, review.provider = v,
           "Finished" \in held[h][v], ReviewsOf(h, v) = {},
           reviews' = reviews \cup {review}
    PROVE  AbstractStep
<1>1. /\ review \in ReviewsOf(h, v)'
      /\ \A g \in Requests, u \in Providers :
             g # h \/ u # v => ReviewsOf(g, u)' = ReviewsOf(g, u)
  BY DEF ReviewsOf
<1>2. MilestoneOf(h, v) = "finished" /\ MilestoneOf(h, v)' = "reviewed"
  BY <1>1, MilestonesBefore DEF StepFacts, MilestoneOf
<1>3. \A g \in Requests, u \in Providers :
          g # h \/ u # v => MilestoneOf(g, u)' = MilestoneOf(g, u)
  BY <1>1, KeptMilestone
<1>4. Passes(h, {v}, "finished", "reviewed")
  BY <1>2, <1>3, OneMilestone
<1>5. QED
  BY <1>4, PassStep

LEMMA HandlerRefines ==
    ASSUME StepFacts, NEW w \in Handlers, HandlerStep(w)
    PROVE  AbstractStep
<1> DEFINE h == call[w].request
           v == call[w].provider
<1> USE DEF StepFacts
<1>1. TypeOK /\ HistoryInv
  BY DEF HistoryInv, SafetyInv
<1>2. call[w].op # "idle" => h \in Requests /\ v \in Providers
  BY <1>1 DEF TypeOK, Call, IdleCall
<1>3. CASE PrivateOffer(w) \/ InsertOffer(w)
  <2>1. /\ h \in Requests /\ v \in Providers
        /\ UNCHANGED <<status, reviews>>
    BY <1>2, <1>3 DEF PrivateOffer, InsertOffer, Resume, requestVars
  <2>2. \/ UNCHANGED offerStatus
        \/ /\ offerStatus[h][v] = "None"
           /\ offerStatus' = [offerStatus EXCEPT ![h][v] = "Pending"]
    BY <1>3, Zenon DEF PrivateOffer, InsertOffer
  <2>3. wins' = wins
    BY <2>1 DEF wins
  <2>4. offerStatus[h][v] = "None" => held[h][v] = {}
    BY <1>1, <2>1 DEF HistoryInv, HeldNow
  <2>5. QED
    BY <2>1, <2>2, <2>3, <2>4, WrittenOfferStep, UnwrittenStep
<1>4. CASE PrivateApprove(w) \/ CancelActiveOffer(w)
  <2>1. /\ h \in Requests /\ v \in Providers
        /\ offerStatus[h][v] # "None" /\ UNCHANGED reviews
        /\ \E s \in {"Active", "Canceled"} : offerStatus' = [offerStatus EXCEPT ![h][v] = s]
        /\ \E s \in {"Active", "Pending"} : status' = [status EXCEPT ![h] = s]
    BY <1>2, <1>4 DEF PrivateApprove, CancelActiveOffer, Resume, ApproveRow, CancelRow
  <2>2. held[h][v] # {}
    BY <1>1, <2>1 DEF HistoryInv, HeldNow
  <2>3. wins' = wins \ {h}
    BY <1>1, <2>1, WinsStep
  <2>4. QED
    BY <2>1, <2>2, <2>3, WrittenOfferStep
<1>5. CASE CancelOtherOffer(w)
  <2>1. /\ h \in Requests /\ v \in Providers /\ UNCHANGED <<reviews, status>>
        /\ offerStatus' = [offerStatus EXCEPT ![h][v] = "Canceled"]
    BY <1>2, <1>5 DEF CancelOtherOffer, Resume, requestVars
  <2>2. held[h][v] # {}
    BY <1>1, <1>5 DEF CancelOtherOffer, Resume, HistoryInv, CallsWereRead
  <2>3. wins' = wins
    BY <2>1 DEF wins
  <2>4. QED
    BY <2>1, <2>2, <2>3, WrittenOfferStep
<1>6. ASSUME NEW isDelivered \in {0, 1}, NEW isSuccessfully \in {0, 1},
             InsertReview(w, isDelivered, isSuccessfully)
      PROVE  AbstractStep
  <2> DEFINE review == [request |-> h, provider |-> v,
                        isDelivered |-> isDelivered, isSuccessfully |-> isSuccessfully]
  <2>1. /\ h \in Requests /\ v \in Providers
        /\ UNCHANGED <<status, offerStatus>>
        /\ "Finished" \in held[h][v]
    BY <1>1, <1>2, <1>6 DEF InsertReview, Resume, requestVars, HistoryInv, CallsWereRead
  <2>2. wins' = wins
    BY <2>1 DEF wins
  <2>3. CASE ReviewsOf(h, v) = {}
    <3>1. /\ reviews' = reviews \cup {review}
          /\ review.request = h /\ review.provider = v
      BY <1>6, <2>3 DEF InsertReview
    <3> HIDE DEF h, v, review
    <3>2. QED
      BY <2>1, <2>2, <2>3, <3>1, ReviewedStep
  <2>4. CASE ReviewsOf(h, v) # {}
    BY <1>6, <2>1, <2>2, <2>4, UnwrittenStep DEF InsertReview
  <2>5. QED
    BY <2>3, <2>4
<1>7. QED
  BY <1>3, <1>4, <1>5, <1>6 DEF HandlerStep

\* Expire and Deliver finish the chosen offers of a request at once.
LEMMA ClosedOffersStep ==
    ASSUME StepFacts, NEW j \in Workers, NEW h \in Requests, UNCHANGED reviews,
           offerStatus' = [offerStatus EXCEPT ![h] = OffersClosed(j, h)],
           wins' \in {wins, wins \ {h}}
    PROVE  AbstractStep
<1> DEFINE group == {v \in Providers : "Finished" \notin held[h][v] /\ "Finished" \in held'[h][v]}
<1>1. TypeOK /\ HistoryInv
  BY DEF StepFacts, HistoryInv, SafetyInv
<1>2. \A g \in Requests, v \in Providers : ReviewsOf(g, v)' = ReviewsOf(g, v)
  BY DEF ReviewsOf
<1>3. \A g \in Requests, v \in Providers :
          held'[g][v] = held[g][v] \cup ({offerStatus'[g][v]} \ {"None"})
  BY HeldGrows DEF StepFacts
<1>4. /\ offerStatus'[h] = OffersClosed(j, h)
      /\ \A g \in Requests \ {h} : offerStatus'[g] = offerStatus[g]
  BY <1>1 DEF TypeOK
<1>5. ASSUME NEW v \in Providers
      PROVE  /\ \/ offerStatus'[h][v] = offerStatus[h][v]
                \/ offerStatus'[h][v] = "Canceled" /\ held[h][v] # {}
                \/ offerStatus'[h][v] = "Finished" /\ "Active" \in held[h][v]
  <2>1. job[j].snapshot[h][v] \in OfferOrNone
    BY <1>1 DEF TypeOK, Job
  <2>2. job[j].snapshot[h][v] \in held[h][v] \cup {"None"}
    BY <1>1 DEF HistoryInv, HeldRead
  <2>3. CASE job[j].snapshot[h][v] = "None"
    BY <1>4, <2>3 DEF OffersClosed
  <2>4. CASE job[j].snapshot[h][v] # "None"
    <3>1. offerStatus'[h][v] = ClosedOffer(job[j].snapshot[h][v])
      BY <1>4, <2>4 DEF OffersClosed
    <3>2. held[h][v] # {}
      BY <2>2, <2>4
    <3>3. job[j].snapshot[h][v] \in {"Active", "Finished"} => "Active" \in held[h][v]
      BY <1>1, <2>2 DEF HistoryInv, OnlyChosenFinish
    <3>4. QED
      BY <2>1, <2>4, <3>1, <3>2, <3>3 DEF ClosedOffer, OfferOrNone, OfferStatus
  <2>5. QED
    BY <2>3, <2>4
<1>6. ASSUME NEW v \in group
      PROVE  MilestoneOf(h, v) = "chosen" /\ MilestoneOf(h, v)' = "finished"
  <2>1. /\ v \in Providers /\ "Finished" \notin held[h][v] /\ "Finished" \in held'[h][v]
        /\ offerStatus'[h][v] = "Finished"
    BY <1>3
  <2>2. "Active" \in held[h][v]
    BY <1>1, <1>5, <2>1 DEF HistoryInv, HeldNow
  <2>3. MilestoneOf(h, v) = "chosen" /\ ReviewsOf(h, v) = {}
    BY <1>1, <2>1, <2>2, MilestonesBefore
  <2>4. QED
    BY <1>2, <2>1, <2>3 DEF MilestoneOf
<1>7. ASSUME NEW g \in Requests, NEW v \in Providers, g # h \/ v \notin group
      PROVE  MilestoneOf(g, v)' = MilestoneOf(g, v)
  <2>1. CASE g # h
    BY <1>2, <1>4, <2>1, KeptMilestone
  <2>2. CASE g = h
    <3>1. CASE offerStatus'[h][v] = "Finished" /\ "Active" \in held[h][v]
      <4>1. held'[h][v] = held[h][v] \cup {"Finished"}
        BY <1>3, <3>1
      <4>2. "Finished" \in held[h][v]
        BY <1>7, <2>2, <3>1, <4>1
      <4>3. held'[h][v] = held[h][v]
        BY <4>1, <4>2
      <4>4. QED
        BY <1>2, <2>2, <4>3 DEF MilestoneOf
    <3>2. QED
      BY <1>2, <1>5, <2>2, <3>1, KeptMilestone
  <2>3. QED
    BY <2>1, <2>2
<1> HIDE DEF group
<1>8. group \in SUBSET Providers
  BY DEF group
<1>9. Passes(h, group, "chosen", "finished")
  BY <1>6, <1>7, <1>8, OneMilestone
<1>10. QED
  BY <1>8, <1>9, FinishStep

LEMMA JobRefines ==
    ASSUME StepFacts, NEW j \in Workers,
           StartPastRequests(j) \/ StartReviewNotification(j) \/ JobStep(j)
    PROVE  AbstractStep
<1>1. TypeOK /\ HistoryInv
  BY DEF StepFacts, HistoryInv, SafetyInv
<1>2. ASSUME NEW h \in Requests, Expire(j, h) \/ Deliver(j, h)
      PROVE  AbstractStep
  <2>1. /\ UNCHANGED reviews
        /\ offerStatus' = [offerStatus EXCEPT ![h] = OffersClosed(j, h)]
        /\ \E s \in {"Active", "CompletedUnsuccessfully"} : status' = [status EXCEPT ![h] = s]
    BY <1>2 DEF Expire, Deliver
  <2>2. wins' = wins \ {h}
    BY <1>1, <2>1, WinsStep
  <2>3. QED
    BY <2>1, <2>2, ClosedOffersStep
<1>3. ASSUME NEW h \in Requests, CloseSuccessfully(j, h)
      PROVE  AbstractStep
  <2>1. milestones' = milestones
    BY <1>3, UnwrittenOffers DEF CloseSuccessfully
  <2>2. wins' = wins \cup {h}
    BY <1>1, <1>3, WinsStep DEF CloseSuccessfully
  <2>3. PICK v \in Providers : "Finished" \in held[h][v]
    BY <1>1, <1>3 DEF CloseSuccessfully, HistoryInv, ListsWereFinished, WasFinished
  <2>4. milestones[h][v] \in {"finished", "reviewed"}
    BY <2>3 DEF milestones, MilestoneOf
  <2>5. Abstract!Win(h)
    BY <2>1, <2>2, <2>4 DEF Abstract!Win, milestones, wins
  <2>6. QED
    BY <2>5 DEF AbstractStep, Abstract!MNext
<1>4. ASSUME NEW h \in Requests, CloseUnsuccessfully(j, h)
      PROVE  AbstractStep
  <2>1. milestones' = milestones
    BY <1>4, UnwrittenOffers DEF CloseUnsuccessfully
  <2>2. wins' = wins \ {h}
    BY <1>1, <1>4, LossStep DEF CloseUnsuccessfully
  <2>3. QED
    BY <2>1, <2>2, ReopenStep
<1>5. CASE UNCHANGED <<status, offerStatus, reviews>>
  BY <1>5, UnwrittenStep DEF wins
<1>6. QED
  BY <1>2, <1>3, <1>4, <1>5
     DEF StartPastRequests, StartReviewNotification, JobStep, Remind, ReadDelivered,
         ReadSuccessful, ReadUnsuccessful, EndJob, dbVars, requestVars

LEMMA FaultRefines ==
    ASSUME StepFacts, FaultStep \/ Tick \/ UNCHANGED vars
    PROVE  AbstractStep
<1>1. UNCHANGED <<status, offerStatus, reviews>>
  BY DEF FaultStep, CallFails, JobFails, UpdateFails, Crash, Tick, vars, dbVars, requestVars
<1>2. QED
  BY <1>1, UnwrittenStep DEF wins

\* The lifecycle implements the milestones: whatever handlers and jobs overlap,
\* fail or are repeated, each offer passes its milestones in order and keeps them.
THEOREM Refinement == HSpec => MilestonesInOrder
<1>1. HInit => Abstract!MInit
  BY MilestonesOfInit
<1>2. HistoryInv /\ [HNext]_hvars => [Abstract!MNext]_(Abstract!mvars)
  <2> SUFFICES ASSUME HistoryInv, [HNext]_hvars PROVE AbstractStep
    BY DEF AbstractStep
  <2>1. StepFacts /\ [Next]_vars
    BY HistoryStep DEF StepFacts
  <2>2. QED
    BY <2>1, UserRefines, HandlerRefines, JobRefines, FaultRefines DEF Next
<1>3. QED
  BY <1>1, <1>2, History, PTL DEF HSpec, MilestonesInOrder, Abstract!MSpec

-----------------------------------------------------------------------------
(* What the other components see.  A step leaves the rows alone, or writes *)
(* one request and its offers in one of four ways.                         *)

RowsKept == UNCHANGED <<status, offerStatus, acceptUntill>>

RowMade(h) ==
    /\ status[h] = "None"
    /\ status' = [status EXCEPT ![h] = "Pending"]
    /\ \E accept \in Nat : now <= accept /\ acceptUntill' = [acceptUntill EXCEPT ![h] = DateOf(accept)]
    /\ UNCHANGED <<now, offerStatus>>

OfferMade(h, v) ==
    /\ status[h] # "None"
    /\ \E s \in {"Pending", "Canceled"} : offerStatus' = [offerStatus EXCEPT ![h][v] = s]
    /\ UNCHANGED <<now, status, acceptUntill>>

OfferChosen(h, v) ==
    /\ status[h] # "None" /\ offerStatus[h][v] # "None"
    /\ status' = [status EXCEPT ![h] = "Active"]
    /\ offerStatus' = [offerStatus EXCEPT ![h][v] = "Active"]
    /\ UNCHANGED <<now, acceptUntill>>

OffersEnded(h) ==
    /\ status[h] # "None"
    /\ \E s \in RequestStatus : status' = [status EXCEPT ![h] = s]
    /\ \A g \in Requests, v \in Providers :
           \/ offerStatus'[g][v] = offerStatus[g][v]
           \/ g = h /\ offerStatus[g][v] # "None" /\ offerStatus'[g][v] \in {"Canceled", "Finished"}
    /\ UNCHANGED <<now, acceptUntill>>

RowStep ==
    \/ RowsKept
    \/ \E h \in Requests : RowMade(h) \/ OffersEnded(h)
    \/ \E h \in Requests, v \in Providers : OfferMade(h, v) \/ OfferChosen(h, v)

\* The nested update of a cancelation closes one offer of a request that is there.
LEMMA CanceledRow ==
    ASSUME SafetyInv, NEW h \in Requests, NEW v \in Providers, CancelRow(h, v), UNCHANGED now
    PROVE  OffersEnded(h)
<1>1. status[h] # "None"
  BY DEF CancelRow, SafetyInv, MissingIsUnused
<1>2. \A g \in Requests, u \in Providers :
          offerStatus'[g][u] = IF g = h /\ u = v THEN "Canceled" ELSE offerStatus[g][u]
  BY DEF CancelRow, SafetyInv, TypeOK
<1>3. \E s \in RequestStatus : status' = [status EXCEPT ![h] = s]
  BY DEF CancelRow, RequestStatus
<1>4. offerStatus[h][v] # "None" /\ UNCHANGED <<now, acceptUntill>>
  BY DEF CancelRow
<1>5. QED
  BY <1>1, <1>2, <1>3, <1>4 DEF OffersEnded

LEMMA ApprovedRow ==
    ASSUME SafetyInv, NEW h \in Requests, NEW v \in Providers, ApproveRow(h, v), UNCHANGED now
    PROVE  OfferChosen(h, v)
<1>1. status[h] # "None"
  BY DEF ApproveRow, SafetyInv, MissingIsUnused
<1>2. QED
  BY <1>1 DEF ApproveRow, OfferChosen

LEMMA CreatedRow ==
    ASSUME SafetyInv, NEW h \in Requests, NEW accept \in Dates, NEW delivery \in Dates,
           CreateRow(h, accept, delivery), UNCHANGED <<now, offerStatus>>
    PROVE  RowMade(h)
<1>1. accept \in Nat
  BY BoundsAssumption DEF Dates
<1>2. QED
  BY <1>1 DEF CreateRow, RowMade

LEMMA UserRows == SafetyInv /\ UserStep => RowStep
<1> SUFFICES ASSUME SafetyInv, UserStep PROVE RowStep
  OBVIOUS
<1>1. ASSUME NEW h \in Requests, NEW accept \in Dates, NEW delivery \in Dates,
             \/ Create(h, accept, delivery)
             \/ \E w \in Handlers, v \in Providers : CreatePrivate(w, h, v, accept, delivery)
      PROVE  RowStep
  BY <1>1, CreatedRow DEF Create, CreatePrivate, RowStep
<1>2. ASSUME NEW h \in Requests, Cancel(h)
      PROVE  RowStep
  <2>1. ASSUME NEW g \in Requests, NEW v \in Providers
        PROVE  \/ offerStatus'[g][v] = offerStatus[g][v]
               \/ /\ g = h /\ offerStatus[g][v] # "None"
                  /\ offerStatus'[g][v] \in {"Canceled", "Finished"}
    <3>1. offerStatus \in [Requests -> [Providers -> OfferOrNone]]
      BY DEF SafetyInv, TypeOK
    <3>2. offerStatus' = [offerStatus EXCEPT ![h] =
              [u \in Providers |-> IF offerStatus[h][u] \in {"Pending", "Active"}
                                  THEN "Canceled" ELSE offerStatus[h][u]]]
      BY <1>2 DEF Cancel
    <3>3. QED
      BY <3>1, <3>2
  <2>2. status[h] # "None" /\ status' = [status EXCEPT ![h] = "CompletedUnsuccessfully"]
        /\ "CompletedUnsuccessfully" \in RequestStatus
    BY <1>2 DEF Cancel, RequestStatus
  <2>3. OffersEnded(h)
    BY <1>2, <2>1, <2>2 DEF Cancel, OffersEnded
  <2>4. QED
    BY <2>3 DEF RowStep
<1>3. ASSUME NEW h \in Requests, NEW v \in Providers,
             ApproveProviderRequest(h, v) \/ CancelProviderRequest(h, v)
      PROVE  RowStep
  BY <1>3, ApprovedRow, CanceledRow DEF ApproveProviderRequest, CancelProviderRequest, RowStep
<1>4. ASSUME NEW w \in Handlers, NEW h \in Requests, NEW v \in Providers,
             BeginOffer(w, h, v) \/ BeginCancelOffer(w, h, v) \/ BeginReview(w, h, v)
      PROVE  RowStep
  BY <1>4 DEF BeginOffer, BeginCancelOffer, BeginReview, dbVars, requestVars, RowStep, RowsKept
<1>5. QED
  BY <1>1, <1>2, <1>3, <1>4 DEF UserStep, HorecaCall, PrivateCall, ProviderCall, ReviewCall

LEMMA HandlerRows ==
    ASSUME SafetyInv, NEW w \in Handlers, HandlerStep(w)
    PROVE  RowStep
<1>1. call[w].op # "idle" =>
          /\ call[w].request \in Requests /\ call[w].provider \in Providers
          /\ status[call[w].request] # "None"
  BY DEF SafetyInv, TypeOK, Call, IdleCall, MissingIsUnused
<1>2. CASE PrivateOffer(w) \/ InsertOffer(w)
  <2>1. call[w].op # "idle" /\ UNCHANGED <<now, status, acceptUntill>>
    BY <1>2 DEF PrivateOffer, InsertOffer, Resume, requestVars
  <2>2. \/ offerStatus' = [offerStatus EXCEPT ![call[w].request][call[w].provider] = "Pending"]
        \/ UNCHANGED offerStatus
    BY <1>2, Zenon DEF PrivateOffer, InsertOffer
  <2>3. QED
    BY <1>1, <2>1, <2>2 DEF OfferMade, RowsKept, RowStep
<1>3. CASE CancelOtherOffer(w)
  <2>1. OfferMade(call[w].request, call[w].provider)
    BY <1>1, <1>3 DEF CancelOtherOffer, Resume, OfferMade, requestVars
  <2>2. QED
    BY <1>1, <1>3, <2>1 DEF CancelOtherOffer, Resume, RowStep
<1>4. CASE PrivateApprove(w) \/ CancelActiveOffer(w)
  BY <1>1, <1>4, ApprovedRow, CanceledRow DEF PrivateApprove, CancelActiveOffer, Resume, RowStep
<1>5. CASE \E isDelivered, isSuccessfully \in {0, 1} : InsertReview(w, isDelivered, isSuccessfully)
  BY <1>5 DEF InsertReview, requestVars, RowStep, RowsKept
<1>6. QED
  BY <1>2, <1>3, <1>4, <1>5 DEF HandlerStep

\* A stale snapshot is of rows that are there, and closing never chooses.
LEMMA ClosedRow ==
    ASSUME SafetyInv, NEW j \in Workers, NEW h \in Requests, Expire(j, h) \/ Deliver(j, h)
    PROVE  OffersEnded(h)
<1>1. status[h] # "None"
  BY DEF Expire, Deliver, SafetyInv, MissingIsUnused
<1>2. \E s \in RequestStatus : status' = [status EXCEPT ![h] = s]
  BY DEF Expire, Deliver, RequestStatus
<1>3. ASSUME NEW v \in Providers
      PROVE  \/ OffersClosed(j, h)[v] = offerStatus[h][v]
             \/ offerStatus[h][v] # "None" /\ OffersClosed(j, h)[v] \in {"Canceled", "Finished"}
  <2>1. job[j].snapshot[h][v] \in OfferOrNone
    BY DEF SafetyInv, TypeOK, Job
  <2>2. job[j].snapshot[h][v] # "None" => offerStatus[h][v] # "None"
    BY DEF SafetyInv, SnapshotsLag
  <2>3. QED
    BY <2>1, <2>2 DEF OffersClosed, ClosedOffer, OfferOrNone, OfferStatus
<1>4. \A g \in Requests : offerStatus'[g] = IF g = h THEN OffersClosed(j, h) ELSE offerStatus[g]
  BY DEF Expire, Deliver, SafetyInv, TypeOK
<1>5. UNCHANGED <<now, acceptUntill>>
  BY DEF Expire, Deliver
<1>6. QED
  BY <1>1, <1>2, <1>3, <1>4, <1>5 DEF OffersEnded

LEMMA JobRows ==
    ASSUME SafetyInv, NEW j \in Workers,
           StartPastRequests(j) \/ StartReviewNotification(j) \/ JobStep(j)
    PROVE  RowStep
<1>1. ASSUME NEW h \in Requests, CloseSuccessfully(j, h) \/ CloseUnsuccessfully(j, h)
      PROVE  OffersEnded(h)
  <2>1. status[h] # "None"
    BY <1>1 DEF CloseSuccessfully, CloseUnsuccessfully, SafetyInv, MissingIsUnused
  <2>2. QED
    BY <1>1, <2>1 DEF CloseSuccessfully, CloseUnsuccessfully, OffersEnded, RequestStatus
<1>2. ASSUME NEW h \in Requests, Expire(j, h) \/ Deliver(j, h)
      PROVE  OffersEnded(h)
  BY <1>2, ClosedRow
<1>3. CASE RowsKept
  BY <1>3 DEF RowStep
<1>4. QED
  BY <1>1, <1>2, <1>3
     DEF StartPastRequests, StartReviewNotification, JobStep, Remind, ReadDelivered,
         ReadSuccessful, ReadUnsuccessful, EndJob, dbVars, requestVars, RowsKept, RowStep

LEMMA StepRows == SafetyInv /\ [Next]_vars => RowStep
<1>1. FaultStep \/ Tick \/ UNCHANGED vars => RowStep
  BY DEF FaultStep, CallFails, JobFails, UpdateFails, Crash, Tick, vars, dbVars, requestVars,
         RowsKept, RowStep
<1>2. QED
  BY <1>1, UserRows, HandlerRows, JobRows DEF Next

-----------------------------------------------------------------------------
(* The board of incoming requests.                                         *)

ListStatus(s) == IF s \in {"None", "Pending"} THEN s ELSE "Closed"

boardStatus == [h \in Requests |-> ListStatus(status[h])]

boardInTime == {h \in Requests : status[h] # "None" /\ DateOf(now) <= acceptUntill[h]}

boardOffers == {o \in Providers \X Requests : offerStatus[o[2]][o[1]] # "None"}

BoardStep == [Board!BNext]_(Board!bvars)

\* Time can only take requests out of time.
LEMMA KeptRowsOnBoard ==
    ASSUME SafetyInv, now' \in Nat, now <= now', RowsKept
    PROVE  BoardStep
<1>1. DateOf(now) \in Nat /\ DateOf(now') \in Nat /\ DateOf(now) <= DateOf(now')
  BY DateOfMonotone DEF SafetyInv, TypeOK
<1>2. boardInTime' \subseteq boardInTime
  BY <1>1 DEF boardInTime, RowsKept, SafetyInv, TypeOK
<1>3. boardStatus' = boardStatus /\ boardOffers' = boardOffers
  BY DEF boardStatus, boardOffers, RowsKept
<1>4. PICK group \in SUBSET Requests : boardInTime' = boardInTime \ group
  <2>1. boardInTime \ boardInTime' \in SUBSET Requests
    BY DEF boardInTime
  <2>2. boardInTime' = boardInTime \ (boardInTime \ boardInTime')
    BY <1>2
  <2>3. QED
    BY <2>1, <2>2
<1>5. Board!RunOut(group)
  BY <1>3, <1>4 DEF Board!RunOut, boardInTime, boardStatus, boardOffers, ListStatus
<1>6. QED
  BY <1>5 DEF BoardStep, Board!BNext

\* A request is created in time: the date of its accept time is not before today.
LEMMA MadeRowOnBoard ==
    ASSUME SafetyInv, NEW h \in Requests, RowMade(h)
    PROVE  BoardStep
<1>1. PICK accept \in Nat : now <= accept /\ acceptUntill' = [acceptUntill EXCEPT ![h] = DateOf(accept)]
  BY DEF RowMade
<1>2. DateOf(now) <= DateOf(accept)
  BY <1>1, DateOfMonotone DEF SafetyInv, TypeOK
<1>3. /\ status[h] = "None" /\ status'[h] = "Pending"
      /\ \A g \in Requests \ {h} : status'[g] = status[g] /\ acceptUntill'[g] = acceptUntill[g]
      /\ acceptUntill'[h] = DateOf(accept)
      /\ now' = now /\ offerStatus' = offerStatus
  BY <1>1 DEF RowMade, SafetyInv, TypeOK
<1>4. boardStatus' = [boardStatus EXCEPT ![h] = "Pending"] /\ boardStatus[h] = "None"
  BY <1>3 DEF boardStatus, ListStatus
<1>5. boardInTime' = boardInTime \cup {h}
  BY <1>2, <1>3 DEF boardInTime
<1>6. boardOffers' = boardOffers
  BY <1>3 DEF boardOffers
<1>7. Board!Publish(h)
  BY <1>4, <1>5, <1>6 DEF Board!Publish, boardInTime, boardStatus, boardOffers, ListStatus
<1>8. QED
  BY <1>7 DEF BoardStep, Board!BNext

LEMMA MovedRowOnBoard ==
    ASSUME SafetyInv, NEW h \in Requests, status[h] # "None",
           NEW s \in RequestStatus, status' = [status EXCEPT ![h] = s],
           \A g \in Requests, v \in Providers :
               offerStatus'[g][v] = "None" <=> offerStatus[g][v] = "None",
           UNCHANGED <<now, acceptUntill>>
    PROVE  BoardStep
<1>1. status'[h] = s /\ \A g \in Requests \ {h} : status'[g] = status[g]
  BY DEF SafetyInv, TypeOK
<1>2. boardStatus' = [boardStatus EXCEPT ![h] = ListStatus(s)]
  BY <1>1 DEF boardStatus, ListStatus
<1>3. boardStatus[h] \in {"Pending", "Closed"} /\ ListStatus(s) \in {"Pending", "Closed"}
  BY DEF boardStatus, ListStatus, RequestStatus
<1>4. boardInTime' = boardInTime
  BY <1>1 DEF boardInTime, RequestStatus
<1>5. boardOffers' = boardOffers
  BY DEF boardOffers
<1>6. Board!Move(h)
  BY <1>2, <1>3, <1>4, <1>5
     DEF Board!Move, Board!Listed, boardInTime, boardStatus, boardOffers, ListStatus
<1>7. QED
  BY <1>6 DEF BoardStep, Board!BNext

LEMMA OfferOnBoard ==
    ASSUME SafetyInv, NEW h \in Requests, NEW v \in Providers, OfferMade(h, v)
    PROVE  BoardStep
<1>1. PICK s \in {"Pending", "Canceled"} : offerStatus' = [offerStatus EXCEPT ![h][v] = s]
  BY DEF OfferMade
<1>2. \A g \in Requests, u \in Providers :
          offerStatus'[g][u] = IF g = h /\ u = v THEN s ELSE offerStatus[g][u]
  BY <1>1 DEF SafetyInv, TypeOK
<1>3. boardOffers' = boardOffers \cup {<<v, h>>}
  BY <1>2 DEF boardOffers
<1>4. boardStatus[h] \in {"Pending", "Closed"}
  BY DEF OfferMade, boardStatus, ListStatus
<1>5. boardStatus' = boardStatus /\ boardInTime' = boardInTime
  BY DEF OfferMade, boardStatus, boardInTime
<1>6. Board!Offer(v, h)
  BY <1>3, <1>4, <1>5 DEF Board!Offer, Board!Listed, boardInTime, boardStatus, boardOffers, ListStatus
<1>7. QED
  BY <1>6 DEF BoardStep, Board!BNext

\* The lifecycle moves requests and offers as the provider's list of incoming
\* requests takes for granted: an id is published once and in time, nothing comes
\* back in time, and every offer, also one inserted or canceled long after the
\* request was read, is on a request that is there and stays.
THEOREM BoardIsKept == Spec => BoardKept
<1>1. Init => Board!BInit
  BY DEF Init, NoOffers, Board!BInit
<1>2. SafetyInv /\ SafetyInv' /\ [Next]_vars => BoardStep
  <2> SUFFICES ASSUME SafetyInv, SafetyInv', [Next]_vars PROVE BoardStep
    OBVIOUS
  <2>1. now' \in Nat /\ now <= now'
    BY StepEffects DEF Effects, TimeStep, SafetyInv, TypeOK
  <2>2. ASSUME NEW h \in Requests, OffersEnded(h) PROVE BoardStep
    <3>1. PICK s \in RequestStatus : status' = [status EXCEPT ![h] = s]
      BY <2>2 DEF OffersEnded
    <3>2. \A g \in Requests, v \in Providers :
              offerStatus'[g][v] = "None" <=> offerStatus[g][v] = "None"
      BY <2>2 DEF OffersEnded
    <3>3. status[h] # "None" /\ UNCHANGED <<now, acceptUntill>>
      BY <2>2 DEF OffersEnded
    <3>4. QED
      BY <3>1, <3>2, <3>3, MovedRowOnBoard
  <2>3. ASSUME NEW h \in Requests, NEW v \in Providers, OfferChosen(h, v) PROVE BoardStep
    <3>1. \A g \in Requests, u \in Providers :
              offerStatus'[g][u] = "None" <=> offerStatus[g][u] = "None"
      BY <2>3 DEF OfferChosen, SafetyInv, TypeOK
    <3>2. QED
      BY <2>3, <3>1, MovedRowOnBoard DEF OfferChosen, RequestStatus
  <2>4. QED
    BY <2>1, <2>2, <2>3, StepRows, KeptRowsOnBoard, MadeRowOnBoard, OfferOnBoard DEF RowStep
<1>3. QED
  BY <1>1, <1>2, Safety, PTL DEF Spec, BoardKept, Board!BSpec, BoardStep

-----------------------------------------------------------------------------
(* The chosen offers of the chats.                                         *)

actives == {h \in Requests : status[h] = "Active"}

choices == [h \in Requests |-> {v \in Providers : offerStatus[h][v] = "Active"}]

ChoiceStep == [Choices!CNext]_(Choices!cvars)

\* An offer written as anything but Active leaves the chosen ones of its request.
LEMMA OffersLeave ==
    ASSUME NEW h \in Requests, actives' \in {actives \cup {h}, actives \ {h}},
           \A g \in Requests, v \in Providers :
               offerStatus'[g][v] # offerStatus[g][v] => g = h /\ offerStatus'[g][v] # "Active"
    PROVE  ChoiceStep
<1>1. PICK closed \in SUBSET Providers :
          closed = {v \in Providers : offerStatus'[h][v] # "Active"}
  OBVIOUS
<1>2. choices' = [choices EXCEPT ![h] = @ \ closed]
  BY <1>1 DEF choices
<1>3. Choices!Close(h, closed)
  BY <1>2 DEF Choices!Close, choices, actives
<1>4. QED
  BY <1>3 DEF ChoiceStep, Choices!CNext

\* No stale list and no late write makes an offer Active, and none becomes Active
\* without its request: this is what the chats of an offer are opened on.
THEOREM ChoicesAreKept == Spec => ChoicesKept
<1>1. Init => Choices!CInit
  BY DEF Init, NoOffers, Choices!CInit
<1>2. SafetyInv /\ [Next]_vars => ChoiceStep
  <2> SUFFICES ASSUME SafetyInv, [Next]_vars PROVE ChoiceStep
    OBVIOUS
  <2>1. CASE RowsKept
    BY <2>1 DEF RowsKept, ChoiceStep, Choices!cvars
  <2>2. ASSUME NEW h \in Requests, RowMade(h) PROVE ChoiceStep
    <3>1. actives' = actives
      BY <2>2 DEF RowMade, actives, SafetyInv, TypeOK
    <3>2. choices' = choices
      BY <2>2 DEF RowMade, choices
    <3>3. QED
      BY <3>1, <3>2 DEF actives, choices, ChoiceStep, Choices!cvars
  <2>3. ASSUME NEW h \in Requests, NEW v \in Providers, OfferMade(h, v) PROVE ChoiceStep
    <3>1. actives' \in {actives \cup {h}, actives \ {h}}
      BY <2>3 DEF OfferMade, actives
    <3>2. \A g \in Requests, u \in Providers :
              offerStatus'[g][u] # offerStatus[g][u] => g = h /\ offerStatus'[g][u] # "Active"
      BY <2>3 DEF OfferMade, SafetyInv, TypeOK
    <3>3. QED
      BY <3>1, <3>2, OffersLeave
  <2>4. ASSUME NEW h \in Requests, OffersEnded(h) PROVE ChoiceStep
    <3>1. actives' \in {actives \cup {h}, actives \ {h}}
      BY <2>4 DEF OffersEnded, actives, SafetyInv, TypeOK
    <3>2. \A g \in Requests, u \in Providers :
              offerStatus'[g][u] # offerStatus[g][u] => g = h /\ offerStatus'[g][u] # "Active"
      BY <2>4 DEF OffersEnded
    <3>3. QED
      BY <3>1, <3>2, OffersLeave
  <2>5. ASSUME NEW h \in Requests, NEW v \in Providers, OfferChosen(h, v) PROVE ChoiceStep
    <3>1. actives' = actives \cup {h}
      BY <2>5 DEF OfferChosen, actives, SafetyInv, TypeOK
    <3>2. choices' = [choices EXCEPT ![h] = @ \cup {v}]
      BY <2>5 DEF OfferChosen, choices, SafetyInv, TypeOK
    <3>3. Choices!Choose(h, v)
      BY <3>1, <3>2 DEF Choices!Choose, actives, choices
    <3>4. QED
      BY <3>3 DEF ChoiceStep, Choices!CNext
  <2>6. QED
    BY <2>1, <2>2, <2>3, <2>4, <2>5, StepRows DEF RowStep
<1>3. QED
  BY <1>1, <1>2, Safety, PTL DEF Spec, ChoicesKept, Choices!CSpec, ChoiceStep
=============================================================================
