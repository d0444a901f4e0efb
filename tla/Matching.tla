------------------------------- MODULE Matching --------------------------------
(***************************************************************************)
(* Which requests a provider is shown.  The list joins the live tables     *)
(* with provider_horeca_requests_cover_view, a materialized view of the    *)
(* pairs whose categories meet.  The view is refreshed by a job that every *)
(* new request queues and by a call that every new provider starts, and    *)
(* not when a profile changes.  A provider takes a request off its list    *)
(* with an upsert of HorecaRequestProviderStatus.                          *)
(***************************************************************************)
EXTENDS Integers, FiniteSets

CONSTANTS
    Providers, Requests, Categories,
    MaxChanges,   \* bound on the users' calls other than creating and deleting
    MaxFaults     \* bound on refreshes that are lost or fail

Nobody == "nobody"

ASSUME CausesAssumption ==
    /\ Providers \cap Requests = {}
    /\ Nobody \notin Providers \cup Requests
ASSUME CategoriesAssumption == IsFiniteSet(Categories)
ASSUME MatchingBoundsAssumption == MaxChanges \in Nat /\ MaxFaults \in Nat

VARIABLES
    profile,      \* profile[p]: Profile.categories, {} when there is no provider p
    registered,   \* the providers that were ever registered
    status,       \* status[r]: HorecaRequest.status as far as the list asks
    wants,        \* wants[r]: HorecaRequest.categories, {} when there is no request r
    inTime,       \* the requests whose acceptUntill has not passed
    offers,       \* the pairs with a ProviderRequest
    mark,         \* mark[r]: the row of HorecaRequestProviderStatus, unique by request
    marking,      \* the upserts between their select and their write
    view,         \* the rows of the materialized view
    running,      \* the refresh that holds the view's lock, with its snapshot
    waiting,      \* the registrations and creations whose refresh is still to run
    missed,       \* what changed with no refresh of its own to come (history)
    covered,      \* what of missed the running refresh has in its snapshot (history)
    changes, faults

tableVars == <<profile, registered, status, wants, inTime, offers>>
markVars == <<mark, marking>>
refreshVars == <<view, running, waiting, missed, covered>>
vars == <<tableVars, markVars, refreshVars, changes, faults>>

Causes == Providers \cup Requests

Row == [provider : Providers, request : Requests, cover : Nat \ {0}]

Refresh(cause, rows) == [cause |-> cause, rows |-> rows]
NoRefresh == Refresh(Nobody, {})

Mark(p, hidden) == [provider |-> p, hidden |-> hidden]
NoMark == Mark(Nobody, FALSE)

\* An upsert hides the request, shows it again or only sets the viewed flag.
MarkCall == [provider : Providers, request : Requests,
             change : {"hide", "show", "view"}, found : BOOLEAN]

TypeOK ==
    /\ profile \in [Providers -> SUBSET Categories]
    /\ registered \subseteq Providers
    /\ status \in [Requests -> {"None", "Pending", "Closed", "Deleted"}]
    /\ wants \in [Requests -> SUBSET Categories]
    /\ inTime \subseteq Requests
    /\ offers \subseteq Providers \X Requests
    /\ mark \in [Requests -> [provider : Providers \cup {Nobody}, hidden : BOOLEAN]]
    /\ marking \subseteq MarkCall
    /\ view \subseteq Row
    /\ running \in {NoRefresh} \cup [cause : Causes, rows : SUBSET Row]
    /\ waiting \subseteq Causes
    /\ missed \subseteq Causes
    /\ covered \subseteq Causes
    /\ changes \in 0..MaxChanges
    /\ faults \in 0..MaxFaults

Init ==
    /\ profile = [p \in Providers |-> {}]
    /\ registered = {}
    /\ status = [r \in Requests |-> "None"]
    /\ wants = [r \in Requests |-> {}]
    /\ inTime = {}
    /\ offers = {}
    /\ mark = [r \in Requests |-> NoMark]
    /\ marking = {}
    /\ view = {}
    /\ running = NoRefresh
    /\ waiting = {}
    /\ missed = {}
    /\ covered = {}
    /\ changes = 0
    /\ faults = 0

Exists(r) == status[r] \in {"Pending", "Closed"}

\* One more of the calls that MaxChanges bounds.
Change ==
    /\ changes < MaxChanges
    /\ changes' = changes + 1

-----------------------------------------------------------------------------
(* The view. *)

Matches(p, r) == profile[p] \cap wants[r] # {}

\* The share of the request's categories, as the number of them.
Cover(p, r) == Cardinality(profile[p] \cap wants[r])

RowOf(p, r) == [provider |-> p, request |-> r, cover |-> Cover(p, r)]

\* Mutant of Rows: the join without the condition on the categories.
RowsOfAll ==
    {RowOf(p, r) : p \in {q \in Providers : profile[q] # {}},
                   r \in {s \in Requests : wants[s] # {}}}

Rows == {RowOf(m[1], m[2]) : m \in {n \in Providers \X Requests : Matches(n[1], n[2])}}

\* Refreshes of one view exclude each other; each sees the tables of its start.
StartRefresh(c) ==
    /\ running = NoRefresh
    /\ c \in waiting
    /\ running' = Refresh(c, Rows)
    /\ waiting' = waiting \ {c}
    /\ covered' = missed
    /\ UNCHANGED <<tableVars, markVars, view, missed, changes, faults>>

EndRefresh ==
    /\ running # NoRefresh
    /\ view' = running.rows
    /\ running' = NoRefresh
    /\ missed' = missed \ covered
    /\ covered' = {}
    /\ UNCHANGED <<tableVars, markVars, waiting, changes, faults>>

\* The job has one attempt, and the call of a registration none to repeat it.
RefreshFails ==
    /\ running # NoRefresh
    /\ faults < MaxFaults
    /\ faults' = faults + 1
    /\ running' = NoRefresh
    /\ missed' = missed \cup {running.cause}
    /\ covered' = {}
    /\ UNCHANGED <<tableVars, markVars, view, waiting, changes>>

\* Nobody waits for the job to be queued nor for the call to be made.
RefreshLost(c) ==
    /\ c \in waiting
    /\ faults < MaxFaults
    /\ faults' = faults + 1
    /\ waiting' = waiting \ {c}
    /\ missed' = missed \cup {c}
    /\ covered' = covered \ {c}
    /\ UNCHANGED <<tableVars, markVars, view, running, changes>>

-----------------------------------------------------------------------------
(* Providers and requests. *)

\* Mutant of Register: the view is left as it is.
RegisterUnseen(p, categories) ==
    /\ p \notin registered
    /\ registered' = registered \cup {p}
    /\ profile' = [profile EXCEPT ![p] = categories]
    /\ UNCHANGED <<status, wants, inTime, offers, markVars, refreshVars, changes, faults>>

Register(p, categories) ==
    /\ p \notin registered
    /\ registered' = registered \cup {p}
    /\ profile' = [profile EXCEPT ![p] = categories]
    /\ waiting' = waiting \cup {p}
    /\ UNCHANGED <<status, wants, inTime, offers, markVars, view, running, missed, covered,
                   changes, faults>>

\* No refresh follows: the view keeps the categories of an earlier profile.
UpdateProfile(p, categories) ==
    /\ profile[p] # {}
    /\ Change
    /\ profile' = [profile EXCEPT ![p] = categories]
    /\ missed' = missed \cup {p}
    /\ covered' = covered \ {p}
    /\ UNCHANGED <<registered, status, wants, inTime, offers, markVars, view, running,
                   waiting, faults>>

\* The rows of offers and marks go with their provider, those of the view stay.
DeleteProvider(p) ==
    /\ profile[p] # {}
    /\ profile' = [profile EXCEPT ![p] = {}]
    /\ offers' = {o \in offers : o[1] # p}
    /\ mark' = [r \in Requests |-> IF mark[r].provider = p THEN NoMark ELSE mark[r]]
    /\ UNCHANGED <<registered, status, wants, inTime, marking, refreshVars, changes, faults>>

Publish(r, categories) ==
    /\ status[r] = "None"
    /\ status' = [status EXCEPT ![r] = "Pending"]
    /\ wants' = [wants EXCEPT ![r] = categories]
    /\ inTime' = inTime \cup {r}

\* Mutant of CreateRequest: a request made while a refresh runs queues none.
CreateRequestDebounced(r, categories) ==
    /\ Publish(r, categories)
    /\ waiting' = IF running = NoRefresh THEN waiting \cup {r} ELSE waiting
    /\ UNCHANGED <<profile, registered, offers, markVars, view, running, missed, covered,
                   changes, faults>>

CreateRequest(r, categories) ==
    /\ Publish(r, categories)
    /\ waiting' = waiting \cup {r}
    /\ UNCHANGED <<profile, registered, offers, markVars, view, running, missed, covered,
                   changes, faults>>

\* An image that is linked elsewhere rejects the links: the request is there,
\* its refresh is never queued.
CreateRequestHalf(r, categories) ==
    /\ Publish(r, categories)
    /\ missed' = missed \cup {r}
    /\ covered' = covered \ {r}
    /\ UNCHANGED <<profile, registered, offers, markVars, view, running, waiting,
                   changes, faults>>

\* The request goes with the horeca that owned it.
DeleteRequest(r) ==
    /\ Exists(r)
    /\ status' = [status EXCEPT ![r] = "Deleted"]
    /\ wants' = [wants EXCEPT ![r] = {}]
    /\ offers' = {o \in offers : o[2] # r}
    /\ mark' = [mark EXCEPT ![r] = NoMark]
    /\ UNCHANGED <<profile, registered, inTime, marking, refreshVars, changes, faults>>

\* RequestLifecycle says when a request leaves Pending and comes back to it.
ChangeStatus(r) ==
    /\ Exists(r)
    /\ Change
    /\ status' = [status EXCEPT ![r] = IF @ = "Pending" THEN "Closed" ELSE "Pending"]
    /\ UNCHANGED <<profile, registered, wants, inTime, offers, markVars, refreshVars, faults>>

Expire(r) ==
    /\ Exists(r)
    /\ Change
    /\ r \in inTime
    /\ inTime' = inTime \ {r}
    /\ UNCHANGED <<profile, registered, status, wants, offers, markVars, refreshVars, faults>>

\* The status was read before the offer is inserted.
Offer(p, r) ==
    /\ profile[p] # {}
    /\ Exists(r)
    /\ Change
    /\ offers' = offers \cup {<<p, r>>}
    /\ UNCHANGED <<profile, registered, status, wants, inTime, markVars, refreshVars, faults>>

-----------------------------------------------------------------------------
(* The upsert: a select by request and provider, then an update or an insert. *)

BeginMark(p, r, change) ==
    /\ profile[p] # {}
    /\ Exists(r)
    /\ Change
    /\ marking' = marking \cup {[provider |-> p, request |-> r, change |-> change,
                                 found |-> mark[r].provider = p]}
    /\ UNCHANGED <<tableVars, mark, refreshVars, faults>>

Hidden(change, before) ==
    CASE change = "hide" -> TRUE [] change = "show" -> FALSE [] change = "view" -> before

UpdateMark(c) ==
    /\ c.found
    /\ mark[c.request].provider = c.provider
    /\ mark' = [mark EXCEPT ![c.request].hidden = Hidden(c.change, @)]
    /\ marking' = marking \ {c}
    /\ UNCHANGED <<tableVars, refreshVars, changes, faults>>

\* Mutant of InsertMark: a row of the request is replaced.
InsertMarkAnyway(c) ==
    /\ ~ c.found
    /\ Exists(c.request)
    /\ profile[c.provider] # {}
    /\ mark' = [mark EXCEPT ![c.request] = Mark(c.provider, Hidden(c.change, FALSE))]
    /\ marking' = marking \ {c}
    /\ UNCHANGED <<tableVars, refreshVars, changes, faults>>

InsertMark(c) ==
    /\ ~ c.found
    /\ mark[c.request] = NoMark
    /\ Exists(c.request)
    /\ profile[c.provider] # {}
    /\ mark' = [mark EXCEPT ![c.request] = Mark(c.provider, Hidden(c.change, FALSE))]
    /\ marking' = marking \ {c}
    /\ UNCHANGED <<tableVars, refreshVars, changes, faults>>

\* The row found was deleted; or the request has a row by now, another
\* provider's or this one's; or the request or the provider is gone.
MarkRejected(c) ==
    /\ \/ c.found /\ mark[c.request].provider # c.provider
       \/ ~ c.found /\ mark[c.request] # NoMark
       \/ ~ Exists(c.request)
       \/ profile[c.provider] = {}
    /\ marking' = marking \ {c}
    /\ UNCHANGED <<tableVars, mark, refreshVars, changes, faults>>

-----------------------------------------------------------------------------
(* The system. *)

StatusCall(p) ==
    \E r \in Requests, change \in {"hide", "show", "view"} : BeginMark(p, r, change)

ProviderStep(p) ==
    \/ \E categories \in SUBSET Categories \ {{}} :
          Register(p, categories) \/ UpdateProfile(p, categories)
    \/ DeleteProvider(p)
    \/ \E r \in Requests : Offer(p, r)
    \/ StatusCall(p)

RequestStep(r) ==
    \/ \E categories \in SUBSET Categories \ {{}} :
          CreateRequest(r, categories) \/ CreateRequestHalf(r, categories)
    \/ DeleteRequest(r)
    \/ ChangeStatus(r)
    \/ Expire(r)

MarkStep(c) == UpdateMark(c) \/ InsertMark(c) \/ MarkRejected(c)

RefreshStep ==
    \/ \E c \in Causes : StartRefresh(c) \/ RefreshLost(c)
    \/ EndRefresh
    \/ RefreshFails

Next ==
    \/ \E p \in Providers : ProviderStep(p)
    \/ \E r \in Requests : RequestStep(r)
    \/ \E c \in marking : MarkStep(c)
    \/ RefreshStep

Spec == Init /\ [][Next]_vars

\* The queue takes its jobs and the database ends its refreshes.
FairSpec == Spec /\ WF_vars(\E c \in Causes : StartRefresh(c)) /\ WF_vars(EndRefresh)

-----------------------------------------------------------------------------
(* What a provider is shown. *)

ListedRows(p) ==
    {row \in view :
        /\ row.provider = p
        /\ status[row.request] = "Pending"
        /\ row.request \in inTime
        /\ Matches(p, row.request)
        /\ <<p, row.request>> \notin offers}

\* The list of the status Actual.
ActualRows(p) == {row \in ListedRows(p) : ~ mark[row.request].hidden}

-----------------------------------------------------------------------------
(* Properties *)

\* What has a refresh to come, or changed without one.
Unsettled == waiting \cup missed \cup {running.cause}

Wanted(p, r) ==
    /\ status[r] = "Pending"
    /\ r \in inTime
    /\ Matches(p, r)
    /\ <<p, r>> \notin offers

\* The list of a provider has every request that matches its profile, once and
\* with the right cover, and no other, although refreshes run late, in any
\* order and from old snapshots: only what waits for its refresh or changed
\* without one may be missing.
SettledListIsComplete ==
    \A p \in Providers \ Unsettled, r \in Requests \ Unsettled :
        {row \in ListedRows(p) : row.request = r} =
            IF Wanted(p, r) THEN {RowOf(p, r)} ELSE {}

\* A call of the provider the mark belongs to, that had found the mark.
OwnCall(r) ==
    \E c \in marking \ marking' :
        /\ c.found /\ c.request = r
        /\ c.provider = mark[r].provider /\ mark'[r].provider = c.provider
        /\ ~ mark'[r].hidden => c.change = "show"

\* A mark that is there changes only by its own provider's call, and stops
\* hiding only if that call says so: no insert that comes late resets it.
OwnerChangesMark ==
    [][\A r \in Requests :
          mark[r] # NoMark /\ mark'[r] \notin {mark[r], NoMark} => OwnCall(r)]_vars

\* A request that matches a provider comes into its view, unless it matches no
\* more or its refresh was lost.
MatchReachesProvider ==
    \A p \in Providers, r \in Requests :
        Matches(p, r) ~> \/ RowOf(p, r) \in view
                         \/ ~ Matches(p, r)
                         \/ {p, r} \cap missed # {}

-----------------------------------------------------------------------------
(* What the list takes for granted of the lifecycle, which promises it as   *)
(* BoardKept, and what users that are deleted take with them.              *)

Board == INSTANCE RequestBoard

\* Requests and offers come, move and go as on the board, although the rows of
\* the view and the marks follow them late or not at all.
FollowsBoard == Board!BSpec
=============================================================================
