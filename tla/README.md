# horeca-api: a verification project

horeca-api is a NestJS service for hotels, restaurants and cafés ("horecas") that publish
requests for goods, and for providers that make offers on them. It keeps its state in
PostgreSQL through Prisma, runs its background work on a Bull queue and on cron schedules, and
pushes events over socket.io. This directory holds TLA+ modules translated from that code, TLC
configurations that check them on small instances, and TLAPS proofs that establish the most
important properties for every value of the constants. Paths below are relative to the root of
the repository's files; `src/src/...` is the application code.

1. [Inventory](#1-inventory)
2. [Modules and how they correspond to the code](#2-modules-and-how-they-correspond-to-the-code)
3. [Runs](#3-runs)
4. [Fairness](#4-fairness)
5. [Proofs](#5-proofs)
6. [What the code does against its own documentation](#6-what-the-code-does-against-its-own-documentation)
7. [What is not modelled](#7-what-is-not-modelled)
8. [Plan](#8-plan)

Running things, from this directory: `tlc -workers 2 -config lifecycle_safety.cfg
MCRequestLifecycle.tla`, `tlapm LifecycleProofs.tla`. `PROJECT.json` lists the runs with their
modules, the source lines each definition stands for, the hazards and the theorems.

## 1. Inventory

Nothing in this code uses a database transaction of its own (`$transaction` does not occur). The
unit of atomicity is one Prisma call: a nested write is one transaction, two awaits are two. So
any two HTTP handlers, jobs and cron runs interleave between awaits, and what a handler or job
read before an await may be stale when it is used. That one fact makes most of the hard
behaviours below, and none of the tests exercises it: they call one handler after the other, mock
the queue (`src/src/test/setup.ts`) and call the refresh of the view by hand.

| component | state it keeps | operations | interacts with |
|---|---|---|---|
| HorecaRequests (`horecaRequests/services`) | `HorecaRequest`: status, acceptUntill (a date), deliveryTime, reviewNotificationSent | create, approveProviderRequest, cancelProviderRequest, cancel, reads | queue, attachments, chats, notifications |
| Hourly jobs (`horecaRequests/cron`) | the list of a job, in memory | pastRequests (expire, finish deliveries), sendReviewNotification (remind, close), refresh of the view, notification of the matched providers | requests, offers, reviews, matching |
| ProviderRequests (`providerRequests`) | `ProviderRequest`: status, unique by user and request | create, cancel, list of incoming requests, mark of an incoming request | requests, matching, attachments |
| HorecaPrivateRequests | none | create: a request, the offer of a chosen provider and its approval | requests, offers |
| Reviews | `ProviderRequestReview`, unique by offer | create | offers, closing jobs |
| Matching (`shared/requestsMatcher`, the cover view) | a materialized view; `HorecaRequestProviderStatus`, unique by request | refresh, list, upsert of a mark | requests, profiles |
| Mail queue (`system/cron`, `mail`) | `CronTask`: status, tries; `Mail`, `MailLog` | create a mail, processTasks every 30 seconds | SMTP |
| Chats (`chat`) | `Chat`, `ChatMessage`; chatId of offers, favourites and support requests | createChat, server messages, messages of users | offers, favourites, support requests |
| SupportRequests | status, adminId | create, assignAdmin, resolve | chats |
| Favourites | `HorecaFavourites` (not unique) | create, delete | chats |
| Uploads and links (`uploads`) | `Upload`, `UploadsLink`, unique by image | upload, delete, createMany, deleteAllForSourceId | every component with images |
| Products | `Product` | create, update, delete | attachments |
| Request templates | `HorecaRequestTemplate` | create, update, delete | attachments |
| Users and authorization (`users`) | `User`, `Profile`, `Address`; one activationLink for activation, recovery and change of the password | registrate, activate, recover, change, login, update, delete | mail queue, matching, attachments |
| Gateways and messages (`system/ws.gateway.ts`, `notifications`, `chat`) | the connected clients, in memory; `ChatMessage` | connect, disconnect, sendTo, send a message, read the history | chats, all notifications |
| Paginated listings (`findAllAndCount` of nine services) | none | a page and its total, by offset | every table with a listing |
| Guards, DTOs, bootstrap, migrations, frontend examples | none | validation, wiring | all |

What is hard, and what makes each component correct:

* **Requests, offers and jobs.** A job reads a list of requests with their offers and then writes
  them one by one by id, with a value computed from what it read (`horecaRequests.db.service.ts`
  138 and 148). Handlers check a status and write after an await. The Bull processors of one queue
  share their concurrency, so two jobs may run together, and a stalled job runs again. Correct
  means: nothing is finished, completed or reminded of too early; an offer never goes back to
  Pending nor is finished unless somebody chose it; a review is of an offer that was finished; a
  request ends in the end.
* **Matching.** The view is refreshed after a registration and after a request, by a call or a job
  that nobody waits for, and never after a change of a profile. Correct means: for what has no
  refresh to come and did not change without one, the list is complete and right; a mark belongs
  to its provider.
* **Mail queue.** Runs overlap, write tries from stale lists, and lock nothing. Correct means: no
  mail is given up early, Done means sent and logged, retries end.
* **Chats.** The check for an existing chat and the insert are two awaits; only the resource of the
  chat's type is checked, and every resource that the call names is connected; the opening messages
  come after; cancelations announce themselves in the chat they have read. Correct means: a chat of
  its own type that a resource is left with is opened, messages are in a chat their subject was part
  of, a support chat is of an administrator of the request, and no resource that has a chat gets a
  second one of its own type but from calls that overlap.
* **Attachments.** A row and its links are written apart, links are replaced by deleting all of
  them first, and an image has one link. Correct means: links are whole or absent, images do not
  change hands, a deleted profile keeps none.

* **Accounts.** Registration looks for the email and inserts later; the mail with the activation link
  is asked for when the user is there; an update of a profile deletes and keeps addresses by a list
  it read before. Correct means: an email has one account, tokens go to accounts whose link was
  mailed to the email they registered with, an account has its mail unless its handler was cut off, an update takes away no address
  that it has not read.
* **Gateway.** An event goes to the first connection of a user in a list in memory; a dead socket
  stays in the list until the server notices; everything else must be found in a history whose pages
  shift, and whose messages may share a millisecond. Correct means: what a client misses silently is
  at most what a fault cut off or a tie explains, and a connected user is reached in the end.
* **Listings.** A page and its total are two queries, and pages are found by offset while rows come
  and go. Correct means: what a walk misses or sees twice is only what rows before it, or rows with
  its sort key, explain.

The list `hazards` in `PROJECT.json` names each hard behaviour at its line with the properties
that would catch it going wrong.

## 2. Modules and how they correspond to the code

| module | models | abstracts or refines |
|---|---|---|
| `RequestLifecycle` | requests, offers, private requests, reviews, both hourly jobs | refines `RequestBoard` and `ChosenOffers` |
| `OfferHistory` | `RequestLifecycle` with a history of the statuses of each offer | refines `OfferMilestones` |
| `OfferMilestones` | what the lifecycle promises of an offer: offered, chosen, finished, reviewed, in this order | |
| `RequestBoard` | what the list of incoming requests relies on: how requests are published, leave Pending, run out and get offers | |
| `ChosenOffers` | what the chats rely on: how offers become Active with their request, and are closed | |
| `MailQueue` | CronTask rows and overlapping runs of processTasks | |
| `Chats` | creation of chats, opening and server messages, support requests, favourites | refines `ChosenOffers` |
| `Matching` | the cover view, its refreshes, the list of incoming requests, marks | refines `RequestBoard` |
| `Attachments` | uploads, links, products, avatars, sources linked at their creation | |
| `Accounts` | registration, activation, recovery, passwords, sessions, profiles with addresses, deletion | refines `AccountDirectory` |
| `AccountDirectory` | what the accounts promise of an email | |
| `Gateway` | connections, messages of users, the history and the clients that read it | |
| `Listings` | the nine paginated listings and a client that walks through one | |
| `MC...` | symmetry sets for TLC | |
| `...Proofs` | the theorems of section 5 | |

Conventions. One await of the code is one action. A handler that reads, awaits and writes is two
actions, and what it has read is kept in `call[w]` for a handler slot `w`; a job keeps its list and
the offers read with it in `job[j]`. `Suspend(w, ...)` is the await. A rejected await ends the
handler (`CallFails`): main.ts logs unhandled rejections and goes on, and nothing is rolled back. A
crash (`Crash`) ends all handlers and jobs and leaves the tables. A unique column is a guard of the
insert with the rejection beside it. Ids are model values; texts and authorship checks that reject a
stranger are left out, so the actors are those the guards let through.

**RequestLifecycle.** `now` is a clock of `Day` ticks a day; `DateOf` is the truncation that a
`@db.Date` column and filter do. `status`, `acceptUntill`, `deliveryTime`,
`reviewNotificationSent` are columns of HorecaRequest, `offerStatus[h][v]` that of the offer of
provider v ("None": no row), `reviews` the rows of ProviderRequestReview.
`ApproveProviderRequest`, `CancelProviderRequest` and `Cancel` are one nested update each and have,
like the code, no guard on the status of the request. `CreatePrivate`, `PrivateOffer` and
`PrivateApprove` are the three awaits of HorecaPrivateRequestsService.create. `BeginOffer` /
`InsertOffer`, `BeginCancelOffer` / `CancelActiveOffer` | `CancelOtherOffer` and `BeginReview` /
`InsertReview` are the read and the write of the provider's and reviewer's handlers.
`StartPastRequests`, `Expire`, `ReadDelivered`, `Deliver` are the job pastRequests;
`StartReviewNotification`, `Remind`, `ReadSuccessful`, `ReadUnsuccessful`, `CloseSuccessfully`,
`CloseUnsuccessfully` the job sendReviewNotification. `Deliver` writes Active, as the status map of
the code leaves the status that was read: a cancelation that came after the list was read is
overwritten, and the request is closed by a later job instead. `Successful` and `Unsuccessful`
translate the two queries literally: a wholly positive review satisfies both (the second asks for
isSuccessfully = 1), so such a request is written twice, in an order nothing fixes.

**OfferHistory** adds `held[h][v]`, every status the offer has had, because the code overwrites the
status and the properties speak of the past. `MilestoneOf` maps it to `OfferMilestones`, whose
`won` is the set of requests that are CompletedSuccessfully. Since approvals and cancelations are
not guarded by the request's status, a won request may be reopened; the abstract module says so
(`MayReopen`, `Reopen`) rather than hiding it.

**MailQueue.** `doing[r][t]` is the place of run r in the promise chain of task t, `listed[r][t]`
the tries of its list. `StartTask` writes `listed + 1` without a condition. `starts` and `sent` are
histories. readyTask and the branch for an empty result are unreachable, because an update by id
returns its row or throws, and sendMail returns the positive id of a log row or throws.

**Chats.** `Offers` are the offers of one request. `state[r] = "ready"` says that an offer is
Active, or that a favourite or support request exists; `active` that the request is Active.
`Approve` and `Close` stand for `RequestLifecycle`: they let any offer be approved or closed at any
time. `ChosenOffers` says just that of the offers of a request, and both modules refine it. A call
names a set of ids, at most one of each kind (`IdSets`): `BeginCreate` is the check of the resource
of the type that is asked for, `CreateChat` the insert that connects them all, `with` of a chat what
its insert connected. Messages are a set of (chat, kind, subject): rows that look alike are one.
`OrderReady`, `FavouriteReady` and `SupportReady` are the three isReadyForChat; the first does not
look at the caller. The opponent of a chat is a number of the call of which nothing is asked for an
offer or a support request, so nothing can be said of opponents, and they are left out. `by`, the
creator, is kept for support chats, where `SupportChatHasAdmin` speaks of it. `FavouriteCall` is what
the controller of the favourites lets a horeca do. A handler may be cut off at any of its awaits, any
number of times; `spoiled` are the chats whose opening that happened to. Messages of users are in
`Gateway`.

**Matching.** `view` is the materialized view, `running` a refresh with the snapshot of its start
(refreshes of one view exclude each other by its lock), `waiting` the registrations and requests
whose refresh is still to run, `missed` those whose refresh was lost or that changed without one
(a profile update starts none; a request whose links are rejected queues none). `ListedRows` and
`ActualRows` are the filters of findHorecaRequests, which reads the live tables beside the view.
`BeginMark` / `UpdateMark` | `InsertMark` | `MarkRejected` are the two statements of Prisma's upsert
on a table that is unique by request, and `StatusCall` the call of the controller. `ChangeStatus` and
`Expire` stand for `RequestLifecycle`; `RequestBoard` says what they may do, and both modules refine
it. At midnight several requests may run out together; `Expire` takes them one by one.

**Attachments.** `linked[i]` is the source of the link of image i; the unique imageId makes it a
function. `Create` is the row of a source with its links to come, `BeginUpdateProduct` /
`UpdateProduct` / `DeleteLinks` / `CreateLinks` the awaits of ProductsService.update,
`UpdateAvatar` those of UsersService.update, `DeleteUser` / `ClearLinks` those of
UsersService.delete. `contested` and `given` are histories for the properties: whether handlers
overlapped on a source since its links were last replaced by one alone, and what the last complete
handler linked. The update of a template rewrites its content and touches neither its row's
existence nor its links, so it is no step of this model. `ProductCall`, `ProfileCall` and `OtherCall`
are the calls of the controllers.

**Accounts.** `account[u]` is whether the row is there and activated, `mails[u]` which mails were
asked for, `linkAt[u]` the emails that its activation link was mailed to (there is one link for
activation, recovery and the change of a password, and it is never renewed), `joined[u]` the email it
registered with, `sessions` who was given a token. A mail goes to the email its handler has read,
which the account may have left meanwhile (`Mailing`, `SendMail`).
`BeginRegister` / `CreateUser` and `BeginUpdate` / `UpdateProfile` are cut at the await between what is
read and what is written. `AccountDirectory` is the abstract specification: an email belongs to one
account at a time, and registration, activation, move and deletion are atomic. `Authorized` is the
JWT strategy, which looks up the user of a token on every call; `ProfileCall` and `AdminCall` are the
calls of the two controllers behind it.

**Gateway.** `listed` and `ahead` are the array clients of WsGateway with its order, `socket[c]` what
the network has of a connection ("dead": gone, and the server has not noticed), `due[m]` to whom a
stored message is emitted, `known[c]`, `offset[c]` and `walked` what the client of c has been given
and how far it has read. A message is numbered as it is stored and has any millisecond
(`createdAt`): handlers store two side by side, and nothing makes the later row the younger. A page is
cut out of any sequence that has createdAt in descending order (`Ordered`, `Page`), a new one for
every query, since the order has no tie-break. The client reads the history, page by page and newest
first, when it likes; `GetChat` is the chat opened by its id, which comes with its newest `Latest`
messages and says nothing of how far the client has read. `Watched` are the parties whose connections
the model follows; what the others send and are sent costs no state. Faults are possible at any step.

**Listings.** A listing is a record of what its findAllAndCount asks for (`searched`, `sorts`) and of
what other operations can do to its rows (`changes`, `erased`). `ReadPage` and `ReadCount` are the two
queries, `Answered` the client's next step. A row is its sort key and whether it meets the condition.
`kept`, `advanced` and `delayed` are histories: the rows whose place nobody touched since the walk
began, and those of them that another row may have moved. `Ordered` has every order the database may
return for rows of one key. createdAt is the insertion clock; where the orderBy of the code starts
with createdAt, another field makes two keys, which Prisma rejects, so these listings take no other.

## 3. Runs

Passing runs:

| run | bounds | checks and shows |
|---|---|---|
| `lifecycle_safety` | 1 request, 2 providers, 2 suspended handlers, 1 job, a day of 2 ticks, 9 ticks, 5 calls, 1 fault | `FinishedIsDue`, `SuccessIsOverdue`, `ReminderIsDue`: no stale list or late write finishes, completes or reminds too early; `OffersAdvance`: no offer goes back to Pending and none is finished out of Pending; `BoardKept`: the lifecycle implements `RequestBoard` |
| `lifecycle_live` | 1 request, 1 provider, 1 handler, 1 job, 5 calls, 1 fault | `ExpiredLeavesPending`, `EveryRequestCompletes`: requests end, except those neither closing query selects (section 6) |
| `offer_history` | 1 request, 2 providers, 1 handler, 2 jobs together | `OnlyChosenFinish`, `OnlyFinishedReviewed`, `SuccessWasDelivered`; `MilestonesInOrder`: the lifecycle implements `OfferMilestones` |
| `mail_queue` | 1 mail, 3 overlapping runs, CRON_MAX_TRIES = 3, 1 fault | `GivenUpLate`, `DoneWasSent`, `EveryMailSettles` |
| `chats` | 1 offer, 1 favourite, 1 support request, 2 administrators, 2 handlers, 2 ids a call, 2 chats, faults at any await | `LinkedChatOpened`, `MessagesBelong`, `SupportChatHasAdmin`, `SettledLink`: what holds of links and messages although calls of other types take resources |
| `matching` | 2 providers, 1 request, 2 categories, 2 changes, 1 fault | `SettledListIsComplete`, `OwnerChangesMark`, `MatchReachesProvider` |
| `accounts` | 2 users, 2 emails, 2 passwords, 2 addresses, 2 handlers, 1 fault | `SessionsWereMailed`, `ActivationMailed`, `AddressesLeaveKnowingly`; `ImplementsDirectory`: the accounts implement `AccountDirectory` |
| `gateway` | 2 parties, 2 connections of one of them, 1 handler, 3 messages of 3 milliseconds in any order, pages of 1, the newest 2 with a chat, faults at any step | `NoSilentGap`: a client that was first in the list when it began to read misses nothing but ties and what a fault cut off; `NotShadowed`: a connected user comes first sooner or later, or drops |
| `listings` | 4 rows, pages of 2, 3 values of the sort key, all nine listings and their sorts | `NothingSkipped`, `NothingTwice`: a walk misses a row, or shows it twice, only when a row before it left, or came, or shares its key |
| `attachments` | 3 images, a product, a profile, a template, 2 handlers, 2 updates, 1 fault | `AllOrNothing`, `GoneProfileIsBare`, `NoImageIsTaken` |

Why the bounds are enough to show something. Requests do not influence each other: every write of
the code is to one request and its offers, found by id; the lists of a job are sets and each entry
is written by itself, so one request with several offers and several actors has all of the
interference there is (the proofs of section 5 are for any number). Two providers are needed for an
approval of one offer beside the cancelation of another. Two handlers, or a handler and a job, or
two jobs, are the pairs whose awaits interleave; a third one adds no new pair to a property about
one offer. In `lifecycle_safety` a day has two ticks, so that the truncation of acceptUntill to
its date is visible; nine ticks go past the three days after the latest delivery. Five calls allow
create, offer, approve, cancel and one more beside the jobs. Three runs of the mail queue make a
list stale twice. Two chats are those of two calls that overlap, for one resource or for one that
the other call takes; two ids are one that is checked and one that is not. A third chat or id takes
TLC beyond five minutes, and all properties of the run are proved for any number. Three images are enough for two lists that differ and overlap. Two accounts and two
emails let a registration, an update and a deletion compete for one email; two addresses are one
that an update has read, to keep or to drop, and one that another update brings meanwhile. Two
connections are a stale one
and its successor, or two tabs, of the one party that is followed: nothing that is said of a
connection depends on another user's. Three messages of three milliseconds stand in every order, with
every tie, across two or three pages. `gateway` has one handler because two of them take TLC beyond
five minutes, and `NoSilentGap` is proved for any number. Four rows and pages of two are two pages, with
a row of either that moves to the other. One fault is put before, between or after any two awaits.

The runs with a next-state relation that ends (bounded calls, everything done) say
`CHECK_DEADLOCK FALSE`; the lifecycle runs do not need to, since their jobs start again for ever.

Runs that exhibit a disagreement of the code with its own documentation, each with one property,
are in section 6: `negative_review` and `address_lost`.

## 4. Fairness

* `RequestLifecycle!FairSpec`: the clock goes on; node resumes a handler or job whose await has
  settled (weak fairness of its steps); the cron adds both jobs every hour
  (`horecaRequests.cron.service.ts`) to a queue that takes them in order, so each kind of job is
  started again and again whenever a worker is free again and again (strong fairness of its start,
  because another job may hold the worker in between). Nobody is obliged to call a handler; no
  fault is obliged to happen, and faults are finitely many.
* `MailQueue!Fairness`: the schedule starts a run every 30 seconds
  (`mail.cron.service.ts` 18-21), and a run goes on with each of its tasks. Whether SMTP
  accepts a mail is not assumed.
* `Matching!FairSpec`: the queue takes the refresh jobs it has and the database ends a refresh it
  has begun. That a job is queued at all is not assumed (`RefreshLost`).
* `Gateway!Fairness`: the server notices a dead socket, since its pings go unanswered (engine.io's
  pingTimeout), and handles the disconnection. No client is obliged to connect or to read.

`ExpiredLeavesPending`, `EveryRequestCompletes`, `EveryMailSettles`, `MatchReachesProvider` and
`NotShadowed` rest on these assumptions.

## 5. Proofs

All theorems are checked by tlapm to the last leaf; they hold for any sets and any bounds, under
the assumptions stated beside the constants: `DayAssumption` (a day has at least one tick),
`BoundsAssumption`, `TriesAssumption`, `FaultsAssumption`, `ChatBoundsAssumption` (ids of a call and
chats), `MatchingBoundsAssumption` and `AttachmentBoundsAssumption` (bounds are natural numbers),
`UsersAssumption`, `EmailsAssumption`, `PartiesAssumption` (a chat has at most two parties, as
createChat makes it, and the followed ones are among them), `AccountFaultsAssumption`,
`GatewayBoundsAssumption` (bounds on messages and milliseconds, a page of at least one message), `DisjointAssumption`, `CausesAssumption` and `SourcesAssumption` (different kinds of
rows are different values), `CategoriesAssumption` (finitely many categories) and
`ListingsAssumption` (finitely many rows, a page of at least one).

* `LifecycleProofs` is about `RequestLifecycle` and `OfferHistory`, in three parts.
  * Safety: `TypeCorrect` (TypeOK is inductive by itself), `FinishedIsDue`, `SuccessIsOverdue`,
    `ReminderIsDue` and the action property `OffersAdvance`. None of these is inductive: a job writes
    from what it read earlier. The invariant `SafetyInv` adds what remains true of a list between its
    query and its use: `ListsAreDue` (the entries of a list were due when it was read, time does not
    go back and the dates of a request are fixed at its creation, so they are due still),
    `MissingIsUnused` (rows that do not exist are in no list, snapshot or call) and `SnapshotsLag` (an
    offer in a snapshot is at, or behind, its row). The proof that each action keeps it is by action;
    steps that leave the rows of a part alone are dealt with together.
  * History: the three history invariants and the refinement `MilestonesInOrder`. `HistoryInv` says
    that the present status, and every status in a job's snapshot, is in `held`, that the lists of
    successful requests have an offer that was Finished and that a suspended review is of one. From it
    `Refinement` shows that every step passes a milestone, reopens or wins a request, or stutters.
  * Interfaces: `BoardIsKept` and `ChoicesAreKept`, the refinements of `RequestBoard` and
    `ChosenOffers`. They need `SafetyInv` too: a list that names a request which was never published
    (`MissingIsUnused`), or a late write that makes an offer Active again (`SnapshotsLag`), would
    break them.
* `MailQueueProofs` proves `GivenUpLate` and `DoneWasSent`. `MailInv` adds that no column and no
  stale list counts more tries than there were starts, and that a run past sending has sent.
* `ChatsProofs` proves the three invariants and `SettledLink`. `ChatInv` adds that a link is to a chat
  whose insert connected the resource (`LinksFit`), that messages still to be written are of such a
  chat too (`Fits`), which is why a late message is never in a foreign chat whoever takes the resource
  meanwhile, that an assigned administrator was recorded before a creation relies on it, and that a
  resource that is left with a chat of its own type finds it opened, or will by the handler that
  created it (`OpeningWritten`). `ChoicesOpen` is the refinement of `ChosenOffers`, and
  `EveryChoiceIsTaken` its converse: every step of `ChosenOffers` is one of `Chats`.
* `MatchingProofs` proves `SettledListIsComplete` and `OwnerChangesMark`. `MatchInv` says that the
  rows of the view are right for every pair without a refresh to come or a change without one, and
  that the rows of the refresh under way are right for every pair that has not changed since its
  start; ending the refresh turns the second into the first. `BoardIsFollowed` is the refinement of
  `RequestBoard`, and `BoardMovesAreTaken` its converse: what the board lets happen to one request is
  a step of `Matching`, as long as its bound on changes is not reached.
* `AttachmentsProofs` proves `AllOrNothing`, `GoneProfileIsBare` and `NoImageIsTaken`. `AttachInv`
  says of a source that is not contested that at most one handler is at it, that its links are none
  or those of the last complete handler that are still uploaded, none at all when a handler is
  about to link it, and that a deleted profile is bare or has its deletion under way; a source
  whose row does not exist yet has neither handlers nor links.
* `AccountsProofs` proves `SessionsWereMailed`, `ActivationMailed`, the action property
  `AddressesLeaveKnowingly` and the refinement `ImplementsDirectory`. `AccountInv` adds that a
  suspended call names a user that was there when it began, and an email or addresses that it has
  read (`CallsFit`), and what is known of the link (`LinksFit`): until an account is active it keeps
  the email of its registration, its link goes nowhere else, and the mails under way go there, so
  that whoever uses the link first reads that mailbox.
* `GatewayProofs` proves `NoSilentGap`. The rank of a message is the number of younger ones. A message
  that shares its millisecond with no other stands, in every order the database may return, where its
  rank says (`RankIsPosition`, by a bijection with the places before it), so a page has it when its
  rank is asked for (`PageHasRanks`); and a message that is stored later makes no rank smaller
  (`RankGrows`), however old its millisecond. `GatewayInv` adds, for a client that was first in the
  list when it began to read, that it knows every such message whose rank it has passed: a message that
  comes while it reads is emitted to it, since it stays first in the list whoever comes and goes.

* `ListingsProofs` proves `NothingSkipped`, `NothingTwice` and, for a row that nothing before it
  moved, `OnceEach`, for any number of rows, pages of any size and walks of any length. The rank of a place
  is the number of places before it; a place with a sort key of its own stands, in every order the
  database may return, where its rank says. `WalkInv` says that the walk has seen a row that keeps its
  place just when its rank is among those passed: while no place before it is left, the rank of an
  unseen row does not fall below them, and while none is taken, that of a seen one does not rise above
  them. The lemmas on ranks are about cardinalities; none needs an induction.

The two interfaces tie the modules together without one large composition. `RequestLifecycle` keeps
to `RequestBoard` and `ChosenOffers`, so what `Matching` and `Chats` take from the lifecycle happens
there; and the converse theorems say that what the lifecycle promises is a step of its users, so none
of its behaviours is assumed away. `ChoicesKept`, `OnlyChoicesOpen` and `FollowsBoard` are proved and
not in a run.

Every one of these modules also proves the type invariant of its component.

Only model-checked: liveness, which is beyond the provers (fairness and ENABLED), that is
`ExpiredLeavesPending`, `EveryRequestCompletes`, `EveryMailSettles`, `MatchReachesProvider` and
`NotShadowed`. Every other property of the passing runs is a theorem.

## 6. What the code does against its own documentation

* `negative_review`: schema.prisma 64 says a request is CompletedUnsuccessfully "according review if
  any of review options is not positive". The query for that list (`horecaRequests.db.service.ts`
  294) asks for isDelivered = 0 or isSuccessfully = **1**; a request whose reviews say delivered
  and not successful is in neither list and stays Active for ever.
* `address_lost`: the DTO of a horeca's profile asks for at least one address
  (`create-horeca-profile.dto.ts` 11). updateHorecaProfile takes a profile, or a list of addresses,
  that is left out for an empty list (`users.db.service.ts` 109) and deletes every address that the
  list does not name, so an update of the name alone, which `update-user.dto.ts` allows, leaves a
  horeca without any.

Seen while modelling, in behaviours of the models, without a run of its own:

* schema.prisma 74 says Finished is "Approved by horeca and deliveryTime passed". cancelProviderRequest
  (`horecaRequests.db.service.ts` 91) puts a request back to Pending even when another of its offers
  is Active; when the accept date is over, the expiry job finishes that offer before its delivery.
* schema.prisma 62 says an Active request has its provider chosen. A provider's cancel chooses its
  write by a status it read before (`providerRequests.service.ts` 231); an offer approved in between is
  canceled alone, and the request stays Active without one.
* createChat rejects a resource that has a chat ("Chat is already exists!", `chat.service.ts` 73), but
  two calls that overlap both pass the check; the first chat loses its resource. And it asks only of
  the resource of the type that the call names (`chat.service.ts` 44-74): the DTO describes each id as
  required for one type (`chat.create.dto.ts`), keeps those of the others, and all are connected
  (`chat.db.service.ts` 24-44). So a Private call may take an offer from its Order chat, or give it a
  chat without opening messages and keep it from ever having another, and an Order call of a horeca may
  take a support request. `SettledLink`, `LinkedChatOpened` and `SupportChatHasAdmin` are about
  chats of the resource's own type for that reason; they bound what happens and do not exclude it.
* A comment says "Horeca creates Order chat" (`favourites.service.ts` 26). isReadyForChat of the orders
  (`horecaRequests.service.ts` 220) never looks at its caller: any provider, horeca or administrator
  may create the chat. Nor is the opponent looked at for orders and support requests, so the author of
  the opening message of a support chat need not be among the chat's opponents.
* The history of a chat is ordered by createdAt alone (`chat.message.service.ts` 29), a column of
  milliseconds. createChat stores two messages side by side (`chat.service.ts` 92), and so does cancel
  (`horecaRequests.service.ts` 274-288). When they share their millisecond and a page ends between
  them, the next page may repeat one and the other is never shown. `NoSilentGap` exempts ties.
* An update changes the email to any free one without a mail to it (`users.db.service.ts` 116 and 172),
  and the link that was mailed to the first email still changes the password. `SessionsWereMailed`
  says what is true of the email of the registration, and nothing of the present one.
* `providerRequests.controller.ts` 65 speaks of a request of no interest "to the user"; a request has
  one mark (horecaRequestId is unique) and the list filters on it whoever set it
  (`providerRequests.service.ts` 109), so one provider hides the request from all.
* An offer inserted after its request was closed stays Pending for ever (`providerRequests.service.ts`
  171). Overlapping mail runs send one mail twice: the branch "if task already started" of
  `cron.prisma.service.ts` 137 cannot be taken. A task in Work when the process stops is never listed
  again. The links of a deleted product or template stay, so its images cannot be attached again.
* A request made from a template with images is rejected after its row exists and before its refresh
  is queued. A listing whose orderBy starts with createdAt is rejected for any other sort field.

Seen while reading: PROVIDER_APPROVED is sent to providerRequestId instead of a user
(`horecaRequests.service.ts` 239); NEW_HORECA_REQUEST is never sent, since the payload of the job is
nested one level deeper than its consumer reads it (`horecaRequests.service.ts` 91,
`horecaRequests.consumer.service.ts` 31); the comments of the reminders speak of 48 and 12 hours, and
both conditions of the closing lists subtract three days, where the name hours84Ago says 84 hours
(`horecaRequests.service.ts` 343, `horecaRequests.db.service.ts` 224); UsersService.update reads the avatar it returns with the id of
the user instead of that of the profile (`users.service.ts` 77).

Some hazards are bounded by a property and not caught, since the code does nothing about them: a
handler that a fault cuts off leaves a chat without its opening (`spoiled` in `Chats`), an account
without its mail (`spoiled` in `Accounts`), links half replaced, a refresh that is lost (`missed`), a
mail in Work. The properties name these cases as their exceptions and show that there are no others;
the list of hazards says so in its notes.

## 7. What is not modelled

* The files of uploads: their names are the millisecond of the upload, they are written before their
  row and never removed; and the uploads of chats, which have a chatId and no link.
* The flag that viewMessage sets on a message, which nothing else reads; which notification is sent to
  whom, since a lost event leaves no trace in any table.
* The content of templates, products and profiles, and the hours of an address's weekdays.
* frontend-examples: components of a client. What the models need of a client is in `Listings` and
  `Gateway`.
* The signature of a token and the guards of roles: stateless; the models' actors are already those
  the guards let through. That the user of a token is still there is `Authorized` of `Accounts`.
* DTOs, validation messages, swagger, logging, bootstrap, seeds: no state. What validation decides
  about times is in `CreateRow`, and the defaults of a query string in `Listings`.
* PostgreSQL, Prisma, Bull, SMTP, socket.io: external, modelled by what the code relies on (unique
  columns, cascades, one transaction for a nested write, a queue with one attempt a job).
* Values of columns that no handler's control depends on: names, prices, comments, files.

## 8. Plan

Done, in the order of their weight: `RequestLifecycle` with `OfferMilestones` and `OfferHistory` (the
life of requests and offers, the core of the service), `MailQueue`, `Chats`, `Matching`,
`Attachments`, `Accounts` with `AccountDirectory`, `Gateway`, `Listings`; the interfaces
`RequestBoard` and `ChosenOffers` between them; the proofs of section 5.

What could come next:

1. The files of chat uploads: two uploads in one millisecond share a path, and a rejected validation
   leaves its file behind.
2. An interface between `Accounts` and its users, as `RequestBoard` is one of the lifecycle: which
   users and profiles `Matching` and `Attachments` may rely on.
3. `Gateway` with the namespace notifications, composed with `RequestLifecycle`, to say which event of
   a request may be lost.
