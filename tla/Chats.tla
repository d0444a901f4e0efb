--------------------------------- MODULE Chats ---------------------------------
(***************************************************************************)
(* Chats and what they are about: the offers of one request, favourites    *)
(* and support requests.  A call asks for a chat of one type and names ids *)
(* of resources of any type.  Only the resource of that type is checked    *)
(* (ready, and without a chat); all that are named are connected, and lose *)
(* the chat they had.  The check and the insert are two awaits, and the    *)
(* opening messages are written after them.  Cancelations announce         *)
(* themselves in the chat whose id they have read.                         *)
(* A chat belongs to the user who creates it and to an opponent of whom    *)
(* nothing is asked when an offer or a support request is checked; the     *)
(* opponent is left out.                                                   *)
(***************************************************************************)
EXTENDS Naturals, Sequences, FiniteSets

CONSTANTS
    Offers,       \* ProviderRequest rows of one HorecaRequest
    Favourites,   \* HorecaFavourites rows of one horeca and one provider
    Supports,     \* SupportRequest rows of the horeca
    Admins,       \* the administrators
    Handlers,     \* calls that may be suspended at an await at the same time
    MaxIds,       \* bound on the ids of one call, of which there are three kinds
    MaxChats      \* bound on the chats created

ASSUME DisjointAssumption ==
    /\ Offers \cap Favourites = {} /\ Offers \cap Supports = {}
    /\ Favourites \cap Supports = {}
    /\ {"horeca", "provider", "nobody"} \cap Admins = {}
ASSUME ChatBoundsAssumption == MaxIds \in Nat /\ MaxChats \in Nat

VARIABLES
    active,     \* whether the request of the offers is Active
    state,      \* state[r]: "ready" while an offer is Active or another row exists
    support,    \* support[s]: SupportRequest.status and adminId
    link,       \* link[r]: chatId of r, 0 for null (of a deleted row, its last)
    chats,      \* the rows of Chat: type, administrator and the resources connected by its creation
    messages,   \* the rows of ChatMessage the handlers write; rows that look alike are one
    call,       \* call[w]: what the suspended handler w has read and still does
    assigned,   \* assigned[s]: the administrators s has had (history)
    spoiled     \* chats whose opening messages met a fault (history)

resourceVars == <<active, state, support, link>>
chatVars == <<chats, messages>>
vars == <<active, state, support, link, chats, messages, call, assigned, spoiled>>

Resources == Offers \cup Favourites \cup Supports
Users == {"horeca", "provider"} \cup Admins
Nobody == "nobody"

ChatType == {"Order", "Private", "Support"}

TypeOf(r) == IF r \in Offers THEN "Order" ELSE IF r \in Favourites THEN "Private" ELSE "Support"

Chat == [type : ChatType, by : Admins \cup {Nobody}, with : SUBSET Resources]

SupportStatus == {"Default", "Active", "Resolved"}

ChatIds == 1..MaxChats

Kinds == {"horecaRequest", "providerRequest", "content", "canceled"}

\* A message and the resource it is about.  The server writes all but the
\* content of a support request, of which the author is the horeca.
Message == [chat : ChatIds, kind : Kinds, about : Resources]

\* A suspended call: the handler, its administrator, the resource it has looked at, the
\* resources it is to connect, the chat it has created and the messages it is
\* still to write.
Call == [op : {"idle", "create", "read", "open", "assign", "delete", "cancel", "announce"},
         by : Admins \cup {Nobody}, on : Resources \cup {Nobody}, ids : SUBSET Resources,
         chat : {0} \cup ChatIds, todo : SUBSET Message]

Pending(op, u, r, todo) ==
    [op |-> op, by |-> u, on |-> r, ids |-> {}, chat |-> 0, todo |-> todo]

\* Who creates a chat is kept of support chats alone: nothing is said of others.
Creating(u, r, ids) ==
    [Pending("create", IF r \in Supports THEN u ELSE Nobody, r, {}) EXCEPT !.ids = ids]

Opened(op, r, chat, todo) == [Pending(op, Nobody, r, todo) EXCEPT !.chat = chat]

Idle == Pending("idle", Nobody, Nobody, {})

TypeOK ==
    /\ active \in BOOLEAN
    /\ state \in [Resources -> {"none", "ready", "over"}]
    /\ support \in [Supports -> [status : SupportStatus, admin : Admins \cup {Nobody}]]
    /\ link \in [Resources -> {0} \cup ChatIds]
    /\ chats \in Seq(Chat)
    /\ Len(chats) <= MaxChats
    /\ messages \subseteq Message
    /\ call \in [Handlers -> Call]
    /\ assigned \in [Supports -> SUBSET Admins]
    /\ spoiled \subseteq ChatIds

Init ==
    /\ active = FALSE
    /\ state = [r \in Resources |-> "none"]
    /\ support = [s \in Supports |-> [status |-> "Default", admin |-> Nobody]]
    /\ link = [r \in Resources |-> 0]
    /\ chats = <<>>
    /\ messages = {}
    /\ call = [w \in Handlers |-> Idle]
    /\ assigned = [s \in Supports |-> {}]
    /\ spoiled = {}

Suspend(w, c) == call' = [call EXCEPT ![w] = c]

Say(chat, kind, r) == [chat |-> chat, kind |-> kind, about |-> r]

-----------------------------------------------------------------------------
(* The resources. *)

\* RequestLifecycle says when offers are approved and closed; here any may be.
\* An approval makes the request Active, and may follow a cancelation.
Approve(o) ==
    /\ state' = [state EXCEPT ![o] = "ready"]
    /\ active' = TRUE
    /\ UNCHANGED <<support, link, chatVars, call, assigned, spoiled>>

\* The jobs finish offers and write the status of the request.
Close(closed) ==
    /\ \A o \in closed : state[o] = "ready"
    /\ state' = [r \in Resources |-> IF r \in closed THEN "over" ELSE state[r]]
    /\ active' \in BOOLEAN
    /\ UNCHANGED <<support, link, chatVars, call, assigned, spoiled>>

AddResource(r) ==
    /\ state[r] = "none"
    /\ state' = [state EXCEPT ![r] = "ready"]
    /\ UNCHANGED <<active, support, link, chatVars, call, assigned, spoiled>>

\* delete reads the first row of the horeca and the provider and deletes it
\* by its id; a row that is gone rejects the call.
BeginDelete(w, f) ==
    /\ call[w] = Idle
    /\ state[f] = "ready"
    /\ Suspend(w, Pending("delete", Nobody, f, {}))
    /\ UNCHANGED <<resourceVars, chatVars, assigned, spoiled>>

DeleteFavourite(w) ==
    /\ call[w].op = "delete"
    /\ state[call[w].on] = "ready"
    /\ state' = [state EXCEPT ![call[w].on] = "over"]
    /\ Suspend(w, Idle)
    /\ UNCHANGED <<active, support, link, chatVars, assigned, spoiled>>

-----------------------------------------------------------------------------
(* Support requests. *)

BeginAssign(w, a, s) ==
    /\ call[w] = Idle
    /\ state[s] = "ready"
    /\ support[s].admin = Nobody
    /\ Suspend(w, Pending("assign", a, s, {}))
    /\ UNCHANGED <<resourceVars, chatVars, assigned, spoiled>>

\* The update has no condition: the last of two administrators stays.
AssignAdmin(w) ==
    LET s == call[w].on IN
    /\ call[w].op = "assign"
    /\ support' = [support EXCEPT ![s] = [status |-> "Active", admin |-> call[w].by]]
    /\ assigned' = [assigned EXCEPT ![s] = @ \cup {call[w].by}]
    /\ Suspend(w, Idle)
    /\ UNCHANGED <<active, state, link, chatVars, spoiled>>

\* Mutant of Resolve: a status the column does not have.
ResolveAsClosed(s) ==
    /\ state[s] = "ready"
    /\ support' = [support EXCEPT ![s].status = "Closed"]
    /\ UNCHANGED <<active, state, link, chatVars, call, assigned, spoiled>>

Resolve(s) ==
    /\ state[s] = "ready"
    /\ support' = [support EXCEPT ![s].status = "Resolved"]
    /\ UNCHANGED <<active, state, link, chatVars, call, assigned, spoiled>>

-----------------------------------------------------------------------------
(* Creating a chat. *)

\* An Active offer of an Active request is ready for anyone, a favourite for
\* the horeca, a support request, resolved or not, for its administrator.
OrderReady(u, r) == r \in Offers /\ active
FavouriteReady(u, r) == r \in Favourites /\ u = "horeca"

\* Mutant of SupportReady: any administrator.
SupportReadyForAny(u, r) == r \in Supports /\ u \in Admins

SupportReady(u, r) == r \in Supports /\ u = support[r].admin

MayCreate(u, r) ==
    /\ state[r] = "ready"
    /\ OrderReady(u, r) \/ FavouriteReady(u, r) \/ SupportReady(u, r)

\* What the ids of one call may name: of each type at most one resource.
IdSets ==
    {ids \in SUBSET Resources :
        /\ Cardinality(ids) <= MaxIds
        /\ \A p, q \in ids : TypeOf(p) = TypeOf(q) => p = q}

\* Mutant of BeginCreate: the chat that exists is not looked at.
BeginCreateAgain(w, u, r, ids) ==
    /\ call[w] = Idle
    /\ MayCreate(u, r)
    /\ Suspend(w, Creating(u, r, ids))
    /\ UNCHANGED <<resourceVars, chatVars, assigned, spoiled>>

\* Of the other ids nothing is asked.
BeginCreate(w, u, r, ids) ==
    /\ call[w] = Idle
    /\ MayCreate(u, r)
    /\ link[r] = 0
    /\ Suspend(w, Creating(u, r, ids))
    /\ UNCHANGED <<resourceVars, chatVars, assigned, spoiled>>

OpeningMessages(chat, r) ==
    IF r \in Offers THEN {Say(chat, "horecaRequest", r), Say(chat, "providerRequest", r)} ELSE {}

\* The connect of a row that is not there, or not any more, rejects the call.
RowsExist(ids) == \A q \in ids \ Offers : state[q] = "ready"

\* Every id of the call is connected: a resource that has a chat by now, of
\* whatever type, is taken from it.
CreateChat(w) ==
    LET r == call[w].on
        ids == call[w].ids
        chat == Len(chats) + 1
    IN
    /\ call[w].op = "create"
    /\ Len(chats) < MaxChats
    /\ RowsExist(ids)
    /\ chats' = Append(chats, [type |-> TypeOf(r), by |-> call[w].by, with |-> ids])
    /\ link' = [q \in Resources |-> IF q \in ids THEN chat ELSE link[q]]
    /\ Suspend(w, IF r \in Favourites THEN Idle
                  ELSE Opened(IF r \in Offers THEN "open" ELSE "read",
                              r, chat, OpeningMessages(chat, r)))
    /\ UNCHANGED <<active, state, support, messages, assigned, spoiled>>

\* Mutant of ReadSupport: the last chat of the table.
ReadLastChat(w) ==
    LET s == call[w].on IN
    /\ call[w].op = "read"
    /\ Suspend(w, Opened("open", s, call[w].chat, {Say(Len(chats), "content", s)}))
    /\ UNCHANGED <<resourceVars, chatVars, assigned, spoiled>>

\* The chat of the opening message is not the chat just created but the one
\* the support request has when it is read again.
ReadSupport(w) ==
    LET s == call[w].on IN
    /\ call[w].op = "read"
    /\ Suspend(w, Opened("open", s, call[w].chat, {Say(link[s], "content", s)}))
    /\ UNCHANGED <<resourceVars, chatVars, assigned, spoiled>>

\* Mutant of WriteMessage: the first message written ends the call.
WriteFirstMessage(w, m) ==
    /\ call[w].op \in {"open", "announce"}
    /\ m \in call[w].todo
    /\ messages' = messages \cup {m}
    /\ Suspend(w, Idle)
    /\ UNCHANGED <<resourceVars, chats, assigned, spoiled>>

\* The messages of one handler are written side by side.
WriteMessage(w, m) ==
    /\ call[w].op \in {"open", "announce"}
    /\ m \in call[w].todo
    /\ messages' = messages \cup {m}
    /\ Suspend(w, IF call[w].todo = {m} THEN Idle ELSE [call[w] EXCEPT !.todo = @ \ {m}])
    /\ UNCHANGED <<resourceVars, chats, assigned, spoiled>>

-----------------------------------------------------------------------------
(* Cancelations that announce themselves. *)

\* The handler has nothing to announce in when no chat is linked: the message
\* is rejected after the handler has returned.
Announce(w, told) ==
    Suspend(w, IF told = {} THEN Idle ELSE Pending("announce", Nobody, Nobody, told))

\* What an offer that has a chat, of whatever type, has to say in it.
Cancelation(o) == Say(link[o], "canceled", o)

\* cancelProviderRequest returns the chat with the update.
CancelOffer(w, o) ==
    /\ call[w] = Idle
    /\ state' = [state EXCEPT ![o] = "over"]
    /\ active' = FALSE
    /\ Announce(w, {Cancelation(q) : q \in {p \in {o} : link[p] # 0}})
    /\ UNCHANGED <<support, link, chatVars, assigned, spoiled>>

\* cancel reads the offers and their chats before it updates them.
BeginCancel(w) ==
    /\ call[w] = Idle
    /\ LET told == {o \in Offers : state[o] = "ready" /\ link[o] # 0} IN
       Suspend(w, Pending("cancel", Nobody, Nobody, {Cancelation(o) : o \in told}))
    /\ UNCHANGED <<resourceVars, chatVars, assigned, spoiled>>

CancelRequest(w) ==
    /\ call[w].op = "cancel"
    /\ state' = [r \in Resources |->
                    IF r \in Offers /\ state[r] = "ready" THEN "over" ELSE state[r]]
    /\ active' = FALSE
    /\ Announce(w, call[w].todo)
    /\ UNCHANGED <<support, link, chatVars, assigned, spoiled>>

-----------------------------------------------------------------------------
(* Faults. *)

Opening(w) == call[w].op \in {"read", "open"}

\* A rejected await ends its handler: what it wrote stays.
CallFails(w) ==
    /\ call[w] # Idle
    /\ spoiled' = IF Opening(w) THEN spoiled \cup {call[w].chat} ELSE spoiled
    /\ Suspend(w, Idle)
    /\ UNCHANGED <<resourceVars, chatVars, assigned>>

\* The connect of a row that does not exist, or the delete of a favourite that
\* was deleted meanwhile.
RowIsGone(w) ==
    /\ \/ call[w].op = "create" /\ ~ RowsExist(call[w].ids)
       \/ call[w].op = "delete" /\ state[call[w].on] = "over"
    /\ Suspend(w, Idle)
    /\ UNCHANGED <<resourceVars, chatVars, assigned, spoiled>>

Crash ==
    /\ \E w \in Handlers : call[w] # Idle
    /\ spoiled' = spoiled \cup {call[w].chat : w \in {v \in Handlers : Opening(v)}}
    /\ call' = [w \in Handlers |-> Idle]
    /\ UNCHANGED <<resourceVars, chatVars, assigned>>

-----------------------------------------------------------------------------
(* The system. *)

SupportCall == \E s \in Supports : AddResource(s) \/ Resolve(s)
FavouriteCall(w) ==
    \E f \in Favourites : AddResource(f) \/ BeginDelete(w, f)

AdminCall(w) == \E s \in Supports, a \in Admins : BeginAssign(w, a, s)
ChatCall(w) ==
    \E ids \in IdSets : \E r \in ids, u \in Users : BeginCreate(w, u, r, ids)

ResourceStep ==
    \/ \E o \in Offers : Approve(o)
    \/ \E closed \in SUBSET Offers : Close(closed)
    \/ SupportCall

BeginStep(w) ==
    \/ FavouriteCall(w)
    \/ AdminCall(w)
    \/ ChatCall(w)
    \/ \E o \in Offers : CancelOffer(w, o)
    \/ BeginCancel(w)

ResumeStep(w) ==
    \/ DeleteFavourite(w)
    \/ AssignAdmin(w)
    \/ CreateChat(w)
    \/ ReadSupport(w)
    \/ \E m \in call[w].todo : WriteMessage(w, m)
    \/ CancelRequest(w)
    \/ RowIsGone(w)
    \/ CallFails(w)

Next ==
    \/ ResourceStep
    \/ \E w \in Handlers : BeginStep(w) \/ ResumeStep(w)
    \/ Crash

Spec == Init /\ [][Next]_vars

-----------------------------------------------------------------------------
(* Properties *)

OpeningOf(chat, r) ==
    IF r \in Supports THEN {Say(chat, "content", r)} ELSE OpeningMessages(chat, r)

\* A resource that is left with a chat of its own type finds the opening
\* messages there, once the handler that created the chat has ended and unless
\* a fault cut it off: although two handlers may have created a chat for it,
\* each reads the link again and a call of another type may take the resource.
LinkedChatOpened ==
    \A r \in Resources :
        \/ link[r] = 0
        \/ chats[link[r]].type # TypeOf(r)
        \/ OpeningOf(link[r], r) \subseteq messages
        \/ \E w \in Handlers : Opening(w) /\ call[w].chat = link[r]
        \/ link[r] \in spoiled

\* A message is in a chat that was connected to what the message is about, and
\* the two that open an order are in a chat of that type: the chat id that a
\* handler has read, and may write to when another handler has relinked the
\* resource, is never that of a chat the resource was not part of.
MessagesBelong ==
    \A m \in messages :
        /\ m.about \in chats[m.chat].with
        /\ m.kind \in {"horecaRequest", "providerRequest"} => chats[m.chat].type = "Order"

\* The chat of type Support that a support request is connected to was created
\* by an administrator to whom the request was assigned, if only for a moment
\* between two assignments.
SupportChatHasAdmin ==
    \A i \in DOMAIN chats : \A s \in chats[i].with \cap Supports :
        chats[i].type = "Support" => chats[i].by \in assigned[s]

CreationPending(r) == \E w \in Handlers : call[w].op = "create" /\ call[w].on = r

Settled(r) == link[r] # 0 /\ ~ CreationPending(r)

\* Once a resource has a chat and no call that looked for one and found none is
\* under way, no such call begins again, and the resource gets no second chat of
\* its own type: double creation is confined to calls that overlap.  What may
\* still take the resource is a call for a chat of another type that names it.
SettledLink ==
    [][\A r \in Resources : Settled(r) =>
          /\ ~ CreationPending(r)'
          /\ link'[r] # link[r] => chats'[link'[r]].type # TypeOf(r)]_vars

-----------------------------------------------------------------------------
(* What the chats take for granted of the lifecycle, which promises it as   *)
(* ChoicesKept: the offers of the one request that is followed.            *)

TheRequest == "request"

Choices == INSTANCE ChosenOffers WITH
    Requests <- {TheRequest},
    active   <- IF active THEN {TheRequest} ELSE {},
    chosen   <- [h \in {TheRequest} |-> {o \in Offers : state[o] = "ready"}]

\* Offers become ready for a chat only as the lifecycle chooses them; no call of
\* a chat or a cancelation, however late, makes one ready.
OnlyChoicesOpen == Choices!CSpec
=============================================================================
