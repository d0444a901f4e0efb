------------------------------ MODULE ChatsProofs ------------------------------
(* The safety of the chats, for any resources, administrators and handlers. *)
EXTENDS Chats, TLAPS

USE DisjointAssumption, ChatBoundsAssumption

\* What a message that is written, or still to be written, says of its chat.
Fits(m) ==
    /\ m.chat \in DOMAIN chats
    /\ m.about \in chats[m.chat].with
    /\ m.kind \in {"horecaRequest", "providerRequest"} => chats[m.chat].type = "Order"

\* A chat id in a row is the id of a chat that was connected to that row.
LinksFit ==
    \A r \in Resources :
        link[r] # 0 => link[r] \in DOMAIN chats /\ r \in chats[link[r]].with

MessagesFit == \A m \in messages : Fits(m)

AdminsWereAssigned == \A s \in Supports : support[s].admin \in assigned[s] \cup {Nobody}

\* What a suspended call still relies on.
CallFits(c) ==
    /\ c.op \in {"create", "read", "open", "assign", "delete"} => c.on \in Resources
    /\ c.op = "create" => /\ c.on \in c.ids /\ c.ids \in IdSets
                          /\ c.on \in Supports => c.by \in assigned[c.on]
    /\ c.op \in {"read", "open"} => c.chat # 0
    /\ c.op = "read" => c.on \in Supports /\ link[c.on] # 0
    /\ c.op = "assign" => c.on \in Supports /\ c.by \in Admins
    /\ c.op = "delete" => c.on \in Favourites
    /\ \A m \in c.todo : Fits(m)

CallsFit == \A w \in Handlers : CallFits(call[w])

\* The handler w, which created the chat of r, will have written the opening
\* messages there.
WillOpen(w, r) ==
    /\ call[w].chat = link[r]
    /\ \/ call[w].op = "read" /\ call[w].on = r
       \/ call[w].op = "open" /\ OpeningOf(link[r], r) \subseteq messages \cup call[w].todo

OpeningWritten ==
    \A r \in Resources :
        \/ link[r] = 0
        \/ chats[link[r]].type # TypeOf(r)
        \/ OpeningOf(link[r], r) \subseteq messages
        \/ \E w \in Handlers : WillOpen(w, r)
        \/ link[r] \in spoiled

ChatInv ==
    /\ TypeOK /\ LinksFit /\ MessagesFit /\ SupportChatHasAdmin
    /\ AdminsWereAssigned /\ CallsFit /\ OpeningWritten

\* The invariant is what the properties of the chats say, and more.
LEMMA ChatInvImplies ==
    ASSUME ChatInv
    PROVE  LinkedChatOpened /\ MessagesBelong /\ SupportChatHasAdmin
<1>1. LinkedChatOpened
  BY DEF ChatInv, OpeningWritten, WillOpen, LinkedChatOpened, Opening
<1>2. MessagesBelong
  BY DEF ChatInv, MessagesFit, Fits, MessagesBelong
<1>3. SupportChatHasAdmin
  BY DEF ChatInv
<1>4. QED
  BY <1>1, <1>2, <1>3

LEMMA IdleIsCall == Idle \in Call
  BY DEF Pending, Idle, Call, Nobody

LEMMA ChatInit == Init => ChatInv
<1> SUFFICES ASSUME Init PROVE ChatInv
  OBVIOUS
<1>1. TypeOK
  <2>1. /\ chats \in Seq(Chat)
        /\ Len(chats) <= MaxChats
    BY DEF Init
  <2>2. support \in [Supports -> [status : SupportStatus, admin : Admins \cup {Nobody}]]
    BY DEF Init, SupportStatus
  <2>3. call \in [Handlers -> Call]
    BY IdleIsCall DEF Init
  <2>4. link \in [Resources -> {0} \cup ChatIds]
    BY DEF Init
  <2>5. assigned \in [Supports -> SUBSET Admins] /\ spoiled \subseteq ChatIds
    BY DEF Init
  <2>6. /\ active \in BOOLEAN /\ state \in [Resources -> {"none", "ready", "over"}]
        /\ messages \subseteq Message
    BY DEF Init
  <2>7. QED
    BY <2>1, <2>2, <2>3, <2>4, <2>5, <2>6 DEF TypeOK
<1>2. MessagesFit
  BY DEF Init, MessagesFit
<1>3. LinksFit /\ SupportChatHasAdmin /\ AdminsWereAssigned
  BY DEF Init, LinksFit, SupportChatHasAdmin, AdminsWereAssigned
<1>4. CallsFit
  BY DEF Init, CallsFit, CallFits, Pending, Idle
<1>5. OpeningWritten
  BY DEF Init, OpeningWritten
<1>6. QED
  BY <1>1, <1>2, <1>3, <1>4, <1>5 DEF ChatInv

-----------------------------------------------------------------------------
(* Steps, by what they disturb. *)

\* A handler gets a new call.
LEMMA SuspendStep ==
    ASSUME TypeOK, NEW w \in Handlers, NEW c \in Call, Suspend(w, c)
    PROVE  /\ call' \in [Handlers -> Call]
           /\ \A v \in Handlers : call'[v] = IF v = w THEN c ELSE call[v]
  BY DEF Suspend, TypeOK

\* A step that leaves the links, chats and messages, the administrators and
\* the calls of which anything is still expected.
LEMMA QuietStep ==
    ASSUME ChatInv, TypeOK', UNCHANGED <<link, chats, messages>>,
           \A s \in Supports : support[s].admin = support'[s].admin,
           UNCHANGED <<call, assigned, spoiled>>
    PROVE  ChatInv'
<1>1. LinksFit' /\ MessagesFit' /\ SupportChatHasAdmin' /\ AdminsWereAssigned'
  BY DEF ChatInv, LinksFit, MessagesFit, Fits, SupportChatHasAdmin, AdminsWereAssigned
<1>2. CallsFit'
  BY DEF ChatInv, CallsFit, CallFits, Fits
<1>3. OpeningWritten'
  BY DEF ChatInv, OpeningWritten, WillOpen, OpeningOf, OpeningMessages
<1>4. QED
  BY <1>1, <1>2, <1>3 DEF ChatInv

\* A step that gives the handler w a call c that fits, and leaves the rest but
\* for offers, favourites and what a fault spoils.
LEMMA CallStep ==
    ASSUME ChatInv, UNCHANGED <<support, link, chats, messages, assigned>>,
           active' \in BOOLEAN, state' \in [Resources -> {"none", "ready", "over"}],
           spoiled \subseteq spoiled', spoiled' \subseteq ChatIds,
           NEW w \in Handlers, NEW c \in Call, CallFits(c), Suspend(w, c),
           Opening(w) => call[w].chat \in spoiled'
    PROVE  ChatInv'
<1>1. /\ call' \in [Handlers -> Call]
      /\ \A v \in Handlers : call'[v] = IF v = w THEN c ELSE call[v]
  BY SuspendStep DEF ChatInv
<1>2. TypeOK'
  BY <1>1 DEF ChatInv, TypeOK
<1>3. LinksFit' /\ SupportChatHasAdmin' /\ AdminsWereAssigned'
  BY DEF ChatInv, LinksFit, SupportChatHasAdmin, AdminsWereAssigned
<1>4. MessagesFit'
  BY DEF ChatInv, MessagesFit, Fits
<1>5. CallsFit'
  <2>1. ASSUME NEW v \in Handlers
        PROVE  CallFits(call'[v])
    BY <1>1 DEF ChatInv, CallsFit
  <2>2. QED
    BY <2>1 DEF CallsFit, CallFits, Fits
<1>6. OpeningWritten'
  <2> SUFFICES ASSUME NEW r \in Resources, link[r] # 0,
                      chats[link[r]].type = TypeOf(r), ~ OpeningOf(link[r], r) \subseteq messages, link[r] \notin spoiled'
               PROVE  \E v \in Handlers : WillOpen(v, r)'
    BY DEF OpeningWritten, OpeningOf, OpeningMessages
  <2>1. PICK v \in Handlers : WillOpen(v, r)
    BY DEF ChatInv, OpeningWritten
  <2>2. v # w
    BY <2>1 DEF WillOpen, Opening
  <2>3. WillOpen(v, r)'
    BY <1>1, <2>1, <2>2 DEF WillOpen, OpeningOf, OpeningMessages
  <2>4. QED
    BY <2>3
<1>7. QED
  BY <1>2, <1>3, <1>4, <1>5, <1>6 DEF ChatInv

\* The part of the type invariant that CallStep asks for.
LEMMA KeptTypes ==
    ASSUME ChatInv
    PROVE  /\ active \in BOOLEAN /\ state \in [Resources -> {"none", "ready", "over"}]
           /\ spoiled \subseteq ChatIds
  BY DEF ChatInv, TypeOK

LEMMA AddResourceInv ==
    ASSUME ChatInv, NEW r \in Favourites \cup Supports, AddResource(r)
    PROVE  ChatInv'
<1>1. TypeOK'
  BY DEF AddResource, chatVars, ChatInv, TypeOK, Resources
<1>2. QED
  BY <1>1, QuietStep DEF AddResource, chatVars

LEMMA ResourceStepInv ==
    ASSUME ChatInv, ResourceStep
    PROVE  ChatInv'
<1>1. TypeOK
  BY DEF ChatInv
<1>2. ASSUME NEW o \in Offers, Approve(o)
      PROVE  ChatInv'
  <2>1. TypeOK'
    BY <1>1, <1>2 DEF Approve, chatVars, TypeOK, Resources
  <2>2. QED
    BY <1>2, <2>1, QuietStep DEF Approve, chatVars
<1>3. ASSUME NEW closed \in SUBSET Offers, Close(closed)
      PROVE  ChatInv'
  <2>1. TypeOK'
    BY <1>1, <1>3 DEF Close, chatVars, TypeOK, Resources
  <2>2. QED
    BY <1>3, <2>1, QuietStep DEF Close, chatVars
<1>4. ASSUME NEW s \in Supports, Resolve(s)
      PROVE  ChatInv'
  <2>1. /\ support' \in [Supports -> [status : SupportStatus, admin : Admins \cup {Nobody}]]
        /\ \A t \in Supports : support[t].admin = support'[t].admin
    BY <1>1, <1>4 DEF Resolve, TypeOK, SupportStatus
  <2>2. TypeOK'
    BY <1>1, <1>4, <2>1 DEF Resolve, chatVars, TypeOK
  <2>3. QED
    BY <1>4, <2>1, <2>2, QuietStep DEF Resolve, chatVars
<1>5. QED
  BY <1>2, <1>3, <1>4, AddResourceInv DEF ResourceStep, SupportCall

-----------------------------------------------------------------------------
(* The calls that only change their own record, offers and favourites. *)

LEMMA IdleFits == CallFits(Idle) /\ Idle \in Call
  BY IdleIsCall DEF CallFits, Pending, Idle

LEMMA CancelationFits ==
    ASSUME ChatInv, NEW o \in Offers, link[o] # 0
    PROVE  Cancelation(o) \in Message /\ Fits(Cancelation(o))
<1>1. link[o] \in ChatIds /\ link[o] \in DOMAIN chats /\ o \in chats[link[o]].with
  BY DEF ChatInv, LinksFit, TypeOK, Resources
<1>2. QED
  BY <1>1 DEF Cancelation, Say, Message, Kinds, Fits, Resources

\* A call that is left with messages that fit.
LEMMA ToldFits ==
    ASSUME NEW told \in SUBSET Message, \A m \in told : Fits(m), NEW op \in {"announce", "cancel"}
    PROVE  /\ Pending(op, Nobody, Nobody, told) \in Call
           /\ CallFits(Pending(op, Nobody, Nobody, told))
  BY DEF Pending, Call, CallFits

LEMMA AnnounceStep ==
    ASSUME ChatInv, UNCHANGED <<support, link, chats, messages, assigned, spoiled>>,
           active' \in BOOLEAN, state' \in [Resources -> {"none", "ready", "over"}],
           NEW w \in Handlers, NEW told \in SUBSET Message, \A m \in told : Fits(m),
           ~ Opening(w), Announce(w, told)
    PROVE  ChatInv'
<1> DEFINE c == IF told = {} THEN Idle ELSE Pending("announce", Nobody, Nobody, told)
<1>1. c \in Call /\ CallFits(c)
  BY IdleFits, ToldFits
<1>2. Suspend(w, c)
  BY DEF Announce
<1> HIDE DEF c
<1>3. QED
  BY <1>1, <1>2, KeptTypes, CallStep

LEMMA BeginStepInv ==
    ASSUME ChatInv, NEW w \in Handlers, BeginStep(w)
    PROVE  ChatInv'
<1> USE KeptTypes
<1>1. ASSUME NEW f \in Favourites, BeginDelete(w, f)
      PROVE  ChatInv'
  <2> DEFINE c == Pending("delete", Nobody, f, {})
  <2>1. c \in Call /\ CallFits(c)
    BY DEF Pending, Call, CallFits, Resources
  <2>2. Suspend(w, c) /\ ~ Opening(w)
    BY <1>1 DEF BeginDelete, Pending, Idle, Opening
  <2> HIDE DEF c
  <2>3. QED
    BY <1>1, <2>1, <2>2, CallStep DEF BeginDelete, resourceVars, chatVars
<1>2. ASSUME NEW s \in Supports, NEW a \in Admins, BeginAssign(w, a, s)
      PROVE  ChatInv'
  <2> DEFINE c == Pending("assign", a, s, {})
  <2>1. c \in Call /\ CallFits(c)
    BY DEF Pending, Call, CallFits, Resources
  <2>2. Suspend(w, c) /\ ~ Opening(w)
    BY <1>2 DEF BeginAssign, Pending, Idle, Opening
  <2> HIDE DEF c
  <2>3. QED
    BY <1>2, <2>1, <2>2, CallStep DEF BeginAssign, resourceVars, chatVars
<1>3. ASSUME NEW ids \in IdSets, NEW r \in ids, NEW u \in Users, BeginCreate(w, u, r, ids)
      PROVE  ChatInv'
  <2> DEFINE c == Creating(u, r, ids)
  <2>0. ids \subseteq Resources /\ r \in Resources
    BY DEF IdSets
  <2>1. ASSUME r \in Supports PROVE u \in assigned[r] /\ u \in Admins
    <3>1. u = support[r].admin
      BY <1>3, <2>1
         DEF BeginCreate, MayCreate, OrderReady, FavouriteReady, SupportReady
    <3>2. support[r].admin \in assigned[r] \cup {Nobody}
      BY <2>1 DEF ChatInv, AdminsWereAssigned
    <3>3. u # Nobody
      BY DEF Users, Nobody
    <3>4. support[r].admin \in Admins \cup {Nobody}
      BY <2>1 DEF ChatInv, TypeOK
    <3>5. QED
      BY <3>1, <3>2, <3>3, <3>4
  <2>2. c \in Call /\ CallFits(c)
    BY <2>0, <2>1 DEF Creating, Pending, Call, CallFits
  <2>3. Suspend(w, c) /\ ~ Opening(w)
    BY <1>3 DEF BeginCreate, Pending, Idle, Opening
  <2> HIDE DEF c
  <2>4. QED
    BY <1>3, <2>2, <2>3, CallStep DEF BeginCreate, resourceVars, chatVars
<1>4. ASSUME NEW o \in Offers, CancelOffer(w, o)
      PROVE  ChatInv'
  <2> DEFINE told == {Cancelation(q) : q \in {p \in {o} : link[p] # 0}}
  <2>1. told \in SUBSET Message /\ \A m \in told : Fits(m)
    BY CancelationFits
  <2>2. ~ Opening(w)
    BY <1>4 DEF CancelOffer, Pending, Idle, Opening
  <2>3. active' \in BOOLEAN /\ state' \in [Resources -> {"none", "ready", "over"}]
    BY <1>4 DEF CancelOffer
  <2>4. Announce(w, told)
    BY <1>4 DEF CancelOffer
  <2> HIDE DEF told
  <2>5. QED
    BY <1>4, <2>1, <2>2, <2>3, <2>4, AnnounceStep DEF CancelOffer, chatVars
<1>5. ASSUME BeginCancel(w)
      PROVE  ChatInv'
  <2> DEFINE told == {Cancelation(o) : o \in {q \in Offers : state[q] = "ready" /\ link[q] # 0}}
             c == Pending("cancel", Nobody, Nobody, told)
  <2>1. told \in SUBSET Message /\ \A m \in told : Fits(m)
    BY CancelationFits
  <2>2. ~ Opening(w)
    BY <1>5 DEF BeginCancel, Pending, Idle, Opening
  <2>3. Suspend(w, c)
    BY <1>5, Zenon DEF BeginCancel
  <2> HIDE DEF told
  <2>4. c \in Call /\ CallFits(c)
    BY <2>1, ToldFits
  <2> HIDE DEF c
  <2>5. QED
    BY <1>5, <2>2, <2>3, <2>4, CallStep DEF BeginCancel, resourceVars, chatVars
<1>6. QED
  BY <1>1, <1>2, <1>3, <1>4, <1>5, AddResourceInv DEF BeginStep, FavouriteCall, AdminCall, ChatCall

\* A handler goes on with its own record alone.
LEMMA ResumeQuietly ==
    ASSUME ChatInv, NEW w \in Handlers,
           DeleteFavourite(w) \/ CancelRequest(w) \/ RowIsGone(w) \/ CallFails(w)
    PROVE  ChatInv'
<1> USE KeptTypes
<1>1. CASE DeleteFavourite(w)
  <2>1. Suspend(w, Idle) /\ ~ Opening(w)
    BY <1>1 DEF DeleteFavourite, Opening
  <2>2. state' \in [Resources -> {"none", "ready", "over"}]
    BY <1>1 DEF DeleteFavourite
  <2>3. QED
    BY <1>1, <2>1, <2>2, IdleFits, CallStep DEF DeleteFavourite, chatVars
<1>2. CASE CancelRequest(w)
  <2>1. call[w].todo \in SUBSET Message /\ \A m \in call[w].todo : Fits(m)
    BY DEF ChatInv, CallsFit, CallFits, TypeOK, Call
  <2>2. ~ Opening(w) /\ Announce(w, call[w].todo)
    BY <1>2 DEF CancelRequest, Opening
  <2>3. active' \in BOOLEAN /\ state' \in [Resources -> {"none", "ready", "over"}]
    BY <1>2 DEF CancelRequest
  <2>4. QED
    BY <1>2, <2>1, <2>2, <2>3, AnnounceStep DEF CancelRequest, chatVars
<1>3. CASE RowIsGone(w)
  <2>1. Suspend(w, Idle) /\ ~ Opening(w)
    BY <1>3 DEF RowIsGone, Opening
  <2>2. QED
    BY <1>3, <2>1, IdleFits, CallStep DEF RowIsGone, resourceVars, chatVars
<1>4. CASE CallFails(w)
  <2>1. Suspend(w, Idle) /\ spoiled \subseteq spoiled'
    BY <1>4 DEF CallFails
  <2>2. spoiled' \subseteq ChatIds /\ (Opening(w) => call[w].chat \in spoiled')
    BY <1>4 DEF CallFails, Opening, ChatInv, TypeOK, Call, CallsFit, CallFits
  <2>3. QED
    BY <1>4, <2>1, <2>2, IdleFits, CallStep DEF CallFails, resourceVars, chatVars
<1>5. QED
  BY <1>1, <1>2, <1>3, <1>4

-----------------------------------------------------------------------------
(* The calls that write what others rely on. *)

LEMMA AssignStep ==
    ASSUME ChatInv, NEW w \in Handlers, AssignAdmin(w)
    PROVE  ChatInv'
<1> DEFINE s == call[w].on
<1>1. s \in Supports /\ call[w].by \in Admins
  BY DEF AssignAdmin, ChatInv, CallsFit, CallFits
<1>2. /\ call' \in [Handlers -> Call]
      /\ \A v \in Handlers : call'[v] = IF v = w THEN Idle ELSE call[v]
  BY IdleFits, SuspendStep DEF AssignAdmin, ChatInv
<1>3. /\ support' \in [Supports -> [status : SupportStatus, admin : Admins \cup {Nobody}]]
      /\ \A t \in Supports :
             support'[t].admin = IF t = s THEN call[w].by ELSE support[t].admin
  BY <1>1 DEF AssignAdmin, ChatInv, TypeOK, SupportStatus
<1>4. /\ assigned' \in [Supports -> SUBSET Admins]
      /\ \A t \in Supports : assigned[t] \subseteq assigned'[t]
      /\ call[w].by \in assigned'[s]
  BY <1>1 DEF AssignAdmin, ChatInv, TypeOK
<1>5. UNCHANGED <<active, state, link, chats, messages, spoiled>>
  BY DEF AssignAdmin, chatVars
<1>6. TypeOK'
  BY <1>2, <1>3, <1>4, <1>5 DEF ChatInv, TypeOK
<1>7. LinksFit' /\ MessagesFit'
  BY <1>5 DEF ChatInv, LinksFit, MessagesFit, Fits
<1>8. SupportChatHasAdmin' /\ AdminsWereAssigned'
  <2>1. SupportChatHasAdmin'
    BY <1>4, <1>5 DEF ChatInv, SupportChatHasAdmin
  <2>2. AdminsWereAssigned'
    BY <1>3, <1>4 DEF ChatInv, AdminsWereAssigned
  <2>3. QED
    BY <2>1, <2>2
<1> HIDE DEF s
<1>9. CallsFit'
  <2>1. ASSUME NEW v \in Handlers
        PROVE  CallFits(call'[v])
    BY <1>2, IdleFits DEF ChatInv, CallsFit
  <2>2. \A v \in Handlers : call'[v].op = "create" /\ call'[v].on \in Supports
                               => call'[v].by \in assigned'[call'[v].on]
    BY <1>4, <2>1 DEF CallFits
  <2>3. QED
    BY <1>5, <2>1, <2>2 DEF CallsFit, CallFits, Fits
<1>10. OpeningWritten'
  <2> SUFFICES ASSUME NEW r \in Resources, link[r] # 0,
                      chats[link[r]].type = TypeOf(r), ~ OpeningOf(link[r], r) \subseteq messages, link[r] \notin spoiled
               PROVE  \E v \in Handlers : WillOpen(v, r)'
    BY <1>5 DEF OpeningWritten, OpeningOf, OpeningMessages
  <2>1. PICK v \in Handlers : WillOpen(v, r)
    BY DEF ChatInv, OpeningWritten
  <2>2. v # w
    BY <2>1 DEF WillOpen, AssignAdmin
  <2>3. WillOpen(v, r)'
    BY <1>2, <1>5, <2>1, <2>2 DEF WillOpen, OpeningOf, OpeningMessages
  <2>4. QED
    BY <2>3
<1>11. QED
  BY <1>6, <1>7, <1>8, <1>9, <1>10 DEF ChatInv

LEMMA ReadStep ==
    ASSUME ChatInv, NEW w \in Handlers, ReadSupport(w)
    PROVE  ChatInv'
<1> DEFINE s == call[w].on
           m == Say(link[s], "content", s)
           c == Opened("open", s, call[w].chat, {m})
<1>1. s \in Supports /\ link[s] # 0 /\ s \in Resources
  BY DEF ReadSupport, ChatInv, CallsFit, CallFits
<1>2. link[s] \in DOMAIN chats /\ s \in chats[link[s]].with
  BY <1>1 DEF ChatInv, LinksFit
<1>3. m \in Message /\ Fits(m)
  BY <1>1, <1>2 DEF ChatInv, TypeOK, Say, Message, Kinds, Fits
<1>4. Suspend(w, c)
  BY DEF ReadSupport
<1>5. call[w].chat \in ChatIds
  BY DEF ReadSupport, ChatInv, TypeOK, Call, CallsFit, CallFits
<1> HIDE DEF m
<1>6. /\ c \in Call /\ CallFits(c)
      /\ c.on = s /\ c.op = "open" /\ c.chat = call[w].chat /\ c.todo = {m}
  BY <1>1, <1>3, <1>5 DEF Opened, Pending, Call, CallFits, ChatIds
<1>7. OpeningOf(link[s], s) = {m}
  BY <1>1 DEF OpeningOf, m
<1> HIDE DEF c, s
<1>8. /\ call' \in [Handlers -> Call]
      /\ \A v \in Handlers : call'[v] = IF v = w THEN c ELSE call[v]
  BY <1>4, <1>6, SuspendStep DEF ChatInv
<1>9. UNCHANGED <<active, state, support, link, chats, messages, assigned, spoiled>>
  BY DEF ReadSupport, resourceVars, chatVars
<1>10. TypeOK' /\ LinksFit' /\ MessagesFit' /\ SupportChatHasAdmin' /\ AdminsWereAssigned'
  BY <1>8, <1>9
     DEF ChatInv, TypeOK, LinksFit, MessagesFit, Fits, SupportChatHasAdmin, AdminsWereAssigned
<1>11. CallsFit'
  <2>1. ASSUME NEW v \in Handlers
        PROVE  CallFits(call'[v])
    BY <1>6, <1>8 DEF ChatInv, CallsFit
  <2>2. QED
    BY <1>9, <2>1 DEF CallsFit, CallFits, Fits
<1>12. OpeningWritten'
  <2> SUFFICES ASSUME NEW r \in Resources, link[r] # 0,
                      chats[link[r]].type = TypeOf(r), ~ OpeningOf(link[r], r) \subseteq messages, link[r] \notin spoiled
               PROVE  \E v \in Handlers : WillOpen(v, r)'
    BY <1>9 DEF OpeningWritten, OpeningOf, OpeningMessages
  <2>1. PICK v \in Handlers : WillOpen(v, r)
    BY DEF ChatInv, OpeningWritten
  <2>2. CASE v = w
    <3>1. r = s /\ call[w].chat = link[s]
      BY <2>1, <2>2 DEF WillOpen, s, ReadSupport
    <3>2. WillOpen(w, r)'
      BY <1>6, <1>7, <1>8, <1>9, <3>1 DEF WillOpen, OpeningOf, OpeningMessages
    <3>3. QED
      BY <3>2
  <2>3. CASE v # w
    <3>1. WillOpen(v, r)'
      BY <1>8, <1>9, <2>1, <2>3 DEF WillOpen, OpeningOf, OpeningMessages
    <3>2. QED
      BY <3>1
  <2>4. QED
    BY <2>2, <2>3
<1>13. QED
  BY <1>10, <1>11, <1>12 DEF ChatInv

LEMMA WriteStep ==
    ASSUME ChatInv, NEW w \in Handlers, NEW m \in call[w].todo, WriteMessage(w, m)
    PROVE  ChatInv'
<1>1. PICK c : c = IF call[w].todo = {m} THEN Idle ELSE [call[w] EXCEPT !.todo = @ \ {m}]
  OBVIOUS
<1>2. call[w] \in Call /\ CallFits(call[w])
  BY DEF ChatInv, TypeOK, CallsFit
<1>3. /\ c = Idle \/ (c.op = call[w].op /\ c.on = call[w].on /\ c.chat = call[w].chat)
      /\ c.todo = call[w].todo \ {m}
  BY <1>1, <1>2 DEF Call, Pending, Idle
<1>4. c \in Call
  BY <1>1, <1>2, IdleFits DEF Call
<1>5. CallFits(c)
  <2>1. CASE c = Idle
    BY <2>1, IdleFits
  <2>2. CASE c # Idle
    BY <1>2, <1>3, <2>2 DEF CallFits, WriteMessage
  <2>3. QED
    BY <2>1, <2>2
<1>6. c = Idle => call[w].todo = {m}
  <2>1. CASE call[w].todo = {m}
    BY <2>1
  <2>2. CASE call[w].todo # {m}
    <3>1. c.todo # {}
      BY <1>3, <2>2
    <3>2. QED
      BY <3>1 DEF Pending, Idle
  <2>3. QED
    BY <2>1, <2>2
<1>7. Suspend(w, c)
  BY <1>1 DEF WriteMessage
<1>8. /\ call' \in [Handlers -> Call]
      /\ \A v \in Handlers : call'[v] = IF v = w THEN c ELSE call[v]
  BY <1>4, <1>7, SuspendStep DEF ChatInv
<1>9. UNCHANGED <<active, state, support, link, chats, assigned, spoiled>>
  BY DEF WriteMessage, resourceVars
<1>10. m \in Message /\ Fits(m) /\ messages' = messages \cup {m}
  BY <1>2 DEF Call, CallFits, WriteMessage
<1>11. TypeOK' /\ LinksFit' /\ SupportChatHasAdmin' /\ AdminsWereAssigned'
  BY <1>8, <1>9, <1>10
     DEF ChatInv, TypeOK, LinksFit, SupportChatHasAdmin, AdminsWereAssigned
<1>12. MessagesFit'
  BY <1>9, <1>10 DEF ChatInv, MessagesFit, Fits
<1>13. CallsFit'
  <2>1. ASSUME NEW v \in Handlers
        PROVE  CallFits(call'[v])
    BY <1>5, <1>8 DEF ChatInv, CallsFit
  <2>2. QED
    BY <1>9, <2>1 DEF CallsFit, CallFits, Fits
<1>14. OpeningWritten'
  <2> SUFFICES ASSUME NEW r \in Resources, link[r] # 0,
                      chats[link[r]].type = TypeOf(r), ~ OpeningOf(link[r], r) \subseteq messages', link[r] \notin spoiled
               PROVE  \E v \in Handlers : WillOpen(v, r)'
    BY <1>9 DEF OpeningWritten, OpeningOf, OpeningMessages
  <2>1. PICK v \in Handlers : WillOpen(v, r)
    BY <1>10 DEF ChatInv, OpeningWritten
  <2>2. CASE v = w
    <3>1. call[w].chat = link[r] /\ OpeningOf(link[r], r) \subseteq messages \cup call[w].todo
      BY <2>1, <2>2 DEF WillOpen, WriteMessage
    <3>2. OpeningOf(link[r], r) \subseteq messages' \cup c.todo
      BY <1>3, <1>10, <3>1
    <3>3. c # Idle /\ call[w].op = "open"
      BY <1>6, <1>10, <2>1, <2>2, <3>1 DEF WillOpen, WriteMessage
    <3>4. WillOpen(w, r)'
      BY <1>3, <1>8, <1>9, <3>1, <3>2, <3>3 DEF WillOpen, OpeningOf, OpeningMessages
    <3>5. QED
      BY <3>4
  <2>3. CASE v # w
    <3>1. WillOpen(v, r)'
      BY <1>8, <1>9, <1>10, <2>1, <2>3 DEF WillOpen, OpeningOf, OpeningMessages
    <3>2. QED
      BY <3>1
  <2>4. QED
    BY <2>2, <2>3
<1>15. QED
  BY <1>11, <1>12, <1>13, <1>14 DEF ChatInv

LEMMA CrashStep ==
    ASSUME ChatInv, Crash
    PROVE  ChatInv'
<1>1. /\ \A w \in Handlers : call'[w] = Idle
      /\ call' \in [Handlers -> Call]
  BY IdleFits DEF Crash
<1>2. UNCHANGED <<active, state, support, link, chats, messages, assigned>>
  BY DEF Crash, resourceVars, chatVars
<1>3. /\ spoiled \subseteq spoiled' /\ spoiled' \subseteq ChatIds
      /\ \A w \in Handlers : Opening(w) => call[w].chat \in spoiled'
  BY DEF Crash, ChatInv, TypeOK, Call, CallsFit, CallFits, Opening
<1>4. TypeOK' /\ LinksFit' /\ MessagesFit' /\ SupportChatHasAdmin' /\ AdminsWereAssigned'
  BY <1>1, <1>2, <1>3
     DEF ChatInv, TypeOK, LinksFit, MessagesFit, Fits, SupportChatHasAdmin, AdminsWereAssigned
<1>5. CallsFit'
  <2>1. \A w \in Handlers : CallFits(call'[w])
    BY <1>1, IdleFits
  <2>2. QED
    BY <1>2, <2>1 DEF CallsFit, CallFits, Fits
<1>6. OpeningWritten'
  <2> SUFFICES ASSUME NEW r \in Resources, link[r] # 0,
                      chats[link[r]].type = TypeOf(r), ~ OpeningOf(link[r], r) \subseteq messages
               PROVE  link[r] \in spoiled'
    BY <1>2 DEF OpeningWritten, OpeningOf, OpeningMessages
  <2>1. link[r] \in spoiled \/ \E w \in Handlers : call[w].chat = link[r] /\ Opening(w)
    BY DEF ChatInv, OpeningWritten, WillOpen, Opening
  <2>2. QED
    BY <1>3, <2>1
<1>7. QED
  BY <1>4, <1>5, <1>6 DEF ChatInv

LEMMA CreateStep ==
    ASSUME ChatInv, NEW w \in Handlers, CreateChat(w)
    PROVE  ChatInv'
<1> DEFINE r == call[w].on
           ids == call[w].ids
           chat == Len(chats) + 1
           row == [type |-> TypeOf(r), by |-> call[w].by, with |-> ids]
           c == IF r \in Favourites THEN Idle
                ELSE Opened(IF r \in Offers THEN "open" ELSE "read",
                            r, chat, OpeningMessages(chat, r))
<1>1. /\ r \in ids /\ ids \in SUBSET Resources
      /\ \A p, q \in ids : TypeOf(p) = TypeOf(q) => p = q
      /\ call[w].by \in Admins \cup {Nobody}
      /\ r \in Supports => call[w].by \in assigned[r]
  BY DEF CreateChat, ChatInv, TypeOK, Call, CallsFit, CallFits, IdSets
<1>2. chats \in Seq(Chat) /\ row \in Chat
  BY <1>1 DEF ChatInv, TypeOK, Chat, ChatType, TypeOf
<1>3. chat \in ChatIds /\ chat \notin DOMAIN chats /\ chat # 0
  BY <1>2 DEF CreateChat, ChatIds
<1>4. /\ chats' \in Seq(Chat)
      /\ Len(chats') <= MaxChats
      /\ DOMAIN chats' = DOMAIN chats \cup {chat}
      /\ chats'[chat] = row
      /\ \A i \in DOMAIN chats : chats'[i] = chats[i]
  <2>1. chats' = Append(chats, row)
    BY DEF CreateChat
  <2>2. Len(chats) < MaxChats
    BY DEF CreateChat
  <2> HIDE DEF row
  <2>3. QED
    BY <1>2, <2>1, <2>2
<1>5. /\ link' \in [Resources -> {0} \cup ChatIds]
      /\ \A q \in Resources : link'[q] = IF q \in ids THEN chat ELSE link[q]
  BY <1>3 DEF CreateChat, ChatInv, TypeOK
<1>6. UNCHANGED <<active, state, support, messages, assigned, spoiled>>
  BY DEF CreateChat
<1>7. Suspend(w, c)
  BY DEF CreateChat
<1>8. \A m : Fits(m) => Fits(m)'
  BY <1>4 DEF Fits
<1>9. row.with = ids /\ row.type = TypeOf(r) /\ row.by = call[w].by
  OBVIOUS
<1>10. ASSUME NEW m \in OpeningMessages(chat, r)
       PROVE  m \in Message /\ Fits(m)'
  <2>1. r \in Offers /\ m.chat = chat /\ m.about = r /\ m \in Message
    BY <1>3, <1>10 DEF OpeningMessages, Say, Message, Kinds, Resources
  <2>2. row.type = "Order"
    BY <1>9, <2>1 DEF TypeOf
  <2> HIDE DEF row
  <2>3. QED
    BY <1>1, <1>4, <1>9, <2>1, <2>2 DEF Fits
<1>11. /\ c \in Call
       /\ c.op \in {"idle", "open", "read"}
       /\ c.op # "idle" => c.on = r /\ c.chat = chat
       /\ c.op = "read" => r \in Supports
       /\ \A m \in c.todo : Fits(m)'
  <2>1. CASE r \in Favourites
    BY <2>1, IdleFits DEF Pending, Idle
  <2>2. CASE r \notin Favourites
    <3>1. OpeningMessages(chat, r) \subseteq Message
      BY <1>10
    <3>2. r \in Offers \/ (r \in Supports /\ r \notin Offers)
      BY <1>1, <2>2 DEF Resources
    <3>3. c = Opened(IF r \in Offers THEN "open" ELSE "read",
                     r, chat, OpeningMessages(chat, r))
      BY <2>2
    <3>4. r \in Resources
      BY <1>1
    <3> HIDE DEF c, r, ids, chat
    <3>5. QED
      BY <1>3, <1>10, <3>1, <3>2, <3>3, <3>4 DEF Opened, Pending, Call
  <2>3. QED
    BY <2>1, <2>2
<1>12. \/ OpeningOf(chat, r) = {}
       \/ c.op = "read" /\ c.on = r /\ c.chat = chat
       \/ c.op = "open" /\ c.chat = chat /\ c.todo = OpeningOf(chat, r)
  <2>1. CASE r \in Favourites
    BY <2>1 DEF OpeningOf, OpeningMessages
  <2>2. CASE r \in Offers
    BY <2>2 DEF OpeningOf, Opened, Pending
  <2>3. CASE r \in Supports
    BY <2>3 DEF Opened, Pending
  <2>4. QED
    BY <1>1, <2>1, <2>2, <2>3 DEF Resources
<1> HIDE DEF c, row
<1>13. /\ call' \in [Handlers -> Call]
       /\ \A v \in Handlers : call'[v] = IF v = w THEN c ELSE call[v]
  BY <1>7, <1>11, SuspendStep DEF ChatInv
<1>14. TypeOK'
  BY <1>4, <1>5, <1>6, <1>13 DEF ChatInv, TypeOK
<1>15. LinksFit' /\ MessagesFit' /\ AdminsWereAssigned'
  <2>1. LinksFit'
    BY <1>4, <1>5, <1>9 DEF ChatInv, LinksFit
  <2>2. MessagesFit' /\ AdminsWereAssigned'
    BY <1>6, <1>8 DEF ChatInv, MessagesFit, AdminsWereAssigned
  <2>3. QED
    BY <2>1, <2>2
<1>16. SupportChatHasAdmin'
  <2>1. ASSUME NEW s \in ids \cap Supports, row.type = "Support"
        PROVE  row.by \in assigned[s]
    <3>1. TypeOf(s) = TypeOf(r)
      BY <1>9, <2>1 DEF TypeOf
    <3>2. QED
      BY <1>1, <1>9, <2>1, <3>1
  <2>2. QED
    BY <1>4, <1>6, <1>9, <2>1 DEF ChatInv, SupportChatHasAdmin
<1>17. CallsFit'
  <2>1. ASSUME NEW v \in Handlers, v # w
        PROVE  CallFits(call[v])'
    <3>1. CallFits(call[v]) /\ call'[v] = call[v] /\ call[v] \in Call
      BY <1>13, <2>1 DEF ChatInv, CallsFit, TypeOK
    <3>2. call[v].op = "read" => link'[call[v].on] # 0
      BY <1>3, <1>5, <3>1 DEF CallFits, Resources
    <3>3. QED
      BY <1>6, <1>8, <3>1, <3>2 DEF CallFits
  <2>2. CallFits(call[w])'
    <3>1. c.op = "read" => link'[c.on] # 0
      BY <1>1, <1>3, <1>5, <1>11
    <3>2. call'[w] = c
      BY <1>13
    <3>3. QED
      BY <1>1, <1>3, <1>11, <3>1, <3>2 DEF CallFits
  <2>3. QED
    BY <2>1, <2>2 DEF CallsFit
<1>18. OpeningWritten'
  <2> SUFFICES ASSUME NEW q \in Resources, link'[q] # 0,
                      chats'[link'[q]].type = TypeOf(q),
                      ~ OpeningOf(link'[q], q) \subseteq messages, link'[q] \notin spoiled
               PROVE  \E v \in Handlers : WillOpen(v, q)'
    BY <1>6 DEF OpeningWritten, OpeningOf, OpeningMessages
  <2>1. CASE q \in ids
    <3>1. link'[q] = chat
      BY <1>5, <2>1
    <3>2. q = r
      BY <1>1, <1>4, <1>9, <2>1, <3>1
    <3>3. OpeningOf(chat, r) # {}
      BY <3>1, <3>2
    <3>4. WillOpen(w, q)'
      BY <1>12, <1>13, <3>1, <3>2, <3>3 DEF WillOpen, OpeningOf, OpeningMessages
    <3>5. QED
      BY <3>4
  <2>2. CASE q \notin ids
    <3>1. link'[q] = link[q]
      BY <1>5, <2>2
    <3>2. link[q] \in DOMAIN chats
      BY <3>1 DEF ChatInv, LinksFit
    <3>3. PICK v \in Handlers : WillOpen(v, q)
      BY <1>4, <3>1, <3>2 DEF ChatInv, OpeningWritten
    <3>4. v # w
      BY <3>3 DEF WillOpen, CreateChat
    <3>5. WillOpen(v, q)'
      BY <1>6, <1>13, <3>1, <3>3, <3>4 DEF WillOpen, OpeningOf, OpeningMessages
    <3>6. QED
      BY <3>5
  <2>3. QED
    BY <2>1, <2>2
<1>19. QED
  BY <1>14, <1>15, <1>16, <1>17, <1>18 DEF ChatInv

-----------------------------------------------------------------------------

\* The chats keep their invariant, whatever handlers overlap or fail.
THEOREM ChatSafety == Spec => []ChatInv
<1>1. ChatInv /\ [Next]_vars => ChatInv'
  <2> SUFFICES ASSUME ChatInv, [Next]_vars PROVE ChatInv'
    OBVIOUS
  <2>1. CASE UNCHANGED vars
    <3>1. UNCHANGED <<active, state, support, link, chats, messages, call, assigned,
                      spoiled>>
      BY <2>1 DEF vars
    <3>2. TypeOK'
      BY <3>1 DEF ChatInv, TypeOK
    <3>3. QED
      BY <3>1, <3>2, QuietStep
  <2>2. CASE ResourceStep
    BY <2>2, ResourceStepInv
  <2>3. ASSUME NEW w \in Handlers, BeginStep(w) \/ ResumeStep(w)
        PROVE  ChatInv'
    BY <2>3, BeginStepInv, ResumeQuietly, AssignStep, CreateStep, ReadStep, WriteStep
       DEF ResumeStep
  <2>4. CASE Crash
    BY <2>4, CrashStep
  <2>5. QED
    BY <2>1, <2>2, <2>3, <2>4 DEF Next
<1>2. QED
  BY <1>1, ChatInit, PTL DEF Spec

\* Chats, messages and suspended calls keep their types, after a second
\* creation, a deletion in between or a crash too.
THEOREM ChatTypes == Spec => []TypeOK
<1>1. ChatInv => TypeOK
  BY DEF ChatInv
<1>2. QED
  BY <1>1, ChatSafety, PTL

\* A resource that is left with a chat of its own type finds the opening
\* messages there, whichever calls overlapped and whatever ids they named.
THEOREM LinkedOpened == Spec => []LinkedChatOpened
  BY ChatSafety, ChatInvImplies, PTL

\* Every message is in a chat that was connected to what the message is about,
\* though the connection may have been taken by a call of another type.
THEOREM MessagesFitChats == Spec => []MessagesBelong
  BY ChatSafety, ChatInvImplies, PTL

\* Every chat of type Support was created by an administrator to whom the
\* support request it was connected to had been assigned.
THEOREM SupportChatStaffed == Spec => []SupportChatHasAdmin
  BY ChatSafety, ChatInvImplies, PTL

\* Once no call that found a resource without a chat is under way, the check for
\* an existing chat keeps every later one out, and only a call for a chat of
\* another type can still take the resource.
THEOREM LinkSettles == Spec => SettledLink
<1>1. ASSUME ChatInv, Next, NEW r \in Resources, Settled(r), link'[r] # link[r]
      PROVE  chats'[link'[r]].type # TypeOf(r)
  <2>1. ASSUME NEW w \in Handlers, CreateChat(w)
        PROVE  chats'[link'[r]].type # TypeOf(r)
    <3> DEFINE on == call[w].on
               row == [type |-> TypeOf(on), by |-> call[w].by, with |-> call[w].ids]
    <3>1. on # r
      BY <1>1, <2>1 DEF CreateChat, CreationPending, Settled
    <3>2. link'[r] = Len(chats) + 1 /\ r \in call[w].ids
      BY <1>1, <2>1 DEF CreateChat
    <3>3. TypeOf(on) # TypeOf(r)
      BY <1>1, <2>1, <3>1, <3>2 DEF CreateChat, ChatInv, CallsFit, CallFits, IdSets
    <3>4. chats' = Append(chats, row) /\ row.type = TypeOf(on)
      BY <2>1 DEF CreateChat
    <3>5. chats \in Seq(Chat)
      BY <1>1 DEF ChatInv, TypeOK
    <3> HIDE DEF row
    <3>6. QED
      BY <3>2, <3>3, <3>4, <3>5
  <2>2. CASE ResourceStep \/ Crash
    BY <1>1, <2>2 DEF ResourceStep, SupportCall, Approve, Close, AddResource, Resolve, Crash, resourceVars
  <2>3. ASSUME NEW w \in Handlers, BeginStep(w)
        PROVE  link'[r] = link[r]
    BY <1>1, <2>3 DEF BeginStep, FavouriteCall, AdminCall, ChatCall, AddResource, BeginDelete,
                BeginAssign, BeginCreate, CancelOffer, BeginCancel, resourceVars
  <2>4. ASSUME NEW w \in Handlers, ResumeStep(w)
        PROVE  chats'[link'[r]].type # TypeOf(r)
    BY <1>1, <2>1, <2>4 DEF ResumeStep, DeleteFavourite, AssignAdmin, ReadSupport, WriteMessage,
                CancelRequest, RowIsGone, CallFails, resourceVars
  <2>5. QED
    BY <1>1, <2>2, <2>3, <2>4 DEF Next
<1>2. ASSUME ChatInv, Next, NEW r \in Resources, Settled(r), NEW v \in Handlers,
             call'[v].op = "create"
      PROVE  call'[v].on # r
  <2>1. CASE call'[v] = call[v]
    BY <1>2, <2>1 DEF Settled, CreationPending
  <2>2. \A w \in Handlers : \A c : Suspend(w, c) => call'[v] = call[v] \/ call'[v] = c
    BY <1>2 DEF Suspend, ChatInv, TypeOK
  <2>3. \A q, u, ids : Creating(u, q, ids).on = q
    BY DEF Creating, Pending
  <2>4. /\ \A op, q, u, todo : Pending(op, u, q, todo).op = op
        /\ \A op, q, chat, todo : Opened(op, q, chat, todo).op = op
    BY DEF Opened, Pending
  <2>5. Idle.op # "create"
    BY <2>4 DEF Idle
  <2>6. CASE ResourceStep \/ Crash
    BY <1>2, <2>1, <2>5, <2>6 DEF ResourceStep, SupportCall, Approve, Close, AddResource, Resolve, Crash
  <2>7. ASSUME NEW w \in Handlers, BeginStep(w)
        PROVE  call'[v].on # r
    <3>1. ASSUME NEW ids \in IdSets, NEW q \in ids, NEW u \in Users, BeginCreate(w, u, q, ids)
          PROVE  call'[v].on # r
      <4>1. q # r
        BY <1>2, <3>1 DEF BeginCreate, Settled
      <4>2. QED
        BY <2>1, <2>2, <2>3, <3>1, <4>1 DEF BeginCreate
    <3>2. \A op, u, q, todo :
             op # "create" /\ Suspend(w, Pending(op, u, q, todo)) => call'[v].on # r
      BY <1>2, <2>1, <2>2, <2>4
    <3>3. Suspend(w, Idle) => call'[v].on # r
      BY <1>2, <2>1, <2>2, <2>5
    <3>4. ASSUME NEW f \in Favourites, BeginDelete(w, f)
          PROVE  call'[v].on # r
      BY <3>2, <3>4 DEF BeginDelete
    <3>5. ASSUME NEW a \in Admins, NEW s \in Supports, BeginAssign(w, a, s)
          PROVE  call'[v].on # r
      BY <3>2, <3>5 DEF BeginAssign
    <3>6. ASSUME NEW o \in Offers, CancelOffer(w, o)
          PROVE  call'[v].on # r
      <4> DEFINE todo == {Cancelation(q) : q \in {p \in {o} : link[p] # 0}}
      <4>1. Suspend(w, Idle) \/ Suspend(w, Pending("announce", Nobody, Nobody, todo))
        BY <3>6, Zenon DEF CancelOffer, Announce
      <4> HIDE DEF todo
      <4>2. QED
        BY <3>2, <3>3, <4>1
    <3>7. CASE BeginCancel(w)
      <4> DEFINE todo == {Cancelation(o) : o \in {q \in Offers : state[q] = "ready" /\ link[q] # 0}}
      <4>1. Suspend(w, Pending("cancel", Nobody, Nobody, todo))
        BY <3>7, Zenon DEF BeginCancel
      <4> HIDE DEF todo
      <4>2. QED
        BY <3>2, <4>1
    <3>8. ASSUME NEW f \in Favourites, AddResource(f)
          PROVE  call'[v].on # r
      BY <2>1, <3>8 DEF AddResource
    <3>9. QED
      BY <2>7, <3>1, <3>4, <3>5, <3>6, <3>7, <3>8 DEF BeginStep, FavouriteCall, AdminCall, ChatCall
  <2>8. ASSUME NEW w \in Handlers, ResumeStep(w)
        PROVE  call'[v].on # r
    <3>1. ASSUME NEW m \in call[w].todo, WriteMessage(w, m)
          PROVE  call'[v].on # r
      <4>1. [call[w] EXCEPT !.todo = @ \ {m}].op # "create"
        BY <1>2, <3>1 DEF WriteMessage, ChatInv, TypeOK, Call
      <4>2. QED
        BY <1>2, <2>1, <2>2, <2>5, <3>1, <4>1 DEF WriteMessage
    <3>2. QED
      BY <1>2, <2>1, <2>2, <2>4, <2>5, <2>8, <3>1
      DEF ResumeStep, DeleteFavourite, AssignAdmin, CreateChat, ReadSupport, CancelRequest,
          Announce, RowIsGone, CallFails
  <2>9. QED
    BY <1>2, <2>6, <2>7, <2>8 DEF Next
<1>3. ChatInv /\ [Next]_vars =>
      [\A r \in Resources : Settled(r) =>
          /\ ~ CreationPending(r)'
          /\ link'[r] # link[r] => chats'[link'[r]].type # TypeOf(r)]_vars
  BY <1>1, <1>2 DEF CreationPending
<1>4. QED
  BY <1>3, ChatSafety, PTL DEF Spec, SettledLink

-----------------------------------------------------------------------------
(* What the chats take for granted of the lifecycle.                       *)

readyOffers == {o \in Offers : state[o] = "ready"}

ChoiceStep == [Choices!CNext]_(Choices!cvars)

\* A step that makes no offer ready closes some of them, or none.
LEMMA NoneReady ==
    ASSUME active \in BOOLEAN, active' \in BOOLEAN, readyOffers' \subseteq readyOffers
    PROVE  ChoiceStep
<1>1. PICK closed \in SUBSET Offers : readyOffers' = readyOffers \ closed
  <2>1. readyOffers \ readyOffers' \in SUBSET Offers
    BY DEF readyOffers
  <2>2. readyOffers' = readyOffers \ (readyOffers \ readyOffers')
    OBVIOUS
  <2>3. QED
    BY <2>1, <2>2
<1>2. Choices!Close(TheRequest, closed)
  BY <1>1 DEF Choices!Close, TheRequest, readyOffers
<1>3. QED
  BY <1>2 DEF ChoiceStep, Choices!CNext

\* Calls, cancelations and chats make no offer ready: only the lifecycle's
\* approval does, and it makes the request Active with it.
THEOREM ChoicesOpen == Spec => OnlyChoicesOpen
<1>1. Init => Choices!CInit
  BY DEF Init, Choices!CInit, TheRequest, Resources
<1>2. ChatInv /\ [Next]_vars => ChoiceStep
  <2> SUFFICES ASSUME ChatInv, [Next]_vars PROVE ChoiceStep
    OBVIOUS
  <2>1. active \in BOOLEAN /\ state \in [Resources -> {"none", "ready", "over"}]
    BY DEF ChatInv, TypeOK
  <2>2. ASSUME NEW o \in Offers, Approve(o) PROVE ChoiceStep
    <3>1. active' = TRUE /\ readyOffers' = readyOffers \cup {o}
      BY <2>1, <2>2 DEF Approve, readyOffers, Resources
    <3>2. Choices!Choose(TheRequest, o)
      BY <3>1 DEF Choices!Choose, TheRequest, readyOffers
    <3>3. QED
      BY <3>2 DEF ChoiceStep, Choices!CNext
  <2>3. ASSUME NEW closed \in SUBSET Offers, Close(closed) PROVE ChoiceStep
    <3>1. active' \in BOOLEAN /\ readyOffers' \subseteq readyOffers
      BY <2>1, <2>3 DEF Close, readyOffers, Resources
    <3>2. QED
      BY <2>1, <3>1, NoneReady
  <2>4. ASSUME NEW r \in Favourites \cup Supports, AddResource(r) PROVE ChoiceStep
    <3>1. UNCHANGED active /\ readyOffers' = readyOffers
      BY <2>1, <2>4 DEF AddResource, readyOffers, Resources
    <3>2. QED
      BY <2>1, <3>1, NoneReady
  <2>5. ASSUME NEW w \in Handlers, DeleteFavourite(w) PROVE ChoiceStep
    <3>1. UNCHANGED active /\ readyOffers' \subseteq readyOffers
      BY <2>1, <2>5 DEF DeleteFavourite, readyOffers, Resources
    <3>2. QED
      BY <2>1, <3>1, NoneReady
  <2>6. ASSUME NEW w \in Handlers, CancelRequest(w) \/ \E o \in Offers : CancelOffer(w, o)
        PROVE  ChoiceStep
    <3>1. active' = FALSE /\ readyOffers' \subseteq readyOffers
      BY <2>1, <2>6 DEF CancelRequest, CancelOffer, readyOffers, Resources
    <3>2. QED
      BY <2>1, <3>1, NoneReady
  <2>7. CASE UNCHANGED <<active, state>>
    BY <2>1, <2>7, NoneReady DEF readyOffers
  <2>8. QED
    BY <2>2, <2>3, <2>4, <2>5, <2>6, <2>7
       DEF Next, ResourceStep, SupportCall, BeginStep, FavouriteCall, AdminCall, ChatCall, ResumeStep, Resolve,
           BeginDelete, BeginAssign, AssignAdmin, BeginCreate, CreateChat, ReadSupport,
           WriteMessage, BeginCancel, CallFails, RowIsGone, Crash, resourceVars, vars
<1>3. QED
  BY <1>1, <1>2, ChatSafety, PTL DEF Spec, OnlyChoicesOpen, Choices!CSpec, ChoiceStep

\* Conversely, every step that ChosenOffers lets the lifecycle take is a step of
\* Chats, when offers that are chosen no more are over and the others keep
\* their state: no choice that the lifecycle makes is assumed away.
THEOREM EveryChoiceIsTaken ==
    ASSUME TypeOK, Choices!CNext, active' \in BOOLEAN,
           state' \in [Resources -> {"none", "ready", "over"}],
           \A r \in Resources : state'[r] # state[r] =>
               r \in Offers /\ state'[r] = IF state[r] = "ready" THEN "over" ELSE "ready",
           UNCHANGED <<support, link, chatVars, call, assigned, spoiled>>
    PROVE  Next
<1>1. active \in BOOLEAN /\ state \in [Resources -> {"none", "ready", "over"}] /\ Offers \subseteq Resources
  BY DEF TypeOK, Resources
<1>2. CASE \E h \in {TheRequest}, o \in Offers : Choices!Choose(h, o)
  <2>1. PICK o \in Offers : Choices!Choose(TheRequest, o)
    BY <1>2
  <2>2. active' = TRUE /\ readyOffers' = readyOffers \cup {o}
    BY <2>1 DEF Choices!Choose, TheRequest, readyOffers
  <2>3. state' = [state EXCEPT ![o] = "ready"]
    BY <1>1, <2>2 DEF readyOffers
  <2>4. Approve(o)
    BY <2>2, <2>3 DEF Approve
  <2>5. QED
    BY <2>4 DEF Next, ResourceStep
<1>3. CASE \E h \in {TheRequest} : \E closed \in SUBSET Offers : Choices!Close(h, closed)
  <2>1. PICK closed \in SUBSET Offers : Choices!Close(TheRequest, closed)
    BY <1>3
  <2>2. readyOffers' = readyOffers \ closed
    BY <2>1 DEF Choices!Close, TheRequest, readyOffers
  <2> DEFINE gone == closed \cap readyOffers
  <2>3. state' = [r \in Resources |-> IF r \in gone THEN "over" ELSE state[r]]
    BY <1>1, <2>2 DEF readyOffers
  <2>4. Close(gone) /\ gone \in SUBSET Offers
    BY <2>3 DEF Close, readyOffers
  <2>5. QED
    BY <2>4 DEF Next, ResourceStep
<1>4. QED
  BY <1>2, <1>3 DEF Choices!CNext
=============================================================================
