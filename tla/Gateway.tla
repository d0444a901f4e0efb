--------------------------------- MODULE Gateway ---------------------------------
(***************************************************************************)
(* The messages of a chat on their way to its parties.  A message is       *)
(* stored and then emitted to the first connection in the gateway's list   *)
(* that belongs to its receiver; a client reads the rest of the history in *)
(* pages, newest first.  The list is in memory, and a socket that has died *)
(* stays in it until the server notices.  (The namespace notifications has *)
(* a list of its own, kept by the same class, and no history.)             *)
(* Messages are numbered as they are stored.  The history is ordered by    *)
(* createdAt, which several may share (a handler stores two side by side)  *)
(* and which may be older than that of messages stored already.            *)
(***************************************************************************)
EXTENDS Integers, SequencesExt

CONSTANTS
    Parties,      \* Chat.opponents
    Watched,      \* those of them whose connections are followed
    Conns,        \* places for connections to the namespace chats
    Handlers,     \* calls that may overlap
    MaxMessages,  \* bound on messages
    MaxTime,      \* bound on the milliseconds in which they are created
    Limit,        \* PaginateValidateType.limit
    Latest        \* how many messages getChat takes (10)

Messages == 1..MaxMessages
Nobody == "nobody"

\* createChat makes a chat of the caller and of at most one other.
ASSUME PartiesAssumption ==
    /\ Nobody \notin Parties
    /\ \A p, q, r \in Parties : p = q \/ q = r \/ p = r
    /\ Watched \subseteq Parties
ASSUME GatewayBoundsAssumption ==
    /\ MaxMessages \in Nat /\ MaxTime \in Nat
    /\ Limit \in Nat \ {0} /\ Latest \in Nat

VARIABLES
    socket,  \* socket[c]: the connection c as the network has it
    user,    \* user[c]: userId of c in clients
    listed,  \* the connections in clients
    ahead,   \* ahead[c]: those of its user that were in the list before it
    count,   \* how many messages are stored
    createdAt, \* createdAt[m]: the millisecond of m, 0 when it is not stored
    due,     \* due[m]: to whom m is emitted, or nobody when a fault cut that off
    emitting, \* emitting[w]: the message that the handler w is about to emit, or 0
    known,   \* known[c]: of the messages due to its user, those its client was given
    offset,  \* offset[c]: how far it has read the history
    walked,  \* the clients that have read it to its end
    sure     \* the connections that were first in the list when they began to (history)

connVars == <<socket, user, listed, ahead>>
messageVars == <<count, createdAt, due>>
clientVars == <<known, offset, walked, sure>>
vars == <<connVars, messageVars, emitting, clientVars>>

Live(c) == socket[c] \in {"open", "dead"}

\* What find returns for the user of c.
First(c) == c \in listed /\ ahead[c] \cap listed = {}

TypeOK ==
    /\ socket \in [Conns -> {"open", "dead", "closed"}]
    /\ user \in [Conns -> Watched \cup {Nobody}]
    /\ listed \in SUBSET Conns
    /\ ahead \in [Conns -> SUBSET Conns]
    /\ count \in 0..MaxMessages
    /\ createdAt \in [Messages -> 0..MaxTime]
    /\ due \in [Messages -> SUBSET Watched]
    /\ emitting \in [Handlers -> 0..MaxMessages]
    /\ known \in [Conns -> SUBSET Messages]
    /\ offset \in [Conns -> Nat]
    /\ walked \in SUBSET Conns
    /\ sure \in SUBSET Conns
    \* The list is of the sockets that the server takes for open.
    /\ \A c \in Conns : c \in listed <=> Live(c)

Init ==
    /\ socket = [c \in Conns |-> "closed"]
    /\ user = [c \in Conns |-> Nobody]
    /\ listed = {}
    /\ ahead = [c \in Conns |-> {}]
    /\ count = 0
    /\ createdAt = [m \in Messages |-> 0]
    /\ due = [m \in Messages |-> {}]
    /\ emitting = [w \in Handlers |-> 0]
    /\ known = [c \in Conns |-> {}]
    /\ offset = [c \in Conns |-> 0]
    /\ walked = {}
    /\ sure = {}

-----------------------------------------------------------------------------
(* Connections. *)

\* What the clients of these connections know counts no more.
Forget(gone) ==
    /\ known' = [c \in Conns |-> IF c \in gone THEN {} ELSE known[c]]
    /\ offset' = [c \in Conns |-> IF c \in gone THEN 0 ELSE offset[c]]
    /\ walked' = walked \ gone
    /\ sure' = sure \ gone

\* Entries leave the list.
Unlist(entries) ==
    /\ listed' = listed \ entries
    /\ ahead' = [c \in Conns |-> IF c \in entries THEN {} ELSE ahead[c] \ entries]

Close(closed) ==
    /\ socket' = [c \in Conns |-> IF c \in closed THEN "closed" ELSE socket[c]]
    /\ user' = [c \in Conns |-> IF c \in closed THEN Nobody ELSE user[c]]
    /\ Forget(closed)

\* With a token that verifies, whether or not its user has others.
Connect(c, u) ==
    /\ socket[c] = "closed"
    /\ socket' = [socket EXCEPT ![c] = "open"]
    /\ user' = [user EXCEPT ![c] = u]
    /\ listed' = listed \cup {c}
    /\ ahead' = [ahead EXCEPT ![c] = {d \in listed : user[d] = u}]
    /\ UNCHANGED <<messageVars, emitting, clientVars>>

\* The client is gone; the server has yet to miss its pings.
Drop(c) ==
    /\ socket[c] = "open"
    /\ socket' = [socket EXCEPT ![c] = "dead"]
    /\ Forget({c})
    /\ UNCHANGED <<user, listed, ahead, messageVars, emitting>>

\* Mutants of HandleDisconnect: nothing is filtered, and all of the user's are.
DisconnectKeepsEntry(c) ==
    /\ socket[c] = "dead"
    /\ Close({c})
    /\ UNCHANGED <<listed, ahead, messageVars, emitting>>

DisconnectByUser(c) ==
    /\ socket[c] = "dead"
    /\ Unlist({d \in listed : user[d] = user[c]})
    /\ Close({c})
    /\ UNCHANGED <<messageVars, emitting>>

HandleDisconnect(c) ==
    /\ socket[c] = "dead"
    /\ Unlist({c})
    /\ Close({c})
    /\ UNCHANGED <<messageVars, emitting>>

-----------------------------------------------------------------------------
(* Messages. *)

CreateMessage(to) ==
    /\ count < MaxMessages
    /\ count' = count + 1
    /\ \E t \in 1..MaxTime : createdAt' = [createdAt EXCEPT ![count + 1] = t]
    /\ due' = [due EXCEPT ![count + 1] = to \cap Watched]
    /\ UNCHANGED <<connVars, clientVars>>

\* Of whoever is a party, on a connection that is followed or not.  The author
\* is whom the message names; it goes to the first party that is not the
\* author: to the other one, as a rule, or to nobody in a chat with oneself.
HandleSendMessage(w, to) ==
    /\ emitting[w] = 0
    /\ CreateMessage({to} \ {Nobody})
    /\ emitting' = [emitting EXCEPT ![w] = count + 1]

\* To the parties that the caller names, or to all.
SendServerMessage(w, to) ==
    /\ emitting[w] = 0
    /\ CreateMessage(to)
    /\ emitting' = [emitting EXCEPT ![w] = count + 1]

\* The first messages of a chat are in the answer to its creator only.
CreateChat ==
    /\ CreateMessage({})
    /\ UNCHANGED emitting

\* Mutant of Receivers: the last connection of the user instead of the first.
LastReceivers(m) ==
    {c \in listed : user[c] \in due[m] /\ \A d \in listed : c \notin ahead[d]}

Receivers(m) == {c \in Conns : First(c) /\ user[c] \in due[m]}

\* In one turn of the event loop, to whoever is connected by then; what goes
\* to a dead socket is lost.
SendTo(w) ==
    LET m == emitting[w]
    IN  /\ m # 0
        /\ known' = [c \in Conns |-> IF c \in Receivers(m) /\ socket[c] = "open"
                                     THEN known[c] \cup {m} ELSE known[c]]
        /\ emitting' = [emitting EXCEPT ![w] = 0]
        /\ UNCHANGED <<connVars, messageVars, offset, walked, sure>>

-----------------------------------------------------------------------------
(* The history. *)

\* A client reads the history from its newest page on, as often as it likes.
BeginWalk(c) ==
    /\ socket[c] = "open"
    /\ offset' = [offset EXCEPT ![c] = 0]
    /\ walked' = walked \ {c}
    /\ sure' = IF First(c) THEN sure \cup {c} ELSE sure \ {c}
    /\ UNCHANGED <<connVars, messageVars, emitting, known>>

\* createdAt desc: messages of one millisecond come as they like, in every
\* query anew.
Ordered ==
    {s \in SetToSeqs(1..count) :
        \A i, j \in DOMAIN s : i < j => createdAt[s[i]] >= createdAt[s[j]]}

Page(s, skip, take) == {s[i] : i \in DOMAIN s \cap (skip + 1 .. skip + take)}

\* What a page tells the client of c, of the messages due to its user.
Tell(c, skip, take) ==
    \E s \in Ordered :
        known' = [known EXCEPT ![c] = @ \cup {m \in Page(s, skip, take) : user[c] \in due[m]}]

\* Messages that came since the first page shift what is skipped.
GetChatMessages(c) ==
    /\ socket[c] = "open"
    /\ c \notin walked
    /\ Tell(c, offset[c], Limit)
    /\ IF offset[c] + Limit >= count
       THEN walked' = walked \cup {c} /\ offset' = [offset EXCEPT ![c] = 0]
       ELSE walked' = walked /\ offset' = [offset EXCEPT ![c] = @ + Limit]
    /\ UNCHANGED <<connVars, messageVars, emitting, sure>>

\* A client opens the chat, with which the newest messages come and which does
\* not tell it how far the history goes.
GetChat(c) ==
    /\ socket[c] = "open"
    /\ Tell(c, 0, Latest)
    /\ UNCHANGED <<connVars, messageVars, emitting, offset, walked, sure>>

-----------------------------------------------------------------------------
(* Faults. *)

CutOff(ws) == [m \in Messages |-> IF \E w \in ws : emitting[w] = m THEN {} ELSE due[m]]

\* What the handler awaits is rejected after the message was stored.
CallFails(w) ==
    /\ emitting[w] # 0
    /\ due' = CutOff({w})
    /\ emitting' = [emitting EXCEPT ![w] = 0]
    /\ UNCHANGED <<connVars, count, createdAt, clientVars>>

\* The list goes with the process; every client has to connect again.
Crash ==
    /\ \E c \in Conns : Live(c)
    /\ due' = CutOff(Handlers)
    /\ emitting' = [w \in Handlers |-> 0]
    /\ Unlist(listed)
    /\ Close({c \in Conns : Live(c)})
    /\ UNCHANGED <<count, createdAt>>

Client(c) ==
    \/ \E u \in Watched : Connect(c, u)
    \/ Drop(c)
    \/ HandleDisconnect(c)
    \/ BeginWalk(c)
    \/ GetChatMessages(c)
    \/ GetChat(c)

Handler(w) ==
    \/ \E to \in Parties \cup {Nobody} : HandleSendMessage(w, to)
    \/ \E to \in SUBSET Parties : SendServerMessage(w, to)
    \/ SendTo(w)
    \/ CallFails(w)

Next ==
    \/ \E c \in Conns : Client(c)
    \/ \E w \in Handlers : Handler(w)
    \/ CreateChat
    \/ Crash

\* The server misses the pings of a dead socket after pingTimeout.
Fairness == \A c \in Conns : WF_vars(HandleDisconnect(c))

Spec == Init /\ [][Next]_vars /\ Fairness

-----------------------------------------------------------------------------
(* Properties *)

Pending(m) == \E w \in Handlers : emitting[w] = m

\* Another message of the same millisecond is stored.
Tied(m) == \E n \in 1..count : n # m /\ createdAt[n] = createdAt[m]

\* A client that was first in the list when it began to read the history, and
\* has read it to its end, misses nothing that was sent to it: neither what was
\* there before, in whatever order it was stored, nor what came since and
\* shifted the pages under its reading.  The exceptions are the messages of
\* calls under way or cut off by a fault, and those that share their
\* millisecond, of which one may fall between two pages.
NoSilentGap ==
    \A c \in sure, m \in 1..count :
        socket[c] = "open" /\ user[c] \in due[m] /\ c \in walked
            => m \in known[c] \/ Pending(m) \/ Tied(m)

\* A user who is connected is reached sooner or later: the dead connections
\* before an open one in the list go, and it comes first unless it drops.
NotShadowed ==
    \A c \in Conns : socket[c] = "open" ~>
        \/ socket[c] # "open"
        \/ \E d \in Conns : First(d) /\ socket[d] = "open" /\ user[d] = user[c]
=============================================================================
