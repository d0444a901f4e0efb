----------------------------- MODULE GatewayProofs -----------------------------
(***************************************************************************)
(* Proofs about Gateway, for any parties, connections, handlers, messages  *)
(* and size of a page.  That nothing is missed is not inductive: while a   *)
(* client reads, NoGapSoFar says it of the messages it has passed.  The    *)
(* argument is about ranks: the rank of a message is the number of newer   *)
(* ones, a message that shares its millisecond with no other stands in the *)
(* page that has its rank, whatever order the database returns, and what   *)
(* is stored later never lowers a rank.  A client is sure of new messages  *)
(* because it stays first in the list, whoever comes and goes.             *)
(***************************************************************************)
EXTENDS Gateway, FiniteSetTheorems, TLAPS

\* The list and what is known of its order.
ListInv ==
    /\ \A c \in Conns : ahead[c] \subseteq listed
    /\ \A c \in sure : First(c) /\ socket[c] = "open"

\* The messages that come before m in every answer.
Newer(m) == {n \in 1..count : createdAt[n] > createdAt[m]}

Rank(m) == Cardinality(Newer(m))

\* The messages that the client of c has passed: all once it has read to the end.
Passed(c, m) == c \in walked \/ Rank(m) < offset[c]

NoGapSoFar ==
    \A c \in sure, m \in 1..count :
        Passed(c, m) /\ user[c] \in due[m] => m \in known[c] \/ Pending(m) \/ Tied(m)

GatewayInv == TypeOK /\ ListInv /\ NoGapSoFar

-----------------------------------------------------------------------------
(* The rank of a message. *)

LEMMA StoredFinite ==
    ASSUME TypeOK
    PROVE  /\ count \in Nat /\ 1..count \subseteq Messages
           /\ IsFiniteSet(1..count) /\ Cardinality(1..count) = count
           /\ \A m \in 1..count : createdAt[m] \in Nat
<1>1. count \in Nat /\ 1..count \subseteq Messages
  BY GatewayBoundsAssumption DEF TypeOK, Messages
<1>2. \A m \in 1..count : createdAt[m] \in Nat
  BY <1>1, GatewayBoundsAssumption DEF TypeOK
<1>3. QED
  BY <1>1, <1>2, FS_Interval

LEMMA RankType ==
    ASSUME TypeOK, NEW m \in 1..count
    PROVE  Rank(m) \in Nat /\ Rank(m) < count
<1>1. Newer(m) \in SUBSET (1..count) /\ m \notin Newer(m)
  BY StoredFinite DEF Newer
<1>2. Newer(m) # 1..count
  BY <1>1
<1>3. /\ IsFiniteSet(Newer(m)) /\ Cardinality(Newer(m)) <= count
      /\ Cardinality(Newer(m)) = count => 1..count = Newer(m)
  BY <1>1, StoredFinite, FS_Subset
<1>4. QED
  BY <1>2, <1>3, StoredFinite, FS_CardinalityType DEF Rank

\* While no message is stored, ranks and ties stay.
LEMMA HistorySame ==
    ASSUME UNCHANGED <<count, createdAt>>
    PROVE  \A m : Rank(m)' = Rank(m) /\ (Tied(m)' <=> Tied(m))
<1>1. \A m : Newer(m)' = Newer(m)
  BY DEF Newer
<1>2. \A m : Rank(m)' = Rank(m)
  BY <1>1 DEF Rank
<1>3. QED
  BY <1>2 DEF Tied

\* A message that is stored makes newer ones no fewer, whatever its millisecond.
LEMMA RankGrows ==
    ASSUME TypeOK, TypeOK', NEW to, CreateMessage(to), NEW m \in 1..count
    PROVE  Rank(m)' \in Nat /\ Rank(m) <= Rank(m)' /\ (Tied(m) => Tied(m)')
<1>1. count' = count + 1 /\ count \in Nat /\ count' \in Nat
  BY StoredFinite DEF CreateMessage
<1>2. \A n \in 1..count : n \in 1..count' /\ createdAt'[n] = createdAt[n]
  BY <1>1 DEF CreateMessage, TypeOK
<1>3. Newer(m) \subseteq Newer(m)' /\ Newer(m)' \subseteq 1..count'
  BY <1>2 DEF Newer
<1>4. IsFiniteSet(1..count') /\ IsFiniteSet(Newer(m)')
  <2>1. IsFiniteSet(1..count')
    BY <1>1, FS_Interval
  <2>2. QED
    BY <1>3, <2>1, FS_Subset
<1>5. Cardinality(Newer(m)) <= Cardinality(Newer(m)') /\ Cardinality(Newer(m)') \in Nat
  BY <1>3, <1>4, FS_Subset, FS_CardinalityType
<1>6. QED
  BY <1>2, <1>5 DEF Rank, Tied

\* Every answer names each stored message once.
LEMMA OrderedAll ==
    ASSUME TypeOK, NEW s \in Ordered
    PROVE  /\ s \in [1..count -> 1..count] /\ DOMAIN s = 1..count
           /\ \A i, k \in 1..count : s[i] = s[k] => i = k
           /\ \A n \in 1..count : \E i \in 1..count : s[i] = n
<1>1. s \in Injection(1..count, 1..count)
  BY StoredFinite DEF Ordered, SetToSeqs, Injection, IsInjective
<1>2. s \in Surjection(1..count, 1..count)
  BY <1>1, StoredFinite, FS_Injection
<1>3. s \in [1..count -> 1..count] /\ \A n \in 1..count : \E i \in 1..count : s[i] = n
  BY <1>2 DEF Surjection
<1>4. \A i, k \in 1..count : s[i] = s[k] => i = k
  BY <1>1, <1>3 DEF Injection, IsInjective
<1>5. QED
  BY <1>3, <1>4

\* A message with a millisecond of its own comes right after the newer ones.
LEMMA RankIsPosition ==
    ASSUME TypeOK, NEW s \in Ordered, NEW j \in 1..count, ~ Tied(s[j])
    PROVE  Rank(s[j]) = j - 1
<1> DEFINE g == [i \in 1..(j - 1) |-> s[i]]
<1>1. count \in Nat /\ DOMAIN s = 1..count
  BY OrderedAll, StoredFinite
<1>2. /\ \A i \in 1..count : s[i] \in 1..count /\ createdAt[s[i]] \in Nat
      /\ \A i, k \in 1..count : s[i] = s[k] => i = k
      /\ \A n \in 1..count : \E i \in 1..count : s[i] = n
  BY OrderedAll, StoredFinite
<1>3. \A i, k \in 1..count : i < k => createdAt[s[i]] >= createdAt[s[k]]
  BY <1>1 DEF Ordered
<1>4. ASSUME NEW i \in 1..(j - 1) PROVE s[i] \in Newer(s[j])
  <2>1. i \in 1..count /\ i < j
    BY <1>1
  <2>2. s[i] \in 1..count /\ s[i] # s[j] /\ createdAt[s[i]] >= createdAt[s[j]]
    BY <1>2, <1>3, <2>1
  <2>3. createdAt[s[i]] # createdAt[s[j]]
    BY <2>2 DEF Tied
  <2>4. QED
    BY <1>2, <2>1, <2>2, <2>3 DEF Newer
<1>5. ASSUME NEW n \in Newer(s[j]) PROVE \E i \in 1..(j - 1) : s[i] = n
  <2>1. n \in 1..count /\ createdAt[n] > createdAt[s[j]]
    BY DEF Newer
  <2>2. PICK i \in 1..count : s[i] = n
    BY <1>2, <2>1
  <2>3. i # j /\ ~ (j < i)
    BY <1>2, <1>3, <2>1, <2>2
  <2>4. i \in 1..(j - 1)
    BY <1>1, <2>3
  <2>5. QED
    BY <2>2, <2>4
<1>6. g \in Bijection(1..(j - 1), Newer(s[j]))
  <2>1. g \in [1..(j - 1) -> Newer(s[j])]
    BY <1>4
  <2>2. \A i, k \in 1..(j - 1) : g[i] = g[k] => i = k
    <3>1. \A i \in 1..(j - 1) : i \in 1..count /\ g[i] = s[i]
      BY <1>1
    <3>2. QED
      BY <1>2, <3>1
  <2>3. \A n \in Newer(s[j]) : \E i \in 1..(j - 1) : g[i] = n
    BY <1>5
  <2>4. QED
    BY <2>1, <2>2, <2>3 DEF Bijection, Injection, Surjection, IsInjective
<1> HIDE DEF g
<1>7. IsFiniteSet(1..(j - 1)) /\ Cardinality(1..(j - 1)) = j - 1
  BY FS_Interval
<1>8. Cardinality(Newer(s[j])) = j - 1
  BY <1>6, <1>7, FS_Bijection DEF ExistsBijection
<1>9. QED
  BY <1>8 DEF Rank

\* A page has every message whose rank is among those it asks for, but for ties.
LEMMA PageHasRanks ==
    ASSUME TypeOK, NEW s \in Ordered, NEW skip \in Nat, NEW take \in Nat, NEW m \in 1..count,
           ~ Tied(m), skip <= Rank(m), Rank(m) < skip + take
    PROVE  m \in Page(s, skip, take)
<1>1. PICK j \in 1..count : s[j] = m
  BY OrderedAll
<1>2. Rank(m) = j - 1
  BY <1>1, RankIsPosition
<1>3. j \in DOMAIN s \cap (skip + 1 .. skip + take)
  BY <1>2, OrderedAll, StoredFinite
<1>4. QED
  BY <1>1, <1>3 DEF Page

LEMMA PageStored ==
    ASSUME TypeOK, NEW s \in Ordered, NEW skip, NEW take
    PROVE  Page(s, skip, take) \subseteq Messages
  BY OrderedAll, StoredFinite DEF Page

-----------------------------------------------------------------------------
(* Connections. *)

LEMMA InitGateway == Init => GatewayInv
  BY GatewayBoundsAssumption DEF Init, GatewayInv, TypeOK, ListInv, NoGapSoFar, Live

LEMMA ConnectKeeps ==
    ASSUME GatewayInv, NEW c \in Conns, NEW u \in Watched, Connect(c, u)
    PROVE  GatewayInv'
<1> USE DEF GatewayInv
<1>1. c \notin listed /\ c \notin sure
  BY DEF TypeOK, ListInv, Connect, Live
<1>2. \A d \in Conns \ {c} : ahead'[d] = ahead[d] /\ socket'[d] = socket[d] /\ user'[d] = user[d]
  BY DEF TypeOK, Connect
<1>3. ahead'[c] \subseteq listed /\ listed' = listed \cup {c} /\ sure' = sure /\ sure \subseteq Conns
  BY DEF TypeOK, Connect, clientVars
<1>4. TypeOK'
  BY DEF TypeOK, Connect, Live, messageVars, clientVars
<1>5. ListInv'
  BY <1>1, <1>2, <1>3 DEF ListInv, First
<1>6. NoGapSoFar'
  <2>1. UNCHANGED <<count, createdAt, due, emitting, known, offset, walked>>
    BY DEF Connect, messageVars, clientVars
  <2>2. QED
    BY <1>1, <1>2, <1>3, <2>1, HistorySame DEF NoGapSoFar, Passed, Pending
<1>7. QED
  BY <1>4, <1>5, <1>6

LEMMA DropKeeps ==
    ASSUME GatewayInv, NEW c \in Conns, Drop(c)
    PROVE  GatewayInv'
<1> USE DEF GatewayInv
<1>1. sure' = sure \ {c} /\ sure \subseteq Conns
  BY DEF TypeOK, Drop, Forget
<1>2. \A d \in Conns \ {c} : /\ socket'[d] = socket[d] /\ known'[d] = known[d]
                             /\ offset'[d] = offset[d] /\ (d \in walked' <=> d \in walked)
  BY DEF TypeOK, Drop, Forget
<1>3. TypeOK'
  BY DEF TypeOK, Drop, Forget, Live, messageVars
<1>4. ListInv'
  BY <1>1, <1>2 DEF ListInv, First, Drop
<1>5. NoGapSoFar'
  <2>1. UNCHANGED <<count, createdAt, due, emitting, user>>
    BY DEF Drop, messageVars
  <2>2. QED
    BY <1>1, <1>2, <2>1, HistorySame DEF NoGapSoFar, Passed, Pending
<1>6. QED
  BY <1>3, <1>4, <1>5

\* Closing connections keeps the rest, when none of those that go is sure.
LEMMA CloseKeeps ==
    ASSUME GatewayInv, NEW gone \in SUBSET Conns, Close(gone), Unlist(gone),
           \A c \in gone : c \in listed,
           UNCHANGED <<count, createdAt>>,
           due' \in [Messages -> SUBSET Watched], emitting' \in [Handlers -> 0..MaxMessages],
           \A c \in sure \ gone, m \in 1..count :
               user[c] \in due'[m] => user[c] \in due[m] /\ (Pending(m) => Pending(m)')
    PROVE  GatewayInv'
<1> USE DEF GatewayInv
<1>1. sure' = sure \ gone /\ listed' = listed \ gone /\ sure \subseteq Conns
  BY DEF TypeOK, Close, Forget, Unlist
<1>2. \A d \in Conns \ gone : /\ socket'[d] = socket[d] /\ user'[d] = user[d] /\ known'[d] = known[d]
                              /\ offset'[d] = offset[d] /\ (d \in walked' <=> d \in walked)
                              /\ ahead'[d] = ahead[d] \ gone
  BY DEF TypeOK, Close, Forget, Unlist
<1>3. \A d \in gone : socket'[d] = "closed" /\ ahead'[d] = {}
  BY DEF TypeOK, Close, Unlist
<1>4. TypeOK'
  <2>1. /\ socket' \in [Conns -> {"open", "dead", "closed"}]
        /\ user' \in [Conns -> Watched \cup {Nobody}]
        /\ listed' \in SUBSET Conns
        /\ ahead' \in [Conns -> SUBSET Conns]
        /\ known' \in [Conns -> SUBSET Messages]
        /\ offset' \in [Conns -> Nat]
        /\ walked' \in SUBSET Conns
        /\ sure' \in SUBSET Conns
    BY DEF TypeOK, Close, Forget, Unlist
  <2>2. \A d \in Conns : d \in listed' <=> Live(d)'
    BY <1>1, <1>2, <1>3 DEF TypeOK, Live
  <2>3. QED
    BY <2>1, <2>2 DEF TypeOK
<1>5. ListInv'
  BY <1>1, <1>2, <1>3 DEF ListInv, First
<1>6. NoGapSoFar'
  <2> SUFFICES ASSUME NEW c \in sure', NEW m \in (1..count)', (Passed(c, m) /\ user[c] \in due[m])'
               PROVE  m \in known'[c] \/ Pending(m)' \/ Tied(m)
    BY HistorySame DEF NoGapSoFar
  <2>1. c \in sure \ gone /\ c \in Conns \ gone /\ m \in 1..count
    BY <1>1
  <2>2. Passed(c, m) /\ user[c] \in due[m]
    BY <1>2, <2>1, HistorySame DEF Passed
  <2>3. QED
    BY <1>2, <2>1, <2>2 DEF NoGapSoFar
<1>7. QED
  BY <1>4, <1>5, <1>6

LEMMA HandleDisconnectKeeps ==
    ASSUME GatewayInv, NEW c \in Conns, HandleDisconnect(c)
    PROVE  GatewayInv'
<1>1. /\ {c} \in SUBSET Conns /\ Close({c}) /\ Unlist({c}) /\ \A d \in {c} : d \in listed
      /\ UNCHANGED <<count, createdAt, due, emitting>>
  BY DEF GatewayInv, TypeOK, HandleDisconnect, Live, messageVars
<1>2. \A m \in 1..count : Pending(m) => Pending(m)'
  BY <1>1 DEF Pending
<1>3. TypeOK
  BY DEF GatewayInv
<1>4. QED
  BY <1>1, <1>2, <1>3, CloseKeeps DEF TypeOK

-----------------------------------------------------------------------------
(* Messages. *)

LEMMA CreateKeeps ==
    ASSUME GatewayInv, NEW to \in SUBSET Parties, CreateMessage(to),
           emitting' \in [Handlers -> 0..MaxMessages],
           to # {} => \E w \in Handlers : emitting'[w] = count + 1,
           \A m \in 1..count : Pending(m) => Pending(m)'
    PROVE  GatewayInv'
<1> USE DEF GatewayInv
<1>1. /\ count \in Nat /\ count' = count + 1 /\ count + 1 \in Messages
      /\ due'[count + 1] = to \cap Watched /\ \A m \in 1..count : due'[m] = due[m]
  BY GatewayBoundsAssumption DEF TypeOK, CreateMessage, Messages
<1>2. UNCHANGED <<connVars, clientVars>>
  BY DEF CreateMessage
<1>3. TypeOK'
  <2>1. createdAt' \in [Messages -> 0..MaxTime] /\ due' \in [Messages -> SUBSET Watched]
    <3>1. PICK t \in 1..MaxTime : createdAt' = [createdAt EXCEPT ![count + 1] = t]
      BY DEF CreateMessage
    <3>2. t \in 0..MaxTime /\ to \cap Watched \in SUBSET Watched
      BY GatewayBoundsAssumption
    <3>3. QED
      BY <3>1, <3>2 DEF CreateMessage, TypeOK
  <2>2. count' \in 0..MaxMessages
    BY <1>1, GatewayBoundsAssumption DEF CreateMessage, Messages
  <2>3. QED
    BY <1>2, <2>1, <2>2 DEF TypeOK, connVars, clientVars, Live
<1>4. ListInv'
  BY <1>2 DEF ListInv, First, connVars, clientVars
<1>5. NoGapSoFar'
  <2> SUFFICES ASSUME NEW c \in sure, NEW m \in 1..(count + 1),
                      Passed(c, m)', user[c] \in due'[m]
               PROVE  m \in known[c] \/ Pending(m)' \/ Tied(m)'
    BY <1>1, <1>2 DEF NoGapSoFar, clientVars, connVars
  <2>1. CASE m = count + 1
    <3>1. to # {}
      BY <1>1, <2>1
    <3>2. QED
      BY <2>1, <3>1 DEF Pending
  <2>2. CASE m \in 1..count
    <3>1. offset[c] \in Nat /\ offset' = offset /\ walked' = walked
      BY <1>2 DEF TypeOK, clientVars
    <3>2. /\ Rank(m) \in Nat /\ Rank(m)' \in Nat
          /\ Rank(m) <= Rank(m)' /\ (Tied(m) => Tied(m)')
      BY <1>3, <2>2, RankType, RankGrows
    <3>3. Passed(c, m)
      BY <3>1, <3>2 DEF Passed
    <3>4. m \in known[c] \/ Pending(m) \/ Tied(m)
      BY <1>1, <2>2, <3>3 DEF NoGapSoFar
    <3>5. QED
      BY <2>2, <3>2, <3>4
  <2>3. QED
    BY <1>1, <2>1, <2>2
<1>6. QED
  BY <1>3, <1>4, <1>5

LEMMA StoreAndEmit ==
    ASSUME GatewayInv, NEW w \in Handlers, NEW to \in SUBSET Parties, emitting[w] = 0,
           CreateMessage(to), emitting' = [emitting EXCEPT ![w] = count + 1]
    PROVE  GatewayInv'
<1>1. emitting' \in [Handlers -> 0..MaxMessages] /\ emitting'[w] = count + 1
  BY GatewayBoundsAssumption DEF GatewayInv, TypeOK, CreateMessage
<1>2. \A v \in Handlers : emitting[v] # 0 => emitting'[v] = emitting[v]
  BY DEF GatewayInv, TypeOK
<1>3. \A m \in 1..count : Pending(m) => Pending(m)'
  BY <1>2 DEF Pending, GatewayInv, TypeOK
<1>4. QED
  BY <1>1, <1>3, CreateKeeps

LEMMA CreateChatKeeps == ASSUME GatewayInv, CreateChat PROVE GatewayInv'
<1>1. CreateMessage({}) /\ emitting' = emitting /\ emitting \in [Handlers -> 0..MaxMessages]
  BY DEF CreateChat, GatewayInv, TypeOK
<1>2. \A m \in 1..count : Pending(m) => Pending(m)'
  BY <1>1 DEF Pending
<1>3. QED
  BY <1>1, <1>2, CreateKeeps

LEMMA SendToKeeps == ASSUME GatewayInv, NEW w \in Handlers, SendTo(w) PROVE GatewayInv'
<1> USE DEF GatewayInv
<1> DEFINE n == emitting[w]
<1>1. /\ n \in Messages
      /\ UNCHANGED <<connVars, messageVars, offset, walked, sure>>
      /\ emitting' = [emitting EXCEPT ![w] = 0]
  BY GatewayBoundsAssumption DEF SendTo, TypeOK, Messages
<1>2. \A c \in Conns : known'[c] = IF c \in Receivers(n) /\ socket[c] = "open"
                                   THEN known[c] \cup {n} ELSE known[c]
  BY DEF SendTo
<1>3. known' \in [Conns -> SUBSET Messages]
  BY <1>1 DEF SendTo, TypeOK
<1>4. TypeOK'
  BY <1>1, <1>3, GatewayBoundsAssumption DEF TypeOK, connVars, messageVars, Live
<1>5. ListInv'
  BY <1>1 DEF ListInv, First, connVars
<1>6. NoGapSoFar'
  <2> SUFFICES ASSUME NEW c \in sure, NEW m \in 1..count, Passed(c, m), user[c] \in due[m]
               PROVE  m \in known'[c] \/ Pending(m)' \/ Tied(m)
    BY <1>1, HistorySame DEF NoGapSoFar, Passed, connVars, messageVars
  <2>1. c \in Conns /\ (m \in known[c] \/ Pending(m) \/ Tied(m))
    BY DEF NoGapSoFar, TypeOK
  <2>2. CASE m = n
    BY <1>2, <2>2 DEF Receivers, ListInv, TypeOK
  <2>3. CASE m # n
    <3>1. Pending(m) => Pending(m)'
      BY <1>1, <2>3 DEF Pending, TypeOK
    <3>2. m \in known[c] => m \in known'[c]
      BY <1>2 DEF TypeOK
    <3>3. QED
      BY <3>1, <3>2 DEF NoGapSoFar
  <2>4. QED
    BY <2>2, <2>3
<1>7. QED
  BY <1>4, <1>5, <1>6

-----------------------------------------------------------------------------
(* The history. *)

LEMMA BeginWalkKeeps == ASSUME GatewayInv, NEW c \in Conns, BeginWalk(c) PROVE GatewayInv'
<1> USE DEF GatewayInv
<1>1. UNCHANGED <<connVars, messageVars, known>> /\ socket[c] = "open"
  BY DEF BeginWalk
<1>2. /\ sure' \subseteq sure \cup {c} /\ (c \in sure' => First(c))
      /\ walked' = walked \ {c} /\ offset'[c] = 0
      /\ \A d \in Conns \ {c} : offset'[d] = offset[d]
  BY DEF BeginWalk, TypeOK
<1>3. TypeOK'
  BY <1>1 DEF BeginWalk, TypeOK, connVars, messageVars, Live
<1>4. ListInv'
  BY <1>1, <1>2 DEF ListInv, First, connVars
<1>5. UNCHANGED <<count, createdAt>>
  BY <1>1 DEF messageVars
<1>6. NoGapSoFar'
  <2> SUFFICES ASSUME NEW d \in sure', NEW m \in 1..count, Passed(d, m)', user[d] \in due[m]
               PROVE  m \in known[d] \/ Pending(m) \/ Tied(m)
    <3>1. UNCHANGED <<count, due, emitting, known, user>>
      BY DEF BeginWalk, connVars, messageVars
    <3>2. QED
      BY <1>5, <3>1, HistorySame DEF NoGapSoFar, Pending
  <2>1. Rank(m)' = Rank(m) /\ Rank(m) \in Nat
    BY <1>5, RankType, HistorySame
  <2>2. d # c
    BY <1>2, <2>1 DEF Passed
  <2>3. d \in sure /\ d \in Conns \ {c} /\ Passed(d, m)
    BY <1>2, <2>1, <2>2 DEF Passed, TypeOK
  <2>4. QED
    BY <2>3 DEF NoGapSoFar
<1>7. QED
  BY <1>3, <1>4, <1>6

LEMMA GetChatMessagesKeeps ==
    ASSUME GatewayInv, NEW c \in Conns, GetChatMessages(c)
    PROVE  GatewayInv'
<1> USE DEF GatewayInv
<1>1. UNCHANGED <<connVars, messageVars, emitting, sure>> /\ UNCHANGED <<count, createdAt>>
  BY DEF GetChatMessages, messageVars
<1>2. /\ offset[c] \in Nat /\ count \in Nat /\ Limit \in Nat /\ sure \subseteq Conns
      /\ offset[c] + Limit \in Nat
  BY GatewayBoundsAssumption DEF TypeOK
<1>3. PICK s \in Ordered :
          known' = [known EXCEPT ![c] = @ \cup {m \in Page(s, offset[c], Limit) : user[c] \in due[m]}]
  BY DEF GetChatMessages, Tell
<1>4. Page(s, offset[c], Limit) \subseteq Messages
  BY PageStored
<1>5. /\ known' \in [Conns -> SUBSET Messages]
      /\ known'[c] = known[c] \cup {m \in Page(s, offset[c], Limit) : user[c] \in due[m]}
      /\ \A d \in Conns \ {c} : known'[d] = known[d]
  BY <1>3, <1>4 DEF TypeOK
<1>6. /\ \A d \in Conns \ {c} : offset'[d] = offset[d] /\ (d \in walked' <=> d \in walked)
      /\ \/ offset[c] + Limit >= count
         \/ offset'[c] = offset[c] + Limit /\ c \notin walked'
  BY <1>2 DEF GetChatMessages, TypeOK
<1>7. TypeOK'
  <2>1. \/ walked' = walked \cup {c} /\ offset' = [offset EXCEPT ![c] = 0]
        \/ walked' = walked /\ offset' = [offset EXCEPT ![c] = @ + Limit]
    BY DEF GetChatMessages
  <2>2. offset' \in [Conns -> Nat] /\ walked' \in SUBSET Conns
    BY <1>2, <2>1 DEF TypeOK
  <2>3. QED
    BY <1>1, <1>5, <2>2 DEF TypeOK, connVars, messageVars, Live
<1>8. ListInv'
  BY <1>1 DEF ListInv, First, connVars
<1>9. NoGapSoFar'
  <2> SUFFICES ASSUME NEW d \in sure, NEW m \in 1..count, Passed(d, m)', user[d] \in due[m]
               PROVE  m \in known'[d] \/ Pending(m) \/ Tied(m)
    BY <1>1, HistorySame DEF NoGapSoFar, Pending, connVars, messageVars
  <2>1. Rank(m)' = Rank(m) /\ Rank(m) \in Nat /\ Rank(m) < count
    BY <1>1, RankType, HistorySame
  <2>2. CASE d # c
    <3>1. d \in Conns \ {c} /\ Passed(d, m)
      BY <1>2, <1>6, <2>1, <2>2 DEF Passed
    <3>2. QED
      BY <1>5, <3>1 DEF NoGapSoFar
  <2>3. CASE d = c
    <3>1. Rank(m) < offset[c] + Limit
      BY <1>2, <1>6, <2>1, <2>3 DEF Passed
    <3>2. CASE Rank(m) < offset[c]
      BY <1>5, <2>3, <3>2 DEF NoGapSoFar, Passed
    <3>3. CASE offset[c] <= Rank(m)
      <4>1. m \in Page(s, offset[c], Limit) \/ Tied(m)
        BY <1>2, <3>1, <3>3, PageHasRanks
      <4>2. QED
        BY <1>5, <2>3, <4>1
    <3>4. QED
      BY <1>2, <2>1, <3>2, <3>3
  <2>4. QED
    BY <2>2, <2>3
<1>10. QED
  BY <1>7, <1>8, <1>9

LEMMA GetChatKeeps == ASSUME GatewayInv, NEW c \in Conns, GetChat(c) PROVE GatewayInv'
<1> USE DEF GatewayInv
<1>1. UNCHANGED <<connVars, messageVars, emitting, offset, walked, sure>>
  BY DEF GetChat
<1>2. known' \in [Conns -> SUBSET Messages] /\ \A d \in Conns : known[d] \subseteq known'[d]
  <2>1. PICK s \in Ordered :
            known' = [known EXCEPT ![c] = @ \cup {m \in Page(s, 0, Latest) : user[c] \in due[m]}]
    BY DEF GetChat, Tell
  <2>2. Page(s, 0, Latest) \subseteq Messages
    BY PageStored
  <2>3. QED
    BY <2>1, <2>2 DEF TypeOK
<1>3. TypeOK'
  BY <1>1, <1>2 DEF TypeOK, connVars, messageVars, Live
<1>4. ListInv'
  BY <1>1 DEF ListInv, First, connVars
<1>5. NoGapSoFar'
  <2>1. sure \subseteq Conns /\ UNCHANGED <<count, createdAt>>
    BY <1>1 DEF TypeOK, messageVars
  <2>2. QED
    BY <1>1, <1>2, <2>1, HistorySame DEF NoGapSoFar, Passed, Pending, connVars, messageVars
<1>6. QED
  BY <1>3, <1>4, <1>5

-----------------------------------------------------------------------------
(* Faults. *)

LEMMA CallFailsKeeps == ASSUME GatewayInv, NEW w \in Handlers, CallFails(w) PROVE GatewayInv'
<1> USE DEF GatewayInv
<1>1. UNCHANGED <<connVars, count, createdAt, clientVars>>
  BY GatewayBoundsAssumption DEF CallFails, TypeOK
<1>2. /\ \A m \in Messages : due'[m] = IF emitting[w] = m THEN {} ELSE due[m]
      /\ due' \in [Messages -> SUBSET Watched]
  BY DEF CallFails, CutOff, TypeOK
<1>3. emitting' \in [Handlers -> 0..MaxMessages]
  BY GatewayBoundsAssumption DEF CallFails, TypeOK
<1>4. TypeOK'
  BY <1>1, <1>2, <1>3 DEF TypeOK, connVars, clientVars, Live
<1>5. ListInv'
  BY <1>1 DEF ListInv, First, connVars, clientVars
<1>6. NoGapSoFar'
  <2> SUFFICES ASSUME NEW c \in sure, NEW m \in 1..count, Passed(c, m), user[c] \in due'[m]
               PROVE  m \in known[c] \/ Pending(m)' \/ Tied(m)
    BY <1>1, HistorySame DEF NoGapSoFar, Passed, connVars, clientVars
  <2>1. m \in Messages
    BY GatewayBoundsAssumption DEF TypeOK, Messages
  <2>2. emitting[w] # m /\ user[c] \in due[m]
    BY <1>2, <2>1
  <2>3. Pending(m) => Pending(m)'
    BY <2>2 DEF Pending, CallFails, TypeOK
  <2>4. QED
    BY <2>2, <2>3 DEF NoGapSoFar
<1>7. QED
  BY <1>4, <1>5, <1>6

LEMMA CrashKeeps == ASSUME GatewayInv, Crash PROVE GatewayInv'
<1> USE DEF GatewayInv
<1> DEFINE gone == {c \in Conns : Live(c)}
<1>1. gone = listed /\ sure \ gone = {}
  BY DEF TypeOK, ListInv, First
<1>2. Close(gone) /\ UNCHANGED <<count, createdAt>>
  BY GatewayBoundsAssumption DEF Crash, TypeOK
<1>3. Unlist(gone)
  BY <1>1 DEF Crash, Unlist
<1>4. due' \in [Messages -> SUBSET Watched] /\ emitting' \in [Handlers -> 0..MaxMessages]
  BY GatewayBoundsAssumption DEF Crash, CutOff, TypeOK
<1> HIDE DEF gone
<1>5. gone \in SUBSET Conns
  BY DEF gone
<1>6. QED
  BY <1>1, <1>2, <1>3, <1>4, <1>5, CloseKeeps

-----------------------------------------------------------------------------
(* The theorems. *)

LEMMA GatewayStep == GatewayInv /\ [Next]_vars => GatewayInv'
<1> SUFFICES ASSUME GatewayInv, [Next]_vars PROVE GatewayInv'
  OBVIOUS
<1>1. ASSUME NEW c \in Conns, Client(c) PROVE GatewayInv'
  BY <1>1, ConnectKeeps, DropKeeps, HandleDisconnectKeeps, BeginWalkKeeps, GetChatMessagesKeeps,
     GetChatKeeps DEF Client
<1>2. ASSUME NEW w \in Handlers, Handler(w) PROVE GatewayInv'
  <2>1. CASE \E to \in Parties \cup {Nobody} : HandleSendMessage(w, to)
    <3>1. PICK to \in Parties \cup {Nobody} : HandleSendMessage(w, to)
      BY <2>1
    <3>2. {to} \ {Nobody} \in SUBSET Parties
      OBVIOUS
    <3>3. QED
      BY <3>1, <3>2, StoreAndEmit DEF HandleSendMessage
  <2>2. CASE \E to \in SUBSET Parties : SendServerMessage(w, to)
    BY <2>2, StoreAndEmit DEF SendServerMessage
  <2>3. QED
    BY <1>2, <2>1, <2>2, SendToKeeps, CallFailsKeeps DEF Handler
<1>3. CASE UNCHANGED vars
  <2>1. TypeOK' /\ ListInv'
    BY <1>3 DEF vars, connVars, messageVars, clientVars, GatewayInv, TypeOK, ListInv, First, Live
  <2>2. NoGapSoFar'
    BY <1>3, HistorySame
    DEF vars, connVars, messageVars, clientVars, GatewayInv, NoGapSoFar, Passed, Pending
  <2>3. QED
    BY <2>1, <2>2 DEF GatewayInv
<1>4. QED
  BY <1>1, <1>2, <1>3, CreateChatKeeps, CrashKeeps DEF Next

\* The inductive invariant: a client that was first in the list stays first,
\* and of the messages that its reading has passed it misses none but ties.
THEOREM GatewaySafety == Spec => []GatewayInv
  BY InitGateway, GatewayStep, PTL DEF Spec

\* Every variable keeps its type, and the list is at all times that of the
\* sockets the server takes for open.
THEOREM GatewayTypes == Spec => []TypeOK
<1>1. GatewayInv => TypeOK
  BY DEF GatewayInv
<1>2. QED
  BY <1>1, GatewaySafety, PTL

\* For any number of messages, in whatever order of creation, any size of a
\* page and any handlers at once, a client that was first in the list when it
\* began to read the history to its end misses no message that has a
\* millisecond of its own and whose call is neither under way nor cut off.
THEOREM NothingMissed == Spec => []NoSilentGap
<1>1. GatewayInv => NoSilentGap
  BY DEF GatewayInv, NoGapSoFar, NoSilentGap, Passed
<1>2. QED
  BY <1>1, GatewaySafety, PTL
=============================================================================
