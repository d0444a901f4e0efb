------------------------------- MODULE Listings -------------------------------
(***************************************************************************)
(* The paginated listings.  Every findAllAndCount reads one page with skip *)
(* and take, then counts the rows of the same condition in a second query; *)
(* a client walks through a listing by adding the limit to the offset      *)
(* until the total is reached.  The rows change all the while.             *)
(*                                                                         *)
(* A listing is described by what its method asks the database for and by  *)
(* what the operations on its rows can do to them; one walk through one of *)
(* them is followed.  The history of a chat's messages is in Gateway.  The *)
(* images added to a page (LinksOf of Attachments) and the shape of an     *)
(* answer are left out.                                                    *)
(***************************************************************************)
EXTENDS Integers, SequencesExt

CONSTANTS
    Rows,     \* places for rows of the table behind the listing
    Limit,    \* limit of the query string, 60 by default
    MaxKey    \* bound on what a column that is sorted by holds

ASSUME ListingsAssumption ==
    /\ IsFiniteSet(Rows)
    /\ Limit \in Nat \ {0}
    /\ MaxKey \in Nat

Keys == 0..MaxKey

(***************************************************************************)
(* The listings: searched, the condition depends on a column that a row    *)
(* does not share with all others (its status, category, type, role, or    *)
(* the search of a provider's marks); sorts, the fields an orderBy may     *)
(* name, for one that starts with createdAt has two keys when the field is *)
(* another, and Prisma rejects it; changes, the columns an operation may   *)
(* write afterwards; erased, whether a row is ever deleted, if only by the *)
(* cascade from its user or request.                                       *)
(***************************************************************************)
HorecaRequests   == [searched |-> TRUE, sorts |-> {"createdAt"},
                     changes |-> {"state"}, erased |-> FALSE]
ProviderRequests == [searched |-> TRUE, sorts |-> {"createdAt", "other"},
                     changes |-> {"state", "other"}, erased |-> TRUE]
IncomeRequests   == [searched |-> TRUE, sorts |-> {"createdAt", "other"},
                     changes |-> {"state", "other"}, erased |-> TRUE]
Products         == [searched |-> TRUE, sorts |-> {"createdAt", "other"},
                     changes |-> {"state", "other"}, erased |-> TRUE]
Templates        == [searched |-> FALSE, sorts |-> {"createdAt"},
                     changes |-> {}, erased |-> TRUE]
Favourites       == [searched |-> FALSE, sorts |-> {"createdAt"},
                     changes |-> {}, erased |-> TRUE]
SupportRequests  == [searched |-> TRUE, sorts |-> {"createdAt", "other"},
                     changes |-> {"state", "other"}, erased |-> TRUE]
Chats            == [searched |-> TRUE, sorts |-> {"createdAt", "other"},
                     changes |-> {}, erased |-> FALSE]
Users            == [searched |-> TRUE, sorts |-> {"createdAt", "other"},
                     changes |-> {"other"}, erased |-> TRUE]

Listing == {HorecaRequests, ProviderRequests, IncomeRequests, Products, Templates,
            Favourites, SupportRequests, Chats, Users}

VARIABLES
    clock,
    rows,     \* the table
    listing,  \* the listing that is walked through
    sort,     \* the field and the order of the query string
    walk,     \* where the client is, and the page that waits for its total
    shown,    \* shown[r]: on how many pages the row was (1 and 2 are enough)
    kept,     \* the places held ever since the walk began (history)
    advanced, \* those of them that may have come nearer to the beginning (history)
    delayed   \* those of them that may have got farther from it (history)

vars == <<clock, rows, listing, sort, walk, shown, kept, advanced, delayed>>

\* A row is what the walk tells of it: the value of the column it sorts by,
\* and whether the row is among the caller's and meets the search.
Row == [key : Keys, state : {"in", "out"}]
NoRow == [key |-> 0, state |-> "none"]

\* A place in the listing is a row with the key it has.
Places(table) == {<<r, table[r].key>> : r \in {x \in Rows : table[x].state = "in"}}

Sooner(p, q) == IF sort.order = "asc" THEN p[2] < q[2] ELSE p[2] > q[2]

\* The database orders by the key alone: rows that share it come as they like.
Ordered(table) ==
    {s \in SetToSeqs(Places(table)) : \A i, j \in DOMAIN s : i < j => ~Sooner(s[j], s[i])}

\* take is one too many: the row at the end of a page is on the next one too.
PageOverlaps(s, offset) ==
    {s[i][1] : i \in DOMAIN s \cap (offset + 1 .. offset + Limit + 1)}

\* skip and take.
Page(s, offset) ==
    {s[i][1] : i \in DOMAIN s \cap (offset + 1 .. offset + Limit)}

TypeOK ==
    /\ clock \in Keys
    /\ rows \in [Rows -> Row \cup {NoRow}]
    /\ listing \in Listing
    /\ sort \in [field : listing.sorts, order : {"asc", "desc"}]
    /\ walk \in [stage : {"before", "page", "count", "over"}, offset : Nat]
    /\ shown \in [Rows -> 0..2]
    /\ kept \subseteq Places(rows)
    /\ advanced \cup delayed \subseteq kept

\* A sort that the query of the listing does not take.
SortsOfAny(l) == [field : {"createdAt", "other"}, order : {"asc", "desc"}]

\* The sort of the query string, createdAt|desc when there is none.
Sorts(l) == [field : l.sorts, order : {"asc", "desc"}]

Init ==
    /\ clock = 0
    /\ rows = [r \in Rows |-> NoRow]
    /\ listing \in Listing
    /\ sort \in Sorts(listing)
    /\ walk = [stage |-> "before", offset |-> 0]
    /\ shown = [r \in Rows |-> 0]
    /\ kept = {} /\ advanced = {} /\ delayed = {}

-----------------------------------------------------------------------------
(* The operations on the rows *)

\* Whether q may come before p: rows of one key come as they like.
NotBehind(q, p) == q # p /\ ~Sooner(p, q)
Tied(q, p) == q # p /\ q[2] = p[2]

\* What a write of the table does to the places that were kept so far.
Write(table) ==
    LET left == Places(rows) \ Places(table)
        taken == Places(table) \ Places(rows)
        stay == kept \ left
    IN  /\ walk.stage # "over"
        /\ rows' = table
        /\ kept' = stay
        /\ advanced' = {p \in stay : \/ p \in advanced
                                     \/ \E q \in left : NotBehind(q, p)
                                     \/ \E q \in taken : Tied(q, p)}
        /\ delayed' = {p \in stay : p \in delayed \/ \E q \in taken : NotBehind(q, p)}
        /\ UNCHANGED <<clock, listing, sort, walk, shown>>

Insert(r, key, state) ==
    /\ rows[r] = NoRow /\ shown[r] = 0
    /\ sort.field = "createdAt" => key = clock
    /\ ~listing.searched => state = "in"
    /\ Write([rows EXCEPT ![r] = [key |-> key, state |-> state]])

Change(r, key, state) ==
    /\ rows[r] \notin {NoRow, [key |-> key, state |-> state]}
    /\ key # rows[r].key => sort.field \in listing.changes
    /\ state # rows[r].state => "state" \in listing.changes
    /\ Write([rows EXCEPT ![r] = [key |-> key, state |-> state]])

Erase(r) ==
    /\ listing.erased
    /\ rows[r] # NoRow
    /\ Write([rows EXCEPT ![r] = NoRow])

Tick ==
    /\ sort.field = "createdAt" /\ clock < MaxKey
    /\ clock' = clock + 1
    /\ UNCHANGED <<rows, listing, sort, walk, shown, kept, advanced, delayed>>

-----------------------------------------------------------------------------
(* The walk *)

\* The first request: no offset is the offset 0.
Begin ==
    /\ walk.stage = "before"
    /\ walk' = [stage |-> "page", offset |-> 0]
    /\ kept' = Places(rows)
    /\ advanced' = {p \in kept' : \E q \in kept' : Tied(q, p)}
    /\ delayed' = advanced'
    /\ UNCHANGED <<clock, rows, listing, sort, shown>>

\* findMany answers.
ReadPage ==
    /\ walk.stage = "page"
    /\ \E s \in Ordered(rows) :
           shown' = [r \in Rows |->
                        IF r \in Page(s, walk.offset) /\ shown[r] < 2 THEN shown[r] + 1 ELSE shown[r]]
    /\ walk' = [walk EXCEPT !.stage = "count"]
    /\ UNCHANGED <<clock, rows, listing, sort, kept, advanced, delayed>>

\* What the client does with the total: it asks for the next page, or is done.
Answered(total) ==
    walk' = [stage |-> IF walk.offset + Limit < total THEN "page" ELSE "over",
             offset |-> walk.offset + Limit]

\* The total leaves out the rows that came since the walk began.
ReadStaleCount ==
    /\ walk.stage = "count"
    /\ Answered(Cardinality(kept))
    /\ UNCHANGED <<clock, rows, listing, sort, shown, kept, advanced, delayed>>

\* count answers, and with it the call.
ReadCount ==
    /\ walk.stage = "count"
    /\ Answered(Cardinality(Places(rows)))
    /\ UNCHANGED <<clock, rows, listing, sort, shown, kept, advanced, delayed>>

Next ==
    \/ \E r \in Rows :
           \/ \E key \in Keys, state \in {"in", "out"} :
                  \/ Insert(r, key, state)
                  \/ Change(r, key, state)
           \/ Erase(r)
    \/ Begin
    \/ ReadPage
    \/ ReadCount
    \/ Tick

Spec == Init /\ [][Next]_vars

-----------------------------------------------------------------------------
(* Properties *)

\* A walk that is over has shown every row that kept its place all along,
\* unless a place before it was left meanwhile (the later rows move up, to a
\* page already read) or its key was not its alone.  A row that came meanwhile
\* does no harm, even after the last page was read: the total counts it.
NothingSkipped ==
    walk.stage = "over" => \A p \in kept \ advanced : shown[p[1]] > 0

\* A row that kept its place is shown twice only when a place before it was
\* taken meanwhile, or its key was not its alone.
NothingTwice ==
    \A p \in kept \ delayed : shown[p[1]] < 2
=============================================================================
