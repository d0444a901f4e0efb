----------------------------- MODULE MatchingProofs -----------------------------
(***************************************************************************)
(* Proofs about Matching.  The invariant says of every set of rows that is *)
(* or may become the view which pairs it has right: those whose provider   *)
(* and request have no refresh to come and did not change without one.     *)
(***************************************************************************)
EXTENDS Matching, FiniteSetTheorems, TLAPS

\* The rows have, of every match outside "late", the row of now and no other.
Fits(rows, late) ==
    \A p \in Providers \ late, r \in Requests \ late :
        Matches(p, r) =>
            \A row \in Row :
                row.provider = p /\ row.request = r => (row \in rows <=> row = RowOf(p, r))

Late == waiting \cup (missed \ covered)

MatchInv ==
    /\ TypeOK
    /\ Fits(view, Unsettled)
    /\ running # NoRefresh => Fits(running.rows, Late)

-----------------------------------------------------------------------------
(* Rows. *)

LEMMA RowOfType ==
    ASSUME TypeOK, NEW p \in Providers, NEW r \in Requests, Matches(p, r)
    PROVE  RowOf(p, r) \in Row
<1>1. profile[p] \cap wants[r] \subseteq Categories
  BY DEF TypeOK
<1>2. IsFiniteSet(profile[p] \cap wants[r])
  BY <1>1, CategoriesAssumption, FS_Subset
<1>3. Cover(p, r) \in Nat /\ Cover(p, r) # 0
  BY <1>2, FS_CardinalityType, FS_EmptySet DEF Cover, Matches
<1>4. QED
  BY <1>3 DEF RowOf, Row

LEMMA RowsType == TypeOK => Rows \in SUBSET Row
BY RowOfType DEF Rows

\* A snapshot has every pair right.
LEMMA SnapshotFits == ASSUME TypeOK, NEW late PROVE Fits(Rows, late)
<1> SUFFICES ASSUME NEW p \in Providers, NEW r \in Requests, Matches(p, r), NEW row \in Row,
                    row.provider = p, row.request = r
             PROVE  row \in Rows <=> row = RowOf(p, r)
  BY DEF Fits
<1>1. RowOf(p, r) \in Rows
  <2>1. <<p, r>> \in {n \in Providers \X Requests : Matches(n[1], n[2])}
    OBVIOUS
  <2>2. QED
    BY <2>1 DEF Rows
<1>2. ASSUME row \in Rows PROVE row = RowOf(p, r)
  <2>1. PICK m \in Providers \X Requests : row = RowOf(m[1], m[2])
    BY <1>2 DEF Rows
  <2>2. m[1] = p /\ m[2] = r
    BY <2>1 DEF RowOf
  <2>3. QED
    BY <2>1, <2>2
<1>3. QED
  BY <1>1, <1>2

\* Rows stay right for the pairs whose categories a step leaves alone.
LEMMA KeepsFit ==
    ASSUME NEW rows, NEW late, NEW lateNext, late \subseteq lateNext, Fits(rows, late),
           \A p \in Providers \ lateNext : profile'[p] \in {profile[p], {}},
           \A r \in Requests \ lateNext : wants'[r] \in {wants[r], {}}
    PROVE  \A p \in Providers \ lateNext, r \in Requests \ lateNext :
             Matches(p, r)' =>
                 \A row \in Row :
                     row.provider = p /\ row.request = r => (row \in rows <=> row = RowOf(p, r)')
<1> SUFFICES ASSUME NEW p \in Providers \ lateNext, NEW r \in Requests \ lateNext,
                    Matches(p, r)'
             PROVE  \A row \in Row :
                     row.provider = p /\ row.request = r => (row \in rows <=> row = RowOf(p, r)')
  OBVIOUS
<1>1. profile'[p] = profile[p] /\ wants'[r] = wants[r]
  BY DEF Matches
<1>2. Matches(p, r) /\ RowOf(p, r)' = RowOf(p, r)
  BY <1>1 DEF Matches, RowOf, Cover
<1>3. QED
  BY <1>2 DEF Fits

-----------------------------------------------------------------------------
(* Types. *)

LEMMA InitTypes == Init => TypeOK
BY MatchingBoundsAssumption DEF Init, TypeOK, NoMark, Mark, NoRefresh, Refresh

LEMMA ProviderTypes ==
    ASSUME TypeOK, NEW p \in Providers, ProviderStep(p) PROVE TypeOK'
<1>1. ASSUME NEW categories \in SUBSET Categories \ {{}}, Register(p, categories)
      PROVE  TypeOK'
  BY <1>1 DEF Register, TypeOK, markVars, Causes
<1>2. ASSUME NEW categories \in SUBSET Categories \ {{}}, UpdateProfile(p, categories)
      PROVE  TypeOK'
  BY <1>2, MatchingBoundsAssumption DEF UpdateProfile, Change, TypeOK, markVars, Causes
<1>3. ASSUME DeleteProvider(p) PROVE TypeOK'
  BY <1>3, MatchingBoundsAssumption
  DEF DeleteProvider, Change, TypeOK, refreshVars, NoMark, Mark
<1>4. ASSUME NEW r \in Requests, Offer(p, r) PROVE TypeOK'
  BY <1>4, MatchingBoundsAssumption DEF Offer, Change, TypeOK, markVars, refreshVars
<1>5. ASSUME NEW r \in Requests, NEW change \in {"hide", "show", "view"}, BeginMark(p, r, change)
      PROVE  TypeOK'
  <2> DEFINE found == mark[r].provider = p
             call == [provider |-> p, request |-> r, change |-> change, found |-> found]
  <2>1. found \in BOOLEAN
    OBVIOUS
  <2>2. marking' = marking \cup {call}
    BY <1>5 DEF BeginMark
  <2> HIDE DEF found
  <2>3. call \in MarkCall
    BY <1>5, <2>1 DEF MarkCall
  <2>4. marking' \subseteq MarkCall
    BY <2>2, <2>3 DEF TypeOK
  <2>5. QED
    BY <1>5, <2>4, MatchingBoundsAssumption DEF BeginMark, Change, TypeOK, tableVars, refreshVars
<1>6. QED
  BY <1>1, <1>2, <1>3, <1>4, <1>5 DEF ProviderStep, StatusCall

LEMMA RequestTypes ==
    ASSUME TypeOK, NEW r \in Requests, RequestStep(r) PROVE TypeOK'
<1>1. ASSUME NEW categories \in SUBSET Categories \ {{}},
             CreateRequest(r, categories) \/ CreateRequestHalf(r, categories)
      PROVE  TypeOK'
  BY <1>1 DEF CreateRequest, CreateRequestHalf, Publish, TypeOK, markVars, Causes
<1>2. ASSUME DeleteRequest(r) PROVE TypeOK'
  BY <1>2, MatchingBoundsAssumption
  DEF DeleteRequest, Change, TypeOK, refreshVars, NoMark, Mark
<1>3. ASSUME ChangeStatus(r) \/ Expire(r) PROVE TypeOK'
  BY <1>3, MatchingBoundsAssumption
  DEF ChangeStatus, Expire, Change, TypeOK, markVars, refreshVars
<1>4. QED
  BY <1>1, <1>2, <1>3 DEF RequestStep

LEMMA MarkTypes ==
    ASSUME TypeOK, NEW c \in marking, MarkStep(c) PROVE TypeOK'
<1>1. c \in MarkCall
  BY DEF TypeOK
<1>2. \A before \in BOOLEAN : Hidden(c.change, before) \in BOOLEAN
  BY <1>1 DEF Hidden, MarkCall
<1>3. ASSUME UpdateMark(c) PROVE TypeOK'
  BY <1>1, <1>2, <1>3 DEF UpdateMark, TypeOK, tableVars, refreshVars, MarkCall
<1>4. ASSUME InsertMark(c) PROVE TypeOK'
  BY <1>1, <1>2, <1>4 DEF InsertMark, TypeOK, tableVars, refreshVars, MarkCall, Mark
<1>5. ASSUME MarkRejected(c) PROVE TypeOK'
  BY <1>5 DEF MarkRejected, TypeOK, tableVars, refreshVars
<1>6. QED
  BY <1>3, <1>4, <1>5 DEF MarkStep

LEMMA RefreshTypes == ASSUME TypeOK, RefreshStep PROVE TypeOK'
<1>1. ASSUME NEW c \in Causes, StartRefresh(c) PROVE TypeOK'
  BY <1>1, RowsType DEF StartRefresh, Refresh, TypeOK, tableVars, markVars
<1>2. ASSUME NEW c \in Causes, RefreshLost(c) PROVE TypeOK'
  BY <1>2, MatchingBoundsAssumption DEF RefreshLost, TypeOK, tableVars, markVars
<1>3. ASSUME EndRefresh PROVE TypeOK'
  BY <1>3 DEF EndRefresh, TypeOK, tableVars, markVars, NoRefresh, Refresh
<1>4. ASSUME RefreshFails PROVE TypeOK'
  <2>1. running.cause \in Causes
    BY <1>4 DEF RefreshFails, TypeOK
  <2>2. QED
    BY <1>4, <2>1, MatchingBoundsAssumption
    DEF RefreshFails, TypeOK, tableVars, markVars, NoRefresh, Refresh
<1>5. QED
  BY <1>1, <1>2, <1>3, <1>4 DEF RefreshStep

-----------------------------------------------------------------------------
(* The invariant. *)

\* What a step on the tables does: the rows stay, and what it changes other
\* than by deletion is late.
Undisturbed ==
    /\ view' = view /\ running' = running
    /\ waiting \subseteq waiting' /\ missed \subseteq missed' /\ Late \subseteq Late'
    /\ \A p \in Providers \ Late' : profile'[p] \in {profile[p], {}}
    /\ \A r \in Requests \ Late' : wants'[r] \in {wants[r], {}}

LEMMA ProviderUndisturbed ==
    ASSUME TypeOK, NEW p \in Providers, ProviderStep(p) PROVE Undisturbed
<1>1. ASSUME NEW categories \in SUBSET Categories \ {{}}, Register(p, categories)
      PROVE  Undisturbed
  BY <1>1 DEF Register, Undisturbed, Late, TypeOK
<1>2. ASSUME NEW categories \in SUBSET Categories \ {{}}, UpdateProfile(p, categories)
      PROVE  Undisturbed
  BY <1>2 DEF UpdateProfile, Undisturbed, Late, TypeOK
<1>3. ASSUME DeleteProvider(p) PROVE Undisturbed
  BY <1>3 DEF DeleteProvider, Undisturbed, Late, TypeOK, refreshVars
<1>4. ASSUME NEW r \in Requests, Offer(p, r) PROVE Undisturbed
  BY <1>4 DEF Offer, Undisturbed, Late, refreshVars
<1>5. ASSUME NEW r \in Requests, NEW change \in {"hide", "show", "view"}, BeginMark(p, r, change)
      PROVE  Undisturbed
  BY <1>5 DEF BeginMark, Undisturbed, Late, tableVars, refreshVars
<1>6. QED
  BY <1>1, <1>2, <1>3, <1>4, <1>5 DEF ProviderStep, StatusCall

LEMMA RequestUndisturbed ==
    ASSUME MatchInv, NEW r \in Requests, RequestStep(r) PROVE Undisturbed
<1>1. ASSUME NEW categories \in SUBSET Categories \ {{}}, CreateRequest(r, categories)
      PROVE  Undisturbed
  BY <1>1 DEF CreateRequest, Publish, Undisturbed, Late, MatchInv, TypeOK
<1>2. ASSUME NEW categories \in SUBSET Categories \ {{}}, CreateRequestHalf(r, categories)
      PROVE  Undisturbed
  BY <1>2 DEF CreateRequestHalf, Publish, Undisturbed, Late, MatchInv, TypeOK
<1>3. ASSUME DeleteRequest(r) PROVE Undisturbed
  BY <1>3 DEF DeleteRequest, Undisturbed, Late, MatchInv, TypeOK, refreshVars
<1>4. ASSUME ChangeStatus(r) \/ Expire(r) PROVE Undisturbed
  BY <1>4 DEF ChangeStatus, Expire, Undisturbed, Late, refreshVars
<1>5. QED
  BY <1>1, <1>2, <1>3, <1>4 DEF RequestStep

LEMMA MarkUndisturbed ==
    ASSUME NEW c \in marking, MarkStep(c) PROVE Undisturbed
BY DEF MarkStep, UpdateMark, InsertMark, MarkRejected, Undisturbed, Late, tableVars, refreshVars

LEMMA UndisturbedKeeps == ASSUME MatchInv, TypeOK', Undisturbed PROVE MatchInv'
<1>1. Fits(view, Unsettled)'
  <2>1. Unsettled \subseteq Unsettled' /\ Late' \subseteq Unsettled'
    BY DEF Undisturbed, Unsettled, Late
  <2>2. /\ \A p \in Providers \ Unsettled' : profile'[p] \in {profile[p], {}}
        /\ \A r \in Requests \ Unsettled' : wants'[r] \in {wants[r], {}}
    BY <2>1 DEF Undisturbed
  <2>3. view' = view /\ Fits(view, Unsettled)
    BY DEF Undisturbed, MatchInv
  <2> DEFINE late == Unsettled
             lateNext == Unsettled'
  <2>4. late \subseteq lateNext /\ Fits(view, late)
    BY <2>1, <2>3
  <2> HIDE DEF late, lateNext
  <2>5. \A p \in Providers \ lateNext, r \in Requests \ lateNext :
          Matches(p, r)' =>
              \A row \in Row :
                  row.provider = p /\ row.request = r => (row \in view <=> row = RowOf(p, r)')
    BY <2>2, <2>4, KeepsFit DEF lateNext
  <2>6. QED
    BY <2>3, <2>5 DEF Fits, lateNext
<1>2. ASSUME running' # NoRefresh PROVE Fits(running.rows, Late)'
  <2>1. Fits(running.rows, Late) /\ running' = running
    BY <1>2 DEF MatchInv, Undisturbed
  <2>2. QED
    BY <2>1, KeepsFit DEF Undisturbed, Fits
<1>3. QED
  BY <1>1, <1>2 DEF MatchInv

LEMMA RefreshKeeps == ASSUME MatchInv, RefreshStep PROVE MatchInv'
<1> USE DEF MatchInv
<1>1. TypeOK'
  BY RefreshTypes
<1>2. ASSUME NEW c \in Causes, StartRefresh(c) PROVE MatchInv'
  <2>1. running' = Refresh(c, Rows) /\ view' = view /\ Unsettled \ {Nobody} \subseteq Unsettled'
    BY <1>2 DEF StartRefresh, Refresh, NoRefresh, Unsettled
  <2>2. profile' = profile /\ wants' = wants
    BY <1>2 DEF StartRefresh, tableVars
  <2>3. Fits(view, Unsettled)'
    BY <2>1, <2>2, CausesAssumption DEF Fits, Matches, RowOf, Cover
  <2>4. Fits(running.rows, Late)'
    <3>1. running'.rows = Rows
      BY <2>1 DEF Refresh
    <3>2. Fits(Rows, Late')
      BY SnapshotFits
    <3>3. QED
      BY <2>2, <3>1, <3>2 DEF Fits, Matches, RowOf, Cover
  <2>5. QED
    BY <1>1, <2>3, <2>4
<1>3. ASSUME NEW c \in Causes, RefreshLost(c) PROVE MatchInv'
  <2>1. profile' = profile /\ wants' = wants /\ view' = view /\ running' = running
    BY <1>3 DEF RefreshLost, tableVars
  <2>2. Unsettled \subseteq Unsettled'
    BY <1>3 DEF RefreshLost, Unsettled
  <2>3. QED
    <3>1. Fits(view, Unsettled)'
      BY <2>1, <2>2 DEF Fits, Matches, RowOf, Cover
    <3>2. Late \subseteq Late'
      BY <1>3 DEF RefreshLost, Late
    <3>3. QED
      BY <1>1, <2>1, <3>1, <3>2 DEF Fits, Matches, RowOf, Cover
<1>4. ASSUME EndRefresh PROVE MatchInv'
  <2>1. profile' = profile /\ wants' = wants /\ view' = running.rows /\ running' = NoRefresh
    BY <1>4 DEF EndRefresh, tableVars
  <2>2. Late \subseteq Unsettled'
    BY <1>4 DEF EndRefresh, Unsettled, Late
  <2>3. Fits(running.rows, Late)
    BY <1>4 DEF EndRefresh
  <2>4. QED
    BY <1>1, <2>1, <2>2, <2>3 DEF Fits, Matches, RowOf, Cover
<1>5. ASSUME RefreshFails PROVE MatchInv'
  <2>1. profile' = profile /\ wants' = wants /\ view' = view /\ running' = NoRefresh
    BY <1>5 DEF RefreshFails, tableVars
  <2>2. Unsettled \subseteq Unsettled'
    BY <1>5 DEF RefreshFails, Unsettled
  <2>3. QED
    BY <1>1, <2>1, <2>2 DEF Fits, Matches, RowOf, Cover
<1>6. QED
  BY <1>2, <1>3, <1>4, <1>5 DEF RefreshStep

\* The invariant of the view, for any providers, requests, categories, refreshes
\* and losses.
THEOREM MatchSafety == Spec => []MatchInv
<1>1. Init => MatchInv
  BY InitTypes DEF Init, MatchInv, Fits, Matches
<1>2. MatchInv /\ [Next]_vars => MatchInv'
  <2> SUFFICES ASSUME MatchInv, [Next]_vars PROVE MatchInv'
    OBVIOUS
  <2>1. ASSUME NEW p \in Providers, ProviderStep(p) PROVE MatchInv'
    BY <2>1, ProviderTypes, ProviderUndisturbed, UndisturbedKeeps DEF MatchInv
  <2>2. ASSUME NEW r \in Requests, RequestStep(r) PROVE MatchInv'
    BY <2>2, RequestTypes, RequestUndisturbed, UndisturbedKeeps DEF MatchInv
  <2>3. ASSUME NEW c \in marking, MarkStep(c) PROVE MatchInv'
    BY <2>3, MarkTypes, MarkUndisturbed, UndisturbedKeeps DEF MatchInv
  <2>4. CASE RefreshStep
    BY <2>4, RefreshKeeps
  <2>5. CASE UNCHANGED vars
    <3>1. TypeOK'
      BY <2>5 DEF vars, tableVars, markVars, refreshVars, MatchInv, TypeOK
    <3>2. Undisturbed
      BY <2>5 DEF vars, tableVars, refreshVars, Undisturbed, Late
    <3>3. QED
      BY <3>1, <3>2, UndisturbedKeeps
  <2>6. QED
    BY <2>1, <2>2, <2>3, <2>4, <2>5 DEF Next
<1>3. QED
  BY <1>1, <1>2, PTL DEF Spec

\* The view, the marks and the refreshes keep their types: a row of the view is
\* of a provider and a request with its cover, even when both are gone.
THEOREM MatchTypes == Spec => []TypeOK
<1>1. MatchInv => TypeOK
  BY DEF MatchInv
<1>2. QED
  BY <1>1, MatchSafety, PTL

-----------------------------------------------------------------------------
(* What the providers are shown. *)

\* Every provider's list has exactly the requests that match its profile, but
\* for what waits for a refresh or changed without one: the refreshes of
\* registrations and new requests, in whatever order they run, leave no gap.
THEOREM ListComplete == Spec => []SettledListIsComplete
<1>1. ASSUME MatchInv, NEW p \in Providers \ Unsettled, NEW r \in Requests \ Unsettled
      PROVE  {row \in ListedRows(p) : row.request = r} = IF Wanted(p, r) THEN {RowOf(p, r)} ELSE {}
  <2> DEFINE shown == {row \in ListedRows(p) : row.request = r}
  <2>1. ASSUME NEW row \in shown PROVE Wanted(p, r) /\ row = RowOf(p, r)
    <3>1. /\ row \in view /\ row.provider = p /\ row.request = r
          /\ Wanted(p, r)
      BY <2>1 DEF ListedRows, Wanted
    <3>2. row \in Row /\ Matches(p, r)
      BY <1>1, <3>1 DEF MatchInv, TypeOK, Wanted
    <3>3. QED
      BY <1>1, <3>1, <3>2 DEF MatchInv, Fits
  <2>2. ASSUME Wanted(p, r) PROVE RowOf(p, r) \in shown
    <3>1. RowOf(p, r) \in Row /\ Matches(p, r)
      BY <1>1, <2>2, RowOfType DEF MatchInv, Wanted
    <3>2. RowOf(p, r).provider = p /\ RowOf(p, r).request = r
      BY DEF RowOf
    <3>3. RowOf(p, r) \in view
      BY <1>1, <3>1, <3>2 DEF MatchInv, Fits
    <3>4. QED
      BY <2>2, <3>2, <3>3 DEF ListedRows, Wanted
  <2> HIDE DEF shown
  <2>3. shown = IF Wanted(p, r) THEN {RowOf(p, r)} ELSE {}
    BY <2>1, <2>2
  <2>4. QED
    BY <2>3 DEF shown
<1>2. MatchInv => SettledListIsComplete
  BY <1>1 DEF SettledListIsComplete
<1>3. QED
  BY <1>2, MatchSafety, PTL

\* A provider's mark outlives the calls of every other provider, and hides its
\* request until its own provider shows it again.
THEOREM MarksAreOwned == Spec => OwnerChangesMark
<1>1. ASSUME MatchInv, Next, NEW r \in Requests, mark[r] # NoMark, mark'[r] \notin {mark[r], NoMark}
      PROVE  OwnCall(r)
  <2>1. mark[r] \in [provider : Providers \cup {Nobody}, hidden : BOOLEAN]
    BY <1>1 DEF MatchInv, TypeOK
  <2>2. ASSUME NEW c \in marking, UpdateMark(c) PROVE OwnCall(r)
    <3>1. c \in MarkCall
      BY <1>1, <2>2 DEF MatchInv, TypeOK
    <3>2. c.request = r /\ c.found /\ c.provider = mark[r].provider /\ c \notin marking'
      BY <1>1, <2>2, <3>1 DEF UpdateMark, MatchInv, TypeOK, MarkCall
    <3>3. mark'[r] = [mark[r] EXCEPT !.hidden = Hidden(c.change, mark[r].hidden)]
      BY <1>1, <2>2, <3>2 DEF UpdateMark, MatchInv, TypeOK
    <3>4. mark'[r].provider = mark[r].provider /\ mark'[r].hidden = Hidden(c.change, mark[r].hidden)
      BY <2>1, <3>3
    <3>5. mark'[r].hidden # mark[r].hidden
      BY <1>1, <2>1, <3>3
    <3>6. ~ mark'[r].hidden => c.change = "show"
      BY <3>1, <3>4, <3>5 DEF Hidden, MarkCall
    <3>7. QED
      BY <3>2, <3>4, <3>6 DEF OwnCall
  <2>3. ASSUME NEW c \in marking, InsertMark(c) \/ MarkRejected(c) PROVE FALSE
    BY <1>1, <2>3 DEF InsertMark, MarkRejected, MatchInv, TypeOK
  <2>4. ASSUME NEW p \in Providers, ProviderStep(p) PROVE FALSE
    BY <1>1, <2>4 DEF ProviderStep, StatusCall, Register, UpdateProfile, DeleteProvider, Offer, BeginMark,
                      markVars
  <2>5. ASSUME NEW s \in Requests, RequestStep(s) PROVE FALSE
    BY <1>1, <2>5 DEF RequestStep, CreateRequest, CreateRequestHalf, DeleteRequest, ChangeStatus,
                      Expire, markVars, MatchInv, TypeOK
  <2>6. CASE RefreshStep
    BY <1>1, <2>6 DEF RefreshStep, StartRefresh, RefreshLost, EndRefresh, RefreshFails, markVars
  <2>7. QED
    BY <1>1, <2>2, <2>3, <2>4, <2>5, <2>6 DEF Next, MarkStep
<1>2. MatchInv /\ [Next]_vars =>
      [\A r \in Requests :
          mark[r] # NoMark /\ mark'[r] \notin {mark[r], NoMark} => OwnCall(r)]_vars
  BY <1>1
<1>3. QED
  BY <1>2, MatchSafety, PTL DEF Spec, OwnerChangesMark

-----------------------------------------------------------------------------
(* What the list takes for granted of the lifecycle. *)

BoardStep == [Board!BNext]_(Board!bvars)

LEMMA RequestOnBoard ==
    ASSUME NEW r \in Requests, RequestStep(r)
    PROVE  BoardStep
<1>1. ASSUME NEW categories, CreateRequest(r, categories) \/ CreateRequestHalf(r, categories)
      PROVE  Board!Publish(r)
  BY <1>1 DEF CreateRequest, CreateRequestHalf, Publish, Board!Publish
<1>2. CASE DeleteRequest(r)
  <2>1. Board!RequestGoes(r)
    BY <1>2 DEF DeleteRequest, Exists, Board!RequestGoes, Board!Listed
  <2>2. QED
    BY <2>1 DEF BoardStep, Board!BNext
<1>3. CASE ChangeStatus(r)
  <2>1. Board!Move(r)
    BY <1>3 DEF ChangeStatus, Exists, Board!Move, Board!Listed
  <2>2. QED
    BY <2>1 DEF BoardStep, Board!BNext
<1>4. CASE Expire(r)
  <2>1. Board!RunOut({r})
    BY <1>4 DEF Expire, Board!RunOut
  <2>2. QED
    BY <2>1 DEF BoardStep, Board!BNext
<1>5. QED
  BY <1>1, <1>2, <1>3, <1>4 DEF RequestStep, BoardStep, Board!BNext

LEMMA ProviderOnBoard ==
    ASSUME NEW p \in Providers, ProviderStep(p)
    PROVE  BoardStep
<1>1. ASSUME NEW r \in Requests, Offer(p, r) PROVE BoardStep
  <2>1. Board!Offer(p, r)
    BY <1>1 DEF Offer, Exists, Board!Offer, Board!Listed
  <2>2. QED
    BY <2>1 DEF BoardStep, Board!BNext
<1>2. CASE DeleteProvider(p)
  <2>1. Board!ProviderGoes(p)
    BY <1>2 DEF DeleteProvider, Board!ProviderGoes
  <2>2. QED
    BY <2>1 DEF BoardStep, Board!BNext
<1>3. CASE UNCHANGED <<status, inTime, offers>>
  BY <1>3 DEF BoardStep, Board!bvars
<1>4. QED
  BY <1>1, <1>2, <1>3 DEF ProviderStep, StatusCall, Register, UpdateProfile, BeginMark, tableVars

\* Nothing that marks, views or profiles do moves a request or an offer in a way
\* that the lifecycle does not promise.
THEOREM BoardIsFollowed == Spec => FollowsBoard
<1>1. Init => Board!BInit
  BY DEF Init, Board!BInit
<1>2. [Next]_vars => BoardStep
  <2> SUFFICES ASSUME [Next]_vars PROVE BoardStep
    OBVIOUS
  <2>1. ASSUME NEW c \in marking, MarkStep(c) PROVE BoardStep
    BY <2>1 DEF MarkStep, UpdateMark, InsertMark, MarkRejected, tableVars, BoardStep, Board!bvars
  <2>2. CASE RefreshStep
    BY <2>2 DEF RefreshStep, StartRefresh, RefreshLost, EndRefresh, RefreshFails, tableVars,
                BoardStep, Board!bvars
  <2>3. CASE UNCHANGED vars
    BY <2>3 DEF vars, tableVars, BoardStep, Board!bvars
  <2>4. QED
    BY <2>1, <2>2, <2>3, RequestOnBoard, ProviderOnBoard DEF Next
<1>3. QED
  BY <1>1, <1>2, PTL DEF Spec, FollowsBoard, Board!BSpec, BoardStep

\* Conversely, whatever the board lets the lifecycle do to a request that is
\* there is a step of Matching, within its bound on changes: nothing that the
\* lifecycle promises of the rows is assumed away by the model of the list.
THEOREM BoardMovesAreTaken ==
    ASSUME TypeOK, NEW r \in Requests, NEW p \in Providers, Exists(r), profile[p] # {}, Change,
           UNCHANGED <<profile, registered, wants, markVars, refreshVars, faults>>,
           \/ Board!Move(r) /\ status' # status
           \/ Board!RunOut({r}) /\ inTime' # inTime
           \/ Board!Offer(p, r)
    PROVE  Next
<1>1. CASE Board!Move(r) /\ status' # status
  <2>1. PICK s \in Board!Listed : status' = [status EXCEPT ![r] = s]
    BY <1>1 DEF Board!Move
  <2>2. s = IF status[r] = "Pending" THEN "Closed" ELSE "Pending"
    BY <1>1, <2>1 DEF TypeOK, Exists, Board!Listed
  <2>3. status' = [status EXCEPT ![r] = IF @ = "Pending" THEN "Closed" ELSE "Pending"]
    BY <2>1, <2>2 DEF TypeOK
  <2>4. ChangeStatus(r)
    BY <1>1, <2>3 DEF ChangeStatus, Board!Move
  <2>5. QED
    BY <2>4 DEF Next, RequestStep
<1>2. CASE Board!RunOut({r}) /\ inTime' # inTime
  <2>1. Expire(r)
    BY <1>2 DEF Expire, Board!RunOut
  <2>2. QED
    BY <2>1 DEF Next, RequestStep
<1>3. CASE Board!Offer(p, r)
  <2>1. Offer(p, r)
    BY <1>3 DEF Offer, Board!Offer
  <2>2. QED
    BY <2>1 DEF Next, ProviderStep
<1>4. QED
  BY <1>1, <1>2, <1>3
=============================================================================
