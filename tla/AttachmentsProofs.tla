--------------------------- MODULE AttachmentsProofs ---------------------------
(***************************************************************************)
(* Proofs about Attachments.  The invariant says of a source that is not   *)
(* contested that at most one handler is at it, and what its links are at  *)
(* every stage of that handler.                                            *)
(***************************************************************************)
EXTENDS Attachments, TLAPS

\* A call that is under way has a source.
CallsFit ==
    \A w \in Handlers :
        /\ call[w].op = "idle" <=> call[w].on = Nowhere
        /\ call[w].op = "idle" => call[w] = Idle

AloneOnIts ==
    \A s \in Sources \ contested : \A v, w \in Handlers :
        call[v].on = s /\ call[w].on = s => v = w

UnmadeIsBare == \A s \in Sources : row[s] = "none" => ~ Busy(s) /\ LinksOf(s) = {}

GivenExisted == \A s \in Sources : \A i \in given[s] : upload[i] # "none"

Whole(s) == LinksOf(s) \in {{}, {i \in given[s] : upload[i] = "there"}}

\* Whoever is about to link a source finds it without links.
Emptied ==
    \A w \in Handlers : \A s \in Sources \ contested :
        call[w].op = "link" /\ call[w].on = s => LinksOf(s) = {}

\* Nobody but its deletion is at a deleted profile.
Cleared(s) ==
    row[s] = "gone" =>
        /\ \A w \in Handlers : call[w].on = s => call[w].op = "clear"
        /\ ~ Busy(s) => LinksOf(s) = {}

AttachInv ==
    /\ TypeOK
    /\ CallsFit
    /\ AloneOnIts
    /\ UnmadeIsBare
    /\ GivenExisted
    /\ \A s \in Sources \ contested : Whole(s)
    /\ Emptied
    /\ \A s \in Profiles \ contested : Cleared(s)

-----------------------------------------------------------------------------
(* Types. *)

LEMMA IdleIsCall == Idle \in Call /\ Idle.op = "idle" /\ Idle.on = Nowhere
  BY DEF Idle, At, Call, Stages, Nowhere

LEMMA AtIsCall ==
    ASSUME NEW op \in Stages, NEW s \in Sources, NEW images \in SUBSET Images
    PROVE  /\ At(op, s, images) \in Call
           /\ At(op, s, images).op = op /\ At(op, s, images).on = s
           /\ At(op, s, images).images = images
  BY DEF At, Call

LEMMA NowhereIsNoSource == Nowhere \notin Sources /\ Profiles \subseteq Sources
  BY SourcesAssumption DEF Sources

\* What a handler's step does to the suspended calls.
LEMMA SuspendStep ==
    ASSUME TypeOK, NEW w \in Handlers, NEW c \in Call, Suspend(w, c)
    PROVE  /\ call' \in [Handlers -> Call]
           /\ \A v \in Handlers : call'[v] = IF v = w THEN c ELSE call[v]
  BY DEF TypeOK, Suspend

\* The next stage of a call.
LEMMA NextStage ==
    ASSUME TypeOK, NEW w \in Handlers, NEW op \in Stages
    PROVE  /\ [call[w] EXCEPT !.op = op] \in Call
           /\ [call[w] EXCEPT !.op = op].op = op
           /\ [call[w] EXCEPT !.op = op].on = call[w].on
  BY DEF TypeOK, Call

LEMMA AttachInit == Init => AttachInv
<1> SUFFICES ASSUME Init PROVE AttachInv
  OBVIOUS
<1>1. \A w \in Handlers : call[w] = Idle /\ call[w].op = "idle" /\ call[w].on = Nowhere
  BY IdleIsCall DEF Init
<1>2. \A s \in Sources : ~ Busy(s) /\ LinksOf(s) = {}
  BY <1>1, NowhereIsNoSource DEF Busy, LinksOf, Init
<1>3. TypeOK
  BY IdleIsCall, AttachmentBoundsAssumption DEF Init, TypeOK
<1>4. CallsFit /\ AloneOnIts /\ UnmadeIsBare /\ GivenExisted /\ Emptied
  BY <1>1, <1>2, NowhereIsNoSource
     DEF CallsFit, AloneOnIts, UnmadeIsBare, GivenExisted, Emptied, Init
<1>5. \A s \in Sources : Whole(s)
  BY <1>2 DEF Whole
<1>6. \A s \in Profiles : Cleared(s)
  BY NowhereIsNoSource DEF Cleared, Init
<1>7. QED
  BY <1>3, <1>4, <1>5, <1>6 DEF AttachInv

LEMMA TypeNext == ASSUME TypeOK, CallsFit, Next PROVE TypeOK'
<1> USE AttachmentBoundsAssumption
<1>1. CASE UploadStep
  BY <1>1 DEF UploadStep, Upload, DeleteUpload, TypeOK
<1>2. ASSUME NEW s \in Sources, DeleteRow(s) PROVE TypeOK'
  BY <1>2 DEF DeleteRow, TypeOK
<1>3. ASSUME NEW w \in Handlers, BeginStep(w) PROVE TypeOK'
  <2>1. ASSUME NEW s \in Sources, NEW images \in SUBSET Images, Create(w, s, images)
        PROVE  TypeOK'
    <3>1. (IF images = {} THEN Idle ELSE At("link", s, images)) \in Call
      BY AtIsCall, IdleIsCall DEF Stages
    <3>2. call' \in [Handlers -> Call]
      BY <2>1, <3>1, SuspendStep DEF Create
    <3>3. QED
      BY <2>1, <3>2 DEF Create, TypeOK
  <2>2. ASSUME NEW s \in Profiles, DeleteUser(w, s) PROVE TypeOK'
    <3>1. s \in Sources /\ At("clear", s, {}) \in Call
      BY NowhereIsNoSource, AtIsCall DEF Stages
    <3>2. call' \in [Handlers -> Call]
      BY <2>2, <3>1, SuspendStep DEF DeleteUser
    <3>3. QED
      BY <2>2, <3>1, <3>2 DEF DeleteUser, Enters, TypeOK
  <2>3. ASSUME NEW s \in Products, NEW images \in SUBSET Images, BeginUpdateProduct(w, s, images)
        PROVE  TypeOK'
    <3>1. s \in Sources
      BY DEF Sources
    <3>2. call' \in [Handlers -> Call]
      BY <2>3, <3>1, SuspendStep, AtIsCall DEF BeginUpdateProduct, Stages
    <3>3. QED
      BY <2>3, <3>1, <3>2 DEF BeginUpdateProduct, Updates, Enters, TypeOK, rowVars
  <2>4. ASSUME NEW s \in Profiles, NEW image \in Images, UpdateAvatar(w, s, image)
        PROVE  TypeOK'
    <3>1. s \in Sources
      BY DEF Sources
    <3>2. call' \in [Handlers -> Call]
      BY <2>4, <3>1, SuspendStep, AtIsCall DEF UpdateAvatar, Stages
    <3>3. QED
      BY <2>4, <3>1, <3>2 DEF UpdateAvatar, Updates, Enters, TypeOK, rowVars
  <2>5. QED
    BY <1>3, <2>1, <2>2, <2>3, <2>4 DEF BeginStep, ProductCall, ProfileCall, OtherCall, Sources
<1>4. ASSUME NEW w \in Handlers, ResumeStep(w) PROVE TypeOK'
  <2>1. call[w] \in Call /\ (call[w].op # "idle" => call[w].on \in Sources)
    BY DEF TypeOK, CallsFit, Call
  <2>2. ASSUME Suspend(w, Idle) \/ \E op \in Stages : Suspend(w, [call[w] EXCEPT !.op = op])
        PROVE  call' \in [Handlers -> Call]
    BY <2>2, SuspendStep, NextStage, IdleIsCall
  <2>3. CASE UpdateProduct(w) \/ ProductIsGone(w) \/ LinksRejected(w)
    <3>1. call' \in [Handlers -> Call]
      BY <2>2, <2>3 DEF UpdateProduct, ProductIsGone, LinksRejected, Stages
    <3>2. QED
      BY <2>3, <3>1 DEF UpdateProduct, ProductIsGone, LinksRejected, TypeOK, rowVars
  <2>4. CASE ClearLinks(w) \/ DeleteLinks(w)
    <3>1. call' \in [Handlers -> Call]
      BY <2>2, <2>4 DEF ClearLinks, DeleteLinks, Stages
    <3>2. contested' \subseteq Sources
      BY <2>4 DEF ClearLinks, DeleteLinks, Settles, TypeOK
    <3>3. QED
      BY <2>4, <3>1, <3>2 DEF ClearLinks, DeleteLinks, TypeOK
  <2>5. CASE CreateLinks(w)
    <3>1. call' \in [Handlers -> Call]
      BY <2>2, <2>5 DEF CreateLinks
    <3>2. call[w].on \in Sources /\ call[w].images \subseteq Images
      BY <2>1, <2>5 DEF CreateLinks, Call
    <3>3. QED
      BY <2>5, <3>1, <3>2 DEF CreateLinks, Linkable, TypeOK
  <2>6. CASE CallFails(w)
    <3>1. call' \in [Handlers -> Call]
      BY <2>2, <2>6 DEF CallFails
    <3>2. CutOff(w) \subseteq Sources
      BY <2>1 DEF CutOff
    <3>3. QED
      BY <2>6, <3>1, <3>2 DEF CallFails, TypeOK, rowVars
  <2>7. QED
    BY <1>4, <2>3, <2>4, <2>5, <2>6 DEF ResumeStep
<1>5. CASE Crash
  <2>1. \A w \in Handlers : CutOff(w) \subseteq Sources
    BY DEF CutOff, CallsFit, TypeOK, Call
  <2>2. UNION {CutOff(w) : w \in Handlers} \subseteq Sources
    BY <2>1
  <2>3. QED
    BY <1>5, <2>2, IdleIsCall DEF Crash, TypeOK, rowVars
<1>6. QED
  BY <1>1, <1>2, <1>3, <1>4, <1>5 DEF Next

-----------------------------------------------------------------------------
(* The steps, by what they do. *)

\* A handler enters a source: its row may be made or deleted with that.
LEMMA EnterKeepsInv ==
    ASSUME AttachInv, TypeOK', NEW w \in Handlers, NEW s \in Sources, NEW c \in Call,
           c.on = s, c.op # "idle", call[w] = Idle, Suspend(w, c),
           UNCHANGED <<upload, linked, given>>,
           contested \subseteq contested', Busy(s) => s \in contested',
           row'[s] # "none", \A t \in Sources \ {s} : row'[t] = row[t],
           c.op = "link" => LinksOf(s) = {},
           s \in Profiles /\ row'[s] = "gone" => c.op = "clear"
    PROVE  AttachInv'
<1> USE DEF AttachInv
<1>1. \A v \in Handlers : call'[v] = IF v = w THEN c ELSE call[v]
  BY SuspendStep
<1>2. call[w].op = "idle" /\ call[w].on = Nowhere
  BY IdleIsCall
<1>3. CallsFit'
  BY <1>1, NowhereIsNoSource DEF CallsFit
<1>4. AloneOnIts'
  BY <1>1 DEF AloneOnIts, Busy
<1>5. \A t \in Sources \ {s} : Busy(t)' <=> Busy(t)
  BY <1>1, <1>2, NowhereIsNoSource DEF Busy
<1>6. \A t \in Sources : LinksOf(t)' = LinksOf(t)
  BY DEF LinksOf
<1>7. UnmadeIsBare'
  BY <1>5, <1>6 DEF UnmadeIsBare
<1>8. GivenExisted' /\ \A t \in Sources \ contested' : Whole(t)'
  BY <1>6 DEF GivenExisted, Whole
<1>9. Emptied'
  BY <1>1, <1>6 DEF Emptied
<1>10. \A t \in Profiles \ contested' : Cleared(t)'
  <2> SUFFICES ASSUME NEW t \in Profiles, t \notin contested', row'[t] = "gone"
               PROVE  /\ \A v \in Handlers : call'[v].on = t => call'[v].op = "clear"
                      /\ ~ Busy(t)' => LinksOf(t)' = {}
    BY DEF Cleared, Busy, LinksOf
  <2>1. CASE t = s
    BY <1>1, <2>1 DEF Busy
  <2>2. CASE t # s
    <3>1. row[t] = "gone" /\ Cleared(t)
      BY <2>2, NowhereIsNoSource
    <3>2. QED
      BY <1>1, <1>5, <1>6, <2>2, <3>1, NowhereIsNoSource DEF Cleared
  <2>3. QED
    BY <2>1, <2>2
<1>11. QED
  BY <1>3, <1>4, <1>7, <1>8, <1>9, <1>10

\* A handler goes on or ends: it stays at its source or leaves it.
LEMMA MovesStep ==
    ASSUME AttachInv, NEW w \in Handlers, NEW c \in Call, Suspend(w, c),
           call[w].op # "idle", c = Idle \/ (c.op # "idle" /\ c.on = call[w].on)
    PROVE  /\ call[w].on \in Sources
           /\ \A v \in Handlers : call'[v] = IF v = w THEN c ELSE call[v]
           /\ CallsFit'
           /\ \A v \in Handlers, t \in Sources : call'[v].on = t => call[v].on = t
           /\ \A t \in Sources : Busy(t)' => Busy(t)
           /\ \A t \in Sources : t # call[w].on => (Busy(t)' <=> Busy(t))
<1>1. \A v \in Handlers : call'[v] = IF v = w THEN c ELSE call[v]
  BY SuspendStep DEF AttachInv
<1>2. call[w].on \in Sources
  BY DEF AttachInv, CallsFit, TypeOK, Call
<1>3. CallsFit'
  BY <1>1, <1>2, NowhereIsNoSource, IdleIsCall DEF AttachInv, CallsFit
<1>4. \A v \in Handlers, t \in Sources : call'[v].on = t => call[v].on = t
  BY <1>1, NowhereIsNoSource, IdleIsCall
<1>5. \A t \in Sources : t # call[w].on =>
          \A v \in Handlers : call[v].on = t => call'[v].on = t
  BY <1>1
<1>6. QED
  BY <1>1, <1>2, <1>3, <1>4, <1>5 DEF Busy

LEMMA MoveKeepsInv ==
    ASSUME AttachInv, TypeOK', NEW w \in Handlers, NEW c \in Call, Suspend(w, c),
           NEW s \in Sources, call[w].on = s, call[w].op # "idle",
           c = Idle \/ (c.op # "idle" /\ c.on = s),
           UNCHANGED rowVars, UNCHANGED given, contested \subseteq contested',
           c.op # "link", call[w].op = "clear" => s \in contested'
    PROVE  AttachInv'
<1> USE DEF AttachInv
<1>1. /\ \A v \in Handlers : call'[v] = IF v = w THEN c ELSE call[v]
      /\ \A v \in Handlers, t \in Sources : call'[v].on = t => call[v].on = t
      /\ \A t \in Sources : Busy(t)' => Busy(t)
      /\ \A t \in Sources : t # s => (Busy(t)' <=> Busy(t))
      /\ CallsFit'
  BY MovesStep
<1>2. \A t \in Sources : LinksOf(t)' = LinksOf(t)
  BY DEF LinksOf, rowVars
<1>3. UNCHANGED <<upload, row, linked, given>>
  BY DEF rowVars
<1>4. AloneOnIts'
  BY <1>1 DEF AloneOnIts
<1>5. UnmadeIsBare'
  BY <1>1, <1>2, <1>3 DEF UnmadeIsBare
<1>6. GivenExisted' /\ \A t \in Sources \ contested' : Whole(t)'
  BY <1>2, <1>3 DEF GivenExisted, Whole
<1>7. Emptied'
  BY <1>1, <1>2 DEF Emptied
<1>8. \A t \in Profiles \ contested' : Cleared(t)'
  <2> SUFFICES ASSUME NEW t \in Profiles \ contested', row[t] = "gone"
               PROVE  /\ \A v \in Handlers : call'[v].on = t => call'[v].op = "clear"
                      /\ ~ Busy(t)' => LinksOf(t)' = {}
    BY <1>3 DEF Cleared
  <2>1. t \in Sources /\ Cleared(t)
    BY NowhereIsNoSource
  \* Whoever leaves a deleted profile was clearing its links.
  <2>2. t # s
    BY <2>1 DEF Cleared
  <2>3. QED
    BY <1>1, <1>2, <2>1, <2>2, IdleIsCall DEF Cleared
<1>9. QED
  BY <1>1, <1>4, <1>5, <1>6, <1>7, <1>8

\* A handler deletes the links of its source.
LEMMA UnlinkKeepsInv ==
    ASSUME AttachInv, TypeOK', NEW w \in Handlers, NEW c \in Call, Suspend(w, c),
           NEW s \in Sources, call[w].on = s, call[w].op # "idle",
           c = Idle \/ (c.op # "idle" /\ c.on = s),
           UNCHANGED <<upload, row, given>>,
           linked' = [i \in Images |-> IF linked[i] = s THEN Nowhere ELSE linked[i]],
           contested' = contested \/ Settles(w),
           c = Idle \/ call[w].op # "clear"
    PROVE  AttachInv'
<1> USE DEF AttachInv
<1>1. /\ \A v \in Handlers : call'[v] = IF v = w THEN c ELSE call[v]
      /\ \A v \in Handlers, t \in Sources : call'[v].on = t => call[v].on = t
      /\ \A t \in Sources : Busy(t)' => Busy(t)
      /\ \A t \in Sources : t # s => (Busy(t)' <=> Busy(t))
      /\ CallsFit'
  BY MovesStep
<1>2. LinksOf(s)' = {} /\ \A t \in Sources : t # s => LinksOf(t)' = LinksOf(t)
  BY <1>1, NowhereIsNoSource DEF LinksOf
<1>3. /\ contested \ {s} \subseteq contested'
      /\ s \in contested \ contested' =>
            row[s] = "there" /\ \A v \in Handlers : call[v].on = s => v = w
  BY DEF Settles
<1>4. AloneOnIts'
  BY <1>1, <1>3 DEF AloneOnIts
<1>5. UnmadeIsBare'
  BY <1>1, <1>2 DEF UnmadeIsBare
<1>6. GivenExisted' /\ \A t \in Sources \ contested' : Whole(t)'
  BY <1>2, <1>3 DEF GivenExisted, Whole
<1>7. Emptied'
  <2> SUFFICES ASSUME NEW v \in Handlers, NEW t \in Sources \ contested',
                      call'[v].op = "link", call'[v].on = t, t # s
               PROVE  LinksOf(t) = {}
    BY <1>2 DEF Emptied
  <2>1. v # w
    BY <1>1
  <2>2. QED
    BY <1>1, <1>3, <2>1 DEF Emptied
<1>8. \A t \in Profiles \ contested' : Cleared(t)'
  <2> SUFFICES ASSUME NEW t \in Profiles \ contested', row[t] = "gone"
               PROVE  /\ \A v \in Handlers : call'[v].on = t => call'[v].op = "clear"
                      /\ ~ Busy(t)' => LinksOf(t)' = {}
    BY DEF Cleared
  <2>1. t \in Sources /\ t \notin contested
    BY <1>3, NowhereIsNoSource
  <2>2. Cleared(t)
    BY <2>1
  <2>3. t = s => c = Idle
    BY <2>2 DEF Cleared
  <2>4. QED
    BY <1>1, <1>2, <2>1, <2>2, <2>3, IdleIsCall, NowhereIsNoSource DEF Cleared
<1>9. QED
  BY <1>1, <1>4, <1>5, <1>6, <1>7, <1>8

LEMMA CreateLinksKeepsInv ==
    ASSUME AttachInv, TypeOK', NEW w \in Handlers, CreateLinks(w)
    PROVE  AttachInv'
<1> USE DEF AttachInv
<1>1. PICK s \in Sources, images \in SUBSET Images : call[w].on = s /\ call[w].images = images
  BY DEF CreateLinks, CallsFit, TypeOK, Call
<1>2. /\ call[w].op = "link" /\ Suspend(w, Idle) /\ UNCHANGED <<upload, row, contested>>
      /\ \A i \in images : upload[i] = "there" /\ linked[i] = Nowhere
      /\ linked' = [i \in Images |-> IF i \in images THEN s ELSE linked[i]]
      /\ given' = [given EXCEPT ![s] = images]
  BY <1>1 DEF CreateLinks, Linkable
<1>3. /\ \A v \in Handlers : call'[v] = IF v = w THEN Idle ELSE call[v]
      /\ \A v \in Handlers, t \in Sources : call'[v].on = t => call[v].on = t
      /\ \A t \in Sources : Busy(t)' => Busy(t)
      /\ \A t \in Sources : t # s => (Busy(t)' <=> Busy(t))
      /\ CallsFit'
  BY <1>1, <1>2, MovesStep, IdleIsCall
<1>4. \A t \in Sources : t # s => LinksOf(t)' = LinksOf(t)
  BY <1>2, NowhereIsNoSource DEF LinksOf
<1>5. LinksOf(s)' = LinksOf(s) \cup images
  BY <1>2 DEF LinksOf
<1>6. given'[s] = images /\ \A t \in Sources : t # s => given'[t] = given[t]
  BY <1>2 DEF TypeOK
<1>7. s \notin contested => LinksOf(s)' = images
  BY <1>1, <1>2, <1>5 DEF Emptied
<1>8. AloneOnIts'
  BY <1>2, <1>3 DEF AloneOnIts
<1>9. UnmadeIsBare'
  <2>1. row[s] # "none"
    BY <1>1 DEF UnmadeIsBare, Busy
  <2>2. QED
    BY <1>2, <1>3, <1>4, <2>1 DEF UnmadeIsBare
<1>10. GivenExisted'
  BY <1>2, <1>6 DEF GivenExisted
<1>11. \A t \in Sources \ contested' : Whole(t)'
  <2>1. s \notin contested => Whole(s)'
    <3>1. images = {i \in images : upload[i] = "there"}
      BY <1>2
    <3>2. QED
      BY <1>2, <1>6, <1>7, <3>1 DEF Whole
  <2>2. \A t \in Sources \ contested : t # s => Whole(t)'
    BY <1>2, <1>4, <1>6 DEF Whole
  <2>3. QED
    BY <1>2, <2>1, <2>2
<1>12. Emptied'
  <2> SUFFICES ASSUME NEW v \in Handlers, NEW t \in Sources \ contested,
                      call'[v].op = "link", call'[v].on = t
               PROVE  LinksOf(t)' = {}
    BY <1>2 DEF Emptied
  <2>1. v # w
    BY <1>3, IdleIsCall
  <2>2. t # s
    BY <1>1, <1>3, <2>1 DEF AloneOnIts
  <2>3. QED
    BY <1>3, <1>4, <2>1, <2>2 DEF Emptied
<1>13. \A t \in Profiles \ contested' : Cleared(t)'
  <2> SUFFICES ASSUME NEW t \in Profiles \ contested, row[t] = "gone"
               PROVE  /\ \A v \in Handlers : call'[v].on = t => call'[v].op = "clear"
                      /\ ~ Busy(t)' => LinksOf(t)' = {}
    BY <1>2 DEF Cleared
  <2>1. t \in Sources /\ Cleared(t)
    BY NowhereIsNoSource
  <2>2. t # s
    BY <1>1, <1>2, <2>1 DEF Cleared
  <2>3. QED
    BY <1>3, <1>4, <2>1, <2>2, IdleIsCall, NowhereIsNoSource DEF Cleared
<1>14. QED
  BY <1>3, <1>8, <1>9, <1>10, <1>11, <1>12, <1>13

LEMMA UploadKeepsInv == ASSUME AttachInv, TypeOK', UploadStep PROVE AttachInv'
<1> USE DEF AttachInv
<1>1. UNCHANGED <<row, call, given, contested>>
  BY DEF UploadStep, Upload, DeleteUpload
<1>2. CallsFit' /\ AloneOnIts'
  BY <1>1 DEF CallsFit, AloneOnIts
<1>3. \A s \in Sources : Busy(s)' <=> Busy(s)
  BY <1>1 DEF Busy
<1>4. ASSUME NEW i \in Images, Upload(i)
      PROVE  /\ \A s \in Sources : LinksOf(s)' = LinksOf(s)
             /\ \A s \in Sources \ contested : Whole(s)'
             /\ GivenExisted'
  <2>1. \A s \in Sources : LinksOf(s)' = LinksOf(s)
    BY <1>4 DEF Upload, LinksOf
  <2>2. \A s \in Sources : i \notin given[s]
    BY <1>4 DEF Upload, GivenExisted
  <2>3. \A j \in Images \ {i} : upload'[j] = upload[j]
    BY <1>4 DEF Upload, TypeOK
  <2>4. \A s \in Sources : {j \in given[s] : upload'[j] = "there"}
                               = {j \in given[s] : upload[j] = "there"}
    BY <2>2, <2>3 DEF TypeOK
  <2>5. QED
    BY <1>1, <1>4, <2>1, <2>2, <2>3, <2>4 DEF Whole, GivenExisted, TypeOK
<1>5. ASSUME NEW i \in Images, DeleteUpload(i)
      PROVE  /\ \A s \in Sources : LinksOf(s)' \subseteq LinksOf(s)
             /\ \A s \in Sources \ contested : Whole(s)'
             /\ GivenExisted'
  <2>1. \A s \in Sources : LinksOf(s)' = LinksOf(s) \ {i}
    BY <1>5, NowhereIsNoSource DEF DeleteUpload, LinksOf, TypeOK
  <2>2. upload'[i] = "gone" /\ \A j \in Images \ {i} : upload'[j] = upload[j]
    BY <1>5 DEF DeleteUpload, TypeOK
  <2>3. \A s \in Sources : {j \in given[s] : upload'[j] = "there"}
                               = {j \in given[s] : upload[j] = "there"} \ {i}
    BY <2>2 DEF TypeOK
  <2>4. QED
    BY <1>1, <2>1, <2>2, <2>3 DEF Whole, GivenExisted, TypeOK
<1>6. /\ \A s \in Sources : LinksOf(s)' \subseteq LinksOf(s)
      /\ \A s \in Sources \ contested' : Whole(s)'
      /\ GivenExisted'
  BY <1>1, <1>4, <1>5 DEF UploadStep
<1>7. UnmadeIsBare' /\ Emptied'
  BY <1>1, <1>3, <1>6 DEF UnmadeIsBare, Emptied
<1>8. \A s \in Profiles \ contested' : Cleared(s)'
  BY <1>1, <1>3, <1>6, NowhereIsNoSource DEF Cleared
<1>9. QED
  BY <1>2, <1>6, <1>7, <1>8

\* The row of a source is made, or that of a source that is no profile deleted.
LEMMA RowKeepsInv ==
    ASSUME AttachInv, TypeOK', NEW s \in Sources, UNCHANGED <<upload, linked, call, given, contested>>,
           row'[s] # "none", \A t \in Sources \ {s} : row'[t] = row[t],
           s \in Profiles => row'[s] = "there"
    PROVE  AttachInv'
<1> USE DEF AttachInv
<1>1. CallsFit' /\ AloneOnIts' /\ GivenExisted'
  BY DEF CallsFit, AloneOnIts, GivenExisted
<1>2. \A t \in Sources : (Busy(t)' <=> Busy(t)) /\ LinksOf(t)' = LinksOf(t)
  BY DEF Busy, LinksOf
<1>3. UnmadeIsBare' /\ Emptied' /\ \A t \in Sources \ contested' : Whole(t)'
  BY <1>2 DEF UnmadeIsBare, Emptied, Whole
<1>4. \A t \in Profiles \ contested' : Cleared(t)'
  BY <1>2, NowhereIsNoSource DEF Cleared
<1>5. QED
  BY <1>1, <1>3, <1>4

LEMMA CrashKeepsInv == ASSUME AttachInv, TypeOK', Crash PROVE AttachInv'
<1> USE DEF AttachInv
<1>1. /\ \A w \in Handlers :
             call'[w] = Idle /\ call'[w].op = "idle" /\ call'[w].on = Nowhere
      /\ UNCHANGED <<upload, row, linked, given>>
      /\ contested \subseteq contested'
  BY IdleIsCall DEF Crash, rowVars
<1>2. \A s \in Sources : ~ Busy(s)' /\ LinksOf(s)' = LinksOf(s)
  BY <1>1, NowhereIsNoSource DEF Busy, LinksOf
<1>3. CallsFit' /\ AloneOnIts' /\ UnmadeIsBare' /\ GivenExisted' /\ Emptied'
  BY <1>1, <1>2, NowhereIsNoSource
     DEF CallsFit, AloneOnIts, UnmadeIsBare, GivenExisted, Emptied
<1>4. \A s \in Sources \ contested' : Whole(s)'
  BY <1>1, <1>2 DEF Whole
<1>5. ASSUME NEW s \in Profiles \ contested', row[s] = "gone" PROVE LinksOf(s) = {}
  <2>1. Cleared(s)
    BY <1>1, <1>5
  <2>2. ASSUME NEW w \in Handlers, call[w].on = s PROVE FALSE
    <3>1. CutOff(w) = {s}
      BY <1>5, <2>1, <2>2 DEF Cleared, CutOff
    <3>2. QED
      BY <1>5, <3>1 DEF Crash
  <2>3. QED
    BY <1>5, <2>1, <2>2 DEF Cleared, Busy
<1>6. \A s \in Profiles \ contested' : Cleared(s)'
  BY <1>1, <1>2, <1>5, NowhereIsNoSource DEF Cleared
<1>7. QED
  BY <1>3, <1>4, <1>6

-----------------------------------------------------------------------------
(* Every step. *)

LEMMA BeginKeepsInv ==
    ASSUME AttachInv, TypeOK', NEW w \in Handlers, BeginStep(w)
    PROVE  AttachInv'
<1>1. ASSUME NEW s \in Sources, NEW images \in SUBSET Images, Create(w, s, images)
      PROVE  AttachInv'
  <2>1. ~ Busy(s) /\ LinksOf(s) = {} /\ row'[s] = "there"
        /\ \A t \in Sources \ {s} : row'[t] = row[t]
    BY <1>1 DEF Create, AttachInv, UnmadeIsBare, TypeOK
  <2>2. CASE images = {}
    <3>1. UNCHANGED call
      BY <1>1, <2>2 DEF Create, Suspend, AttachInv, TypeOK
    <3>2. QED
      BY <1>1, <2>1, <3>1, RowKeepsInv DEF Create
  <2>3. CASE images # {}
    <3> DEFINE c == At("link", s, images)
    <3>1. c \in Call /\ c.on = s /\ c.op = "link"
      BY AtIsCall DEF Stages
    <3>2. call[w] = Idle /\ Suspend(w, c) /\ UNCHANGED <<upload, linked, given, contested>>
      BY <1>1, <2>3 DEF Create
    <3> HIDE DEF c
    <3>3. QED
      BY <2>1, <3>1, <3>2, EnterKeepsInv
  <2>4. QED
    BY <2>2, <2>3
<1>2. ASSUME NEW s \in Sources, NEW op \in {"update", "unlink", "clear"}, NEW images \in SUBSET Images,
             call[w] = Idle, Suspend(w, At(op, s, images)), Enters(s),
             UNCHANGED <<upload, linked, given>>,
             row[s] = "there", UNCHANGED row \/ row' = [row EXCEPT ![s] = "gone"],
             op = "clear" \/ UNCHANGED row
      PROVE  AttachInv'
  <2> DEFINE c == At(op, s, images)
  <2>1. c \in Call /\ c.on = s /\ c.op = op
    BY AtIsCall DEF Stages
  <2>2. Suspend(w, c)
    BY <1>2
  <2> HIDE DEF c
  <2>3. contested \subseteq contested' /\ (Busy(s) => s \in contested')
    BY <1>2 DEF Enters
  <2>4. /\ row'[s] # "none" /\ \A t \in Sources \ {s} : row'[t] = row[t]
        /\ row'[s] = "gone" => op = "clear"
    BY <1>2 DEF AttachInv, TypeOK
  <2>5. QED
    BY <1>2, <2>1, <2>2, <2>3, <2>4, EnterKeepsInv
<1>3. Products \subseteq Sources /\ Profiles \subseteq Sources
  BY DEF Sources
<1>4. ASSUME NEW s \in Profiles, DeleteUser(w, s) PROVE AttachInv'
  <2>1. /\ call[w] = Idle /\ Enters(s) /\ UNCHANGED <<upload, linked, given>>
        /\ Suspend(w, At("clear", s, {}))
        /\ row[s] = "there" /\ row' = [row EXCEPT ![s] = "gone"]
    BY <1>4 DEF DeleteUser
  <2>2. s \in Sources /\ {} \in SUBSET Images /\ "clear" \in {"update", "unlink", "clear"}
    BY <1>3
  <2>3. QED
    BY <1>2, <2>1, <2>2
<1>5. ASSUME NEW s \in Products, NEW images \in SUBSET Images, BeginUpdateProduct(w, s, images)
      PROVE  AttachInv'
  BY <1>2, <1>3, <1>5 DEF BeginUpdateProduct, Updates, rowVars
<1>6. ASSUME NEW s \in Profiles, NEW image \in Images, UpdateAvatar(w, s, image)
      PROVE  AttachInv'
  BY <1>2, <1>3, <1>6 DEF UpdateAvatar, Updates, rowVars
<1>7. QED
  BY <1>1, <1>4, <1>5, <1>6 DEF BeginStep, ProductCall, ProfileCall, OtherCall, Sources

LEMMA ResumeKeepsInv ==
    ASSUME AttachInv, TypeOK', NEW w \in Handlers, ResumeStep(w)
    PROVE  AttachInv'
<1>1. call[w].op # "idle" => call[w].on \in Sources
  BY DEF AttachInv, CallsFit, TypeOK, Call
<1>2. \A op \in Stages : /\ [call[w] EXCEPT !.op = op] \in Call
                         /\ [call[w] EXCEPT !.op = op].op = op
                         /\ [call[w] EXCEPT !.op = op].on = call[w].on
  BY NextStage DEF AttachInv
<1>3. CASE ClearLinks(w)
  BY <1>1, <1>3, UnlinkKeepsInv, IdleIsCall DEF ClearLinks
<1>4. CASE DeleteLinks(w)
  <2>1. PICK c \in Call : Suspend(w, c) /\ c.op = "link" /\ c.on = call[w].on
    BY <1>2, <1>4 DEF DeleteLinks, Stages
  <2>2. QED
    BY <1>1, <1>4, <2>1, UnlinkKeepsInv DEF DeleteLinks
<1>5. CASE UpdateProduct(w)
  <2>1. PICK c \in Call : Suspend(w, c) /\ c.op = "unlink" /\ c.on = call[w].on
    BY <1>2, <1>5 DEF UpdateProduct, Stages
  <2>2. QED
    BY <1>1, <1>5, <2>1, MoveKeepsInv DEF UpdateProduct
<1>6. CASE ProductIsGone(w) \/ LinksRejected(w)
  BY <1>1, <1>6, MoveKeepsInv, IdleIsCall DEF ProductIsGone, LinksRejected
<1>7. CASE CallFails(w)
  <2>1. call[w].op # "idle"
    BY <1>7 DEF CallFails, AttachInv, CallsFit
  <2>2. call[w].op = "clear" => call[w].on \in contested'
    BY <1>7 DEF CallFails, CutOff
  <2>3. QED
    BY <1>1, <1>7, <2>1, <2>2, MoveKeepsInv, IdleIsCall DEF CallFails
<1>8. QED
  BY <1>3, <1>4, <1>5, <1>6, <1>7, CreateLinksKeepsInv DEF ResumeStep

\* Types, and what is true of every source that is not contested, hold in
\* every reachable state, for any images, sources and handlers.
THEOREM AttachSafety == Spec => []AttachInv
<1>1. ASSUME AttachInv, Next PROVE AttachInv'
  <2>1. TypeOK'
    BY <1>1, TypeNext DEF AttachInv
  <2>2. CASE UploadStep
    BY <1>1, <2>1, <2>2, UploadKeepsInv
  <2>3. ASSUME NEW s \in Sources, DeleteRow(s) PROVE AttachInv'
    <3>1. row'[s] = "gone" /\ \A t \in Sources \ {s} : row'[t] = row[t]
      BY <1>1, <2>3 DEF DeleteRow, AttachInv, TypeOK
    <3>2. s \notin Profiles /\ UNCHANGED <<upload, linked, call, given, contested>>
      BY <2>3 DEF DeleteRow
    <3>3. QED
      BY <1>1, <2>1, <3>1, <3>2, RowKeepsInv
  <2>4. ASSUME NEW w \in Handlers, BeginStep(w) \/ ResumeStep(w) PROVE AttachInv'
    BY <1>1, <2>1, <2>4, BeginKeepsInv, ResumeKeepsInv
  <2>5. CASE Crash
    BY <1>1, <2>1, <2>5, CrashKeepsInv
  <2>6. QED
    BY <1>1, <2>2, <2>3, <2>4, <2>5 DEF Next
<1>2. AttachInv /\ UNCHANGED vars => AttachInv'
  BY DEF AttachInv, vars, rowVars, TypeOK, CallsFit, AloneOnIts, UnmadeIsBare, GivenExisted,
         Emptied, Whole, Cleared, Busy, LinksOf
<1>3. QED
  BY AttachInit, <1>1, <1>2, PTL DEF Spec

\* Rows and links keep their types: only an upload that is there is linked,
\* whatever is deleted between the awaits of a call.
THEOREM AttachTypes == Spec => []TypeOK
<1>1. AttachInv => TypeOK
  BY DEF AttachInv
<1>2. QED
  BY <1>1, AttachSafety, PTL

\* Links are whole or absent, whatever is rejected or cut off, unless handlers
\* overlap on their source.
THEOREM LinksWhole == Spec => []AllOrNothing
<1>1. AttachInv => AllOrNothing
  BY DEF AttachInv, AllOrNothing, Quiet, Whole
<1>2. QED
  BY <1>1, AttachSafety, PTL

\* The profile of a deleted user keeps no image.
THEOREM GoneBare == Spec => []GoneProfileIsBare
<1>1. AttachInv => GoneProfileIsBare
  BY NowhereIsNoSource DEF AttachInv, GoneProfileIsBare, Quiet, Cleared
<1>2. QED
  BY <1>1, AttachSafety, PTL

\* No handler takes the image of another source.
THEOREM NothingTaken == Spec => NoImageIsTaken
<1> DEFINE Kept(i) ==
      linked[i] # Nowhere /\ linked'[i] # linked[i] =>
          /\ linked'[i] = Nowhere
          /\ \/ upload'[i] = "gone"
             \/ \E w \in Handlers : call[w].on = linked[i] /\ call[w].op \in {"unlink", "clear"}
<1>1. ASSUME AttachInv, Next, NEW i \in Images PROVE Kept(i)
  <2> SUFFICES ASSUME linked[i] # Nowhere, linked'[i] # linked[i] PROVE Kept(i)
    OBVIOUS
  <2>1. ASSUME NEW j \in Images, Upload(j) \/ DeleteUpload(j) PROVE Kept(i)
    BY <1>1, <2>1 DEF Upload, DeleteUpload, AttachInv, TypeOK
  <2>2. ASSUME NEW s \in Sources, DeleteRow(s) PROVE Kept(i)
    BY <2>2 DEF DeleteRow
  <2>3. ASSUME NEW w \in Handlers, BeginStep(w) PROVE Kept(i)
    BY <2>3 DEF BeginStep, ProductCall, ProfileCall, OtherCall, Create, DeleteUser, BeginUpdateProduct, UpdateAvatar, rowVars
  <2>4. ASSUME NEW w \in Handlers, ClearLinks(w) \/ DeleteLinks(w) PROVE Kept(i)
    BY <2>4 DEF ClearLinks, DeleteLinks
  <2>5. ASSUME NEW w \in Handlers, CreateLinks(w) PROVE Kept(i)
    BY <2>5 DEF CreateLinks, Linkable
  <2>6. ASSUME NEW w \in Handlers,
               UpdateProduct(w) \/ ProductIsGone(w) \/ LinksRejected(w) \/ CallFails(w)
        PROVE  Kept(i)
    BY <2>6 DEF UpdateProduct, ProductIsGone, LinksRejected, CallFails, rowVars
  <2>7. CASE Crash
    BY <2>7 DEF Crash, rowVars
  <2>8. QED
    BY <1>1, <2>1, <2>2, <2>3, <2>4, <2>5, <2>6, <2>7 DEF Next, UploadStep, ResumeStep
<1>2. AttachInv /\ [Next]_vars => [\A i \in Images : Kept(i)]_vars
  BY <1>1
<1>3. QED
  BY <1>2, AttachSafety, PTL DEF Spec, NoImageIsTaken
=============================================================================
