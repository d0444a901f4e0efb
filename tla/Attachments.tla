------------------------------ MODULE Attachments -------------------------------
(***************************************************************************)
(* Uploaded images and what they are attached to.  A row of UploadsLink    *)
(* ties an image to a source (a product, a profile, a template, a request  *)
(* or an item of an offer) and is unique by image.  Handlers write the row *)
(* of the source and its links in separate awaits, and replace the links   *)
(* of a source by deleting all of them before they create the new ones.    *)
(***************************************************************************)
EXTENDS Integers, FiniteSets

CONSTANTS
    Images,       \* rows of Upload
    Products,     \* sources whose images an update replaces
    Profiles,     \* sources whose one image, the avatar, an update replaces
    Others,       \* templates, requests, items of offers: linked at creation
    Handlers,     \* calls that may overlap
    MaxUpdates,   \* bound on updates
    MaxFaults     \* bound on rejected awaits and crashes

Sources == Products \cup Profiles \cup Others

Nowhere == "nowhere"

ASSUME SourcesAssumption ==
    /\ Products \cap Profiles = {} /\ Others \cap (Products \cup Profiles) = {}
    /\ Nowhere \notin Sources
ASSUME AttachmentBoundsAssumption == MaxUpdates \in Nat /\ MaxFaults \in Nat

VARIABLES
    upload,    \* upload[i]: whether the row of the upload i is there
    row,       \* row[s]: whether the row of the source is there
    linked,    \* linked[i]: the source of the UploadsLink of i
    call,      \* call[w]: where the handler w is suspended
    given,     \* given[s]: the images of the last handler that linked all of its own (history)
    contested, \* the sources that overlapping handlers left as they are (history)
    updates, faults

rowVars == <<upload, row, linked>>
vars == <<rowVars, call, given, contested, updates, faults>>

\* Before a product's row is written, before the links of a source are
\* deleted, before new ones are created, and before those of a user's profile
\* are deleted for good.
Stages == {"idle", "update", "unlink", "link", "clear"}

Call == [op : Stages, on : Sources \cup {Nowhere}, images : SUBSET Images]
At(op, s, images) == [op |-> op, on |-> s, images |-> images]
Idle == At("idle", Nowhere, {})

TypeOK ==
    /\ upload \in [Images -> {"none", "there", "gone"}]
    /\ row \in [Sources -> {"none", "there", "gone"}]
    /\ linked \in [Images -> Sources \cup {Nowhere}]
    /\ \A i \in Images : linked[i] # Nowhere => upload[i] = "there"
    /\ call \in [Handlers -> Call]
    /\ given \in [Sources -> SUBSET Images]
    /\ contested \subseteq Sources
    /\ updates \in 0..MaxUpdates
    /\ faults \in 0..MaxFaults

Init ==
    /\ upload = [i \in Images |-> "none"]
    /\ row = [s \in Sources |-> "none"]
    /\ linked = [i \in Images |-> Nowhere]
    /\ call = [w \in Handlers |-> Idle]
    /\ given = [s \in Sources |-> {}]
    /\ contested = {}
    /\ updates = 0
    /\ faults = 0

LinksOf(s) == {i \in Images : linked[i] = s}

Busy(s) == \E w \in Handlers : call[w].on = s

Suspend(w, c) == call' = [call EXCEPT ![w] = c]

\* A handler that starts beside another one contests the source, ...
Enters(s) == contested' = IF Busy(s) THEN contested \cup {s} ELSE contested

\* ... until one that is alone on it deletes its links to replace them.
Settles(w) ==
    LET s == call[w].on
        alone == row[s] = "there" /\ \A u \in Handlers \ {w} : call[u].on # s
    IN  contested' = IF alone THEN contested \ {s} ELSE contested

-----------------------------------------------------------------------------
(* Uploads. *)

Upload(i) ==
    /\ upload[i] = "none"
    /\ upload' = [upload EXCEPT ![i] = "there"]
    /\ UNCHANGED <<row, linked, call, given, contested, updates, faults>>

\* Mutant of DeleteUpload: the link stays.
DeleteUploadRow(i) ==
    /\ upload[i] = "there"
    /\ upload' = [upload EXCEPT ![i] = "gone"]
    /\ UNCHANGED <<row, linked, call, given, contested, updates, faults>>

\* The link goes with the row of the upload.
DeleteUpload(i) ==
    /\ upload[i] = "there"
    /\ upload' = [upload EXCEPT ![i] = "gone"]
    /\ linked' = [linked EXCEPT ![i] = Nowhere]
    /\ UNCHANGED <<row, call, given, contested, updates, faults>>

-----------------------------------------------------------------------------
(* Creating and deleting the sources. *)

\* The row first, its links in a second await when there are any.
Create(w, s, images) ==
    /\ call[w] = Idle
    /\ row[s] = "none"
    /\ row' = [row EXCEPT ![s] = "there"]
    /\ Suspend(w, IF images = {} THEN Idle ELSE At("link", s, images))
    /\ UNCHANGED <<upload, linked, given, contested, updates, faults>>

\* Products, templates and, by cascade, requests and offers: the links stay.
DeleteRow(s) ==
    /\ s \notin Profiles
    /\ row[s] = "there"
    /\ row' = [row EXCEPT ![s] = "gone"]
    /\ UNCHANGED <<upload, linked, call, given, contested, updates, faults>>

\* Mutant of DeleteUser: the profile goes by the cascade alone.
DeleteUserRow(w, s) ==
    /\ call[w] = Idle
    /\ row[s] = "there"
    /\ row' = [row EXCEPT ![s] = "gone"]
    /\ UNCHANGED <<upload, linked, call, given, contested, updates, faults>>

\* The profile goes with its user, its links in a second await.
DeleteUser(w, s) ==
    /\ call[w] = Idle
    /\ row[s] = "there"
    /\ row' = [row EXCEPT ![s] = "gone"]
    /\ Enters(s)
    /\ Suspend(w, At("clear", s, {}))
    /\ UNCHANGED <<upload, linked, given, updates, faults>>

ClearLinks(w) ==
    /\ call[w].op = "clear"
    /\ linked' = [i \in Images |-> IF linked[i] = call[w].on THEN Nowhere ELSE linked[i]]
    /\ Suspend(w, Idle)
    /\ UNCHANGED <<upload, row, given, contested, updates, faults>>

-----------------------------------------------------------------------------
(* Replacing the images of a source. *)

Updates(s) ==
    /\ row[s] = "there"
    /\ updates < MaxUpdates
    /\ updates' = updates + 1
    /\ Enters(s)

\* The product is read, then written, then its links are replaced.
BeginUpdateProduct(w, s, images) ==
    /\ call[w] = Idle
    /\ Updates(s)
    /\ Suspend(w, At("update", s, images))
    /\ UNCHANGED <<rowVars, given, faults>>

UpdateProduct(w) ==
    /\ call[w].op = "update"
    /\ row[call[w].on] = "there"
    /\ Suspend(w, [call[w] EXCEPT !.op = "unlink"])
    /\ UNCHANGED <<rowVars, given, contested, updates, faults>>

ProductIsGone(w) ==
    /\ call[w].op = "update"
    /\ row[call[w].on] = "gone"
    /\ Suspend(w, Idle)
    /\ UNCHANGED <<rowVars, given, contested, updates, faults>>

UpdateAvatar(w, s, image) ==
    /\ call[w] = Idle
    /\ Updates(s)
    /\ Suspend(w, At("unlink", s, {image}))
    /\ UNCHANGED <<rowVars, given, faults>>

\* Mutant of DeleteLinks: links that the new list has again are kept.
DeleteOtherLinks(w) ==
    /\ call[w].op = "unlink"
    /\ linked' = [i \in Images |-> IF linked[i] = call[w].on /\ i \notin call[w].images
                                   THEN Nowhere ELSE linked[i]]
    /\ Suspend(w, [call[w] EXCEPT !.op = "link"])
    /\ Settles(w)
    /\ UNCHANGED <<upload, row, given, updates, faults>>

DeleteLinks(w) ==
    /\ call[w].op = "unlink"
    /\ linked' = [i \in Images |-> IF linked[i] = call[w].on THEN Nowhere ELSE linked[i]]
    /\ Suspend(w, [call[w] EXCEPT !.op = "link"])
    /\ Settles(w)
    /\ UNCHANGED <<upload, row, given, updates, faults>>

\* Mutant of CreateLinks: an image that is linked elsewhere is linked anew.
CreateLinksAnyway(w) ==
    /\ call[w].op = "link"
    /\ \A i \in call[w].images : upload[i] = "there"
    /\ linked' = [i \in Images |-> IF i \in call[w].images THEN call[w].on ELSE linked[i]]
    /\ given' = [given EXCEPT ![call[w].on] = call[w].images]
    /\ Suspend(w, Idle)
    /\ UNCHANGED <<upload, row, contested, updates, faults>>

Linkable(i) == upload[i] = "there" /\ linked[i] = Nowhere

\* One insert of many rows: all of them, or none when one is rejected.
CreateLinks(w) ==
    /\ call[w].op = "link"
    /\ \A i \in call[w].images : Linkable(i)
    /\ linked' = [i \in Images |-> IF i \in call[w].images THEN call[w].on ELSE linked[i]]
    /\ given' = [given EXCEPT ![call[w].on] = call[w].images]
    /\ Suspend(w, Idle)
    /\ UNCHANGED <<upload, row, contested, updates, faults>>

LinksRejected(w) ==
    /\ call[w].op = "link"
    /\ \E i \in call[w].images : ~ Linkable(i)
    /\ Suspend(w, Idle)
    /\ UNCHANGED <<rowVars, given, contested, updates, faults>>

-----------------------------------------------------------------------------
(* Faults. *)

\* Whatever is cut off leaves no mixture, but the links of a profile that its
\* deletion had still to clear are left for good.
CutOff(w) == IF call[w].op = "clear" THEN {call[w].on} ELSE {}

CallFails(w) ==
    /\ call[w] # Idle
    /\ faults < MaxFaults
    /\ faults' = faults + 1
    /\ contested' = contested \cup CutOff(w)
    /\ Suspend(w, Idle)
    /\ UNCHANGED <<rowVars, given, updates>>

Crash ==
    /\ faults < MaxFaults
    /\ \E w \in Handlers : call[w] # Idle
    /\ faults' = faults + 1
    /\ contested' = contested \cup UNION {CutOff(w) : w \in Handlers}
    /\ call' = [w \in Handlers |-> Idle]
    /\ UNCHANGED <<rowVars, given, updates>>

-----------------------------------------------------------------------------
(* The system. *)

UploadStep == \E i \in Images : Upload(i) \/ DeleteUpload(i)

ProductCall(w) ==
    \E s \in Products, images \in SUBSET Images :
        Create(w, s, images) \/ BeginUpdateProduct(w, s, images)

\* A profile comes with its user, without an avatar.
ProfileCall(w) ==
    \E s \in Profiles :
        \/ Create(w, s, {})
        \/ \E image \in Images : UpdateAvatar(w, s, image)
        \/ DeleteUser(w, s)

OtherCall(w) == \E s \in Others, images \in SUBSET Images : Create(w, s, images)

BeginStep(w) == ProductCall(w) \/ ProfileCall(w) \/ OtherCall(w)

ResumeStep(w) ==
    \/ ClearLinks(w)
    \/ UpdateProduct(w)
    \/ ProductIsGone(w)
    \/ DeleteLinks(w)
    \/ CreateLinks(w)
    \/ LinksRejected(w)
    \/ CallFails(w)

Next ==
    \/ UploadStep
    \/ \E s \in Sources : DeleteRow(s)
    \/ \E w \in Handlers : BeginStep(w) \/ ResumeStep(w)
    \/ Crash

Spec == Init /\ [][Next]_vars

-----------------------------------------------------------------------------
(* Properties *)

Quiet(s) == ~ Busy(s) /\ s \notin contested

\* A source shows the images of the last handler that linked all of its own,
\* or none, even when handlers were rejected or cut off between two awaits:
\* never a part of them, nor a mixture, unless two of them overlapped.
AllOrNothing ==
    \A s \in Sources :
        Quiet(s) => LinksOf(s) \in {{}, {i \in given[s] : upload[i] = "there"}}

\* An image never goes from one source to another: only the deletion of the
\* upload, or a handler that replaces or clears the images of its own source,
\* takes it away.
NoImageIsTaken ==
    [][\A i \in Images :
          linked[i] # Nowhere /\ linked'[i] # linked[i] =>
              /\ linked'[i] = Nowhere
              /\ \/ upload'[i] = "gone"
                 \/ \E w \in Handlers : call[w].on = linked[i] /\ call[w].op \in {"unlink", "clear"}]_vars

\* No image stays attached to the profile of a deleted user, for ever out of
\* the reach of the others, unless another call on the profile overlapped or
\* the deletion was cut off.
GoneProfileIsBare ==
    \A s \in Profiles : row[s] = "gone" /\ Quiet(s) => LinksOf(s) = {}
=============================================================================
