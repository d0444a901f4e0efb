-------------------------------- MODULE Accounts --------------------------------
(***************************************************************************)
(* Accounts: registration, activation, recovery, the change of a password, *)
(* sessions, the profile with its addresses, and deletion.  A handler is   *)
(* cut at the awaits whose answers can be stale when they are used: the    *)
(* look for the email before the insert, the read of the addresses before  *)
(* the update, and the row that is there before its mail is asked for.     *)
(* Lookups of a row that is then written by its id are one step with the   *)
(* write, which is rejected when the row has gone.                         *)
(***************************************************************************)
EXTENDS Integers

CONSTANTS
    Users,      \* ids of rows of User, in no order; none is used twice
    Emails,
    Passwords,
    Addresses,  \* ids of rows of Address; none is used twice
    Handlers,   \* calls that may overlap
    MaxFaults   \* bound on rejected awaits and crashes

Nobody == "nobody"
Unborn == "unborn"
NoEmail == "no email"
NoPassword == "no password"

ASSUME UsersAssumption == Nobody \notin Users /\ Unborn \notin Users
ASSUME EmailsAssumption == NoEmail \notin Emails
ASSUME AccountFaultsAssumption == MaxFaults \in Nat

VARIABLES
    account,   \* account[u]: whether the row is there, and User.isActivated
    role,      \* role[u]: User.role, fixed by the type of the first profile
    email,     \* email[u]: User.email
    password,  \* password[u]: User.password
    owner,     \* owner[a]: the user of Address.profile, Unborn or Nobody
    mails,     \* mails[u]: what the rows of Mail of u are for
    linkAt,    \* linkAt[u]: the emails that the activationLink of u was mailed to (history)
    joined,    \* joined[u]: the email that u registered with (history)
    sessions,  \* the users who were given tokens
    call,      \* call[w]: where the handler w is suspended
    spoiled,   \* the users whose activation mail a fault cut off (history)
    faults

userVars == <<account, role, email, password>>
linkVars == <<linkAt, joined>>
vars == <<userVars, owner, mails, linkVars, sessions, call, spoiled, faults>>

Roles == {"Horeca", "Provider"}
Purposes == {"activation", "recovery", "changed"}

\* Before the insert of a user, before the update of a profile, and before
\* the mail of each purpose is asked for.
Stages == {"idle", "create", "update"} \cup Purposes

\* keep and drop part the addresses that an update has read: those that its
\* list names and the others.
Call == [op : Stages, user : Users \cup {Nobody}, email : Emails \cup {NoEmail},
         keep : SUBSET Addresses, drop : SUBSET Addresses]
At(op, u, e, keep, drop) ==
    [op |-> op, user |-> u, email |-> e, keep |-> keep, drop |-> drop]
Idle == At("idle", Nobody, NoEmail, {}, {})
Mailing(purpose, u, e) == At(purpose, u, e, {}, {})

There(u) == account[u] \in {"registered", "active"}
Holders(e) == {u \in Users : email[u] = e}
AddressesOf(u) == {a \in Addresses : owner[a] = u}
Fresh == {a \in Addresses : owner[a] = Unborn}

TypeOK ==
    /\ account \in [Users -> {"none", "registered", "active", "gone"}]
    /\ role \in [Users -> Roles]
    /\ email \in [Users -> Emails \cup {NoEmail}]
    /\ password \in [Users -> Passwords \cup {NoPassword}]
    /\ owner \in [Addresses -> Users \cup {Nobody, Unborn}]
    /\ mails \in [Users -> SUBSET Purposes]
    /\ linkAt \in [Users -> SUBSET Emails]
    /\ joined \in [Users -> Emails \cup {NoEmail}]
    /\ sessions \subseteq Users
    /\ call \in [Handlers -> Call]
    /\ spoiled \subseteq Users
    /\ faults \in 0..MaxFaults
    \* The columns are not null and the references are kept.
    /\ \A u \in Users : There(u) <=> email[u] # NoEmail
    /\ \A a \in Addresses : owner[a] \in Users => There(owner[a])

Init ==
    /\ account = [u \in Users |-> "none"]
    /\ role = [u \in Users |-> "Horeca"]
    /\ email = [u \in Users |-> NoEmail]
    /\ password = [u \in Users |-> NoPassword]
    /\ owner = [a \in Addresses |-> Unborn]
    /\ mails = [u \in Users |-> {}]
    /\ linkAt = [u \in Users |-> {}]
    /\ joined = [u \in Users |-> NoEmail]
    /\ sessions = {}
    /\ call = [w \in Handlers |-> Idle]
    /\ spoiled = {}
    /\ faults = 0

Suspend(w, c) == call' = [call EXCEPT ![w] = c]

\* New rows of Address for u, and the rows that its cascade or update removes.
Give(u, new, old) ==
    owner' = [a \in Addresses |-> IF a \in new THEN u
                                  ELSE IF a \in old /\ owner[a] = u THEN Nobody ELSE owner[a]]

-----------------------------------------------------------------------------
(* Registration. *)

\* With the GDPR approved, and when no user has the email.
BeginRegister(w, e) ==
    /\ call[w] = Idle
    /\ Holders(e) = {}
    /\ Suspend(w, At("create", Nobody, e, {}, {}))
    /\ UNCHANGED <<userVars, owner, mails, linkVars, sessions, spoiled, faults>>

\* The type of the profile gives the role; a horeca brings addresses, at
\* least one, and a provider none.
NewUser(w, u, r, p, new) ==
    /\ account[u] = "none"
    /\ r = "Horeca" <=> new # {}
    /\ account' = [account EXCEPT ![u] = "registered"]
    /\ role' = [role EXCEPT ![u] = r]
    /\ email' = [email EXCEPT ![u] = call[w].email]
    /\ password' = [password EXCEPT ![u] = p]
    /\ Give(u, new, {})
    /\ joined' = [joined EXCEPT ![u] = call[w].email]
    /\ UNCHANGED <<mails, linkAt, sessions, spoiled, faults>>

\* Mutants of CreateUser: without the unique column, and without the mail.
CreateUserAnyway(w, u, r, p, new) ==
    /\ call[w].op = "create"
    /\ NewUser(w, u, r, p, new)
    /\ Suspend(w, Mailing("activation", u, call[w].email))

CreateUserOnly(w, u, r, p, new) ==
    /\ call[w].op = "create"
    /\ Holders(call[w].email) = {}
    /\ NewUser(w, u, r, p, new)
    /\ Suspend(w, Idle)

\* The unique column looks again.
CreateUser(w, u, r, p, new) ==
    /\ call[w].op = "create"
    /\ Holders(call[w].email) = {}
    /\ NewUser(w, u, r, p, new)
    /\ Suspend(w, Mailing("activation", u, call[w].email))

EmailIsTaken(w) ==
    /\ call[w].op = "create"
    /\ Holders(call[w].email) # {}
    /\ Suspend(w, Idle)
    /\ UNCHANGED <<userVars, owner, mails, linkVars, sessions, spoiled, faults>>

-----------------------------------------------------------------------------
(* Mails, the link they carry, and sessions. *)

\* The row of Mail refers to its user; it is for the email that the handler
\* knows, which the user may have left by now.  The mail of a changed password
\* carries no link.
SendMail(w) ==
    LET u == call[w].user
        purpose == call[w].op
    IN  /\ purpose \in Purposes
        /\ There(u)
        /\ mails' = [mails EXCEPT ![u] = @ \cup {purpose}]
        /\ linkAt' = IF purpose = "changed" THEN linkAt
                     ELSE [linkAt EXCEPT ![u] = @ \cup {call[w].email}]
        /\ Suspend(w, Idle)
        /\ UNCHANGED <<userVars, owner, joined, sessions, spoiled, faults>>

\* By the email, activated or not.
PasswordRecovery(w, u) ==
    /\ call[w] = Idle
    /\ There(u)
    /\ Suspend(w, Mailing("recovery", u, email[u]))
    /\ UNCHANGED <<userVars, owner, mails, linkVars, sessions, spoiled, faults>>

\* By whoever reads a mailbox the link went to.  It is never renewed: it works
\* as often as it is used, whatever email the account has by then.
ActivateAccount(u) ==
    /\ linkAt[u] # {}
    /\ There(u)
    /\ account' = [account EXCEPT ![u] = "active"]
    /\ UNCHANGED <<role, email, password, owner, mails, linkVars, sessions, call, spoiled, faults>>

PasswordChange(w, u, p) ==
    /\ call[w] = Idle
    /\ linkAt[u] # {}
    /\ There(u)
    /\ password' = [password EXCEPT ![u] = p]
    /\ Suspend(w, Mailing("changed", u, NoEmail))
    /\ UNCHANGED <<account, role, email, owner, mails, linkVars, sessions, spoiled, faults>>

\* Mutant of Login: isActivated is not asked.
LoginAnyway(u, p) ==
    /\ There(u)
    /\ p = password[u]
    /\ sessions' = sessions \cup {u}
    /\ UNCHANGED <<userVars, owner, mails, linkVars, call, spoiled, faults>>

Login(u, p) ==
    /\ account[u] = "active"
    /\ p = password[u]
    /\ sessions' = sessions \cup {u}
    /\ UNCHANGED <<userVars, owner, mails, linkVars, call, spoiled, faults>>

-----------------------------------------------------------------------------
(* The profile. *)

\* What the guard of a call asks: a token, whose user must still be there.
Authorized(u) == u \in sessions /\ There(u)

\* Of the ids in the list only those that were read count.  The profile may be
\* left out of the call, and so may its list of addresses: both count as a list
\* that names none.
BeginUpdate(w, u, keep) ==
    /\ call[w] = Idle
    /\ Authorized(u)
    /\ keep \subseteq AddressesOf(u)
    /\ Suspend(w, At("update", u, NoEmail, keep, AddressesOf(u) \ keep))
    /\ UNCHANGED <<userVars, owner, mails, linkVars, sessions, spoiled, faults>>

\* One transaction: rejected when the new email is taken, or when an address
\* that it writes has gone since it was read.
Acceptable(w, e) ==
    /\ Holders(e) \subseteq {call[w].user}
    /\ call[w].keep \subseteq AddressesOf(call[w].user)

\* Mutant of Removed: the rows are looked for when they are deleted.
RemovedByList(w) == AddressesOf(call[w].user) \ call[w].keep

\* The addresses that were read and that the list does not name.
Removed(w) == call[w].drop

\* The email and the password may stay; only a horeca has addresses.
UpdateProfile(w, e, p, new) ==
    LET u == call[w].user
    IN  /\ call[w].op = "update"
        /\ There(u)
        /\ Acceptable(w, e)
        /\ role[u] = "Provider" => new = {}
        /\ email' = [email EXCEPT ![u] = e]
        /\ password' = [password EXCEPT ![u] = p]
        /\ Give(u, new, Removed(w))
        /\ Suspend(w, Idle)
        /\ UNCHANGED <<account, role, mails, linkVars, sessions, spoiled, faults>>

\* The email of the call is another user's, or an address has gone.
UpdateIsRejected(w, e) ==
    /\ call[w].op = "update"
    /\ There(call[w].user)
    /\ ~ Acceptable(w, e)
    /\ Suspend(w, Idle)
    /\ UNCHANGED <<userVars, owner, mails, linkVars, sessions, spoiled, faults>>

-----------------------------------------------------------------------------
(* Deletion and faults. *)

\* Mutant of DeleteUser: the addresses stay.
DeleteUserRow(u) ==
    /\ There(u)
    /\ account' = [account EXCEPT ![u] = "gone"]
    /\ email' = [email EXCEPT ![u] = NoEmail]
    /\ password' = [password EXCEPT ![u] = NoPassword]
    /\ mails' = [mails EXCEPT ![u] = {}]
    /\ UNCHANGED <<role, owner, linkVars, sessions, call, spoiled, faults>>

\* By an admin; the cascade takes the profile, its addresses and the mails.
DeleteUser(u) ==
    /\ There(u)
    /\ account' = [account EXCEPT ![u] = "gone"]
    /\ email' = [email EXCEPT ![u] = NoEmail]
    /\ password' = [password EXCEPT ![u] = NoPassword]
    /\ Give(u, {}, AddressesOf(u))
    /\ mails' = [mails EXCEPT ![u] = {}]
    /\ UNCHANGED <<role, linkVars, sessions, call, spoiled, faults>>

\* A write for a user who has gone.
UserIsGone(w) ==
    /\ call[w].user \in Users
    /\ ~ There(call[w].user)
    /\ Suspend(w, Idle)
    /\ UNCHANGED <<userVars, owner, mails, linkVars, sessions, spoiled, faults>>

Unmailed(w) == IF call[w].op = "activation" THEN {call[w].user} ELSE {}

CallFails(w) ==
    /\ call[w] # Idle
    /\ faults < MaxFaults
    /\ faults' = faults + 1
    /\ spoiled' = spoiled \cup Unmailed(w)
    /\ Suspend(w, Idle)
    /\ UNCHANGED <<userVars, owner, mails, linkVars, sessions>>

\* Rows and tokens outlive the process, calls do not.
Crash ==
    /\ faults < MaxFaults
    /\ \E w \in Handlers : call[w] # Idle
    /\ faults' = faults + 1
    /\ spoiled' = spoiled \cup UNION {Unmailed(w) : w \in Handlers}
    /\ call' = [w \in Handlers |-> Idle]
    /\ UNCHANGED <<userVars, owner, mails, linkVars, sessions>>

ProfileCall(w, u) == \E keep \in SUBSET Addresses : BeginUpdate(w, u, keep)

AdminCall(u) == DeleteUser(u)

Begin(w) ==
    \/ \E e \in Emails : BeginRegister(w, e)
    \/ \E u \in Users :
        \/ PasswordRecovery(w, u)
        \/ \E p \in Passwords : PasswordChange(w, u, p)
        \/ ProfileCall(w, u)

Continue(w) ==
    \/ \E u \in Users, r \in Roles, p \in Passwords, new \in SUBSET Fresh : CreateUser(w, u, r, p, new)
    \/ EmailIsTaken(w)
    \/ SendMail(w)
    \/ \E e \in Emails :
        \/ \E p \in Passwords, new \in SUBSET Fresh : UpdateProfile(w, e, p, new)
        \/ UpdateIsRejected(w, e)
    \/ UserIsGone(w)
    \/ CallFails(w)

Next ==
    \/ \E w \in Handlers : Begin(w) \/ Continue(w)
    \/ \E u \in Users :
        \/ ActivateAccount(u)
        \/ \E p \in Passwords : Login(u, p)
        \/ AdminCall(u)
    \/ Crash

Spec == Init /\ [][Next]_vars

-----------------------------------------------------------------------------
(* Properties *)

\* Tokens are given to active accounts only, and an account is activated only
\* when its link has been mailed to the email it registered with: not when the
\* mail was cut off, and not by way of a recovery that knows another email.  Of
\* the email it moves to later nothing is asked, and no mail goes there.
SessionsWereMailed ==
    \A u \in sessions : account[u] \in {"active", "gone"} /\ joined[u] \in linkAt[u]

\* Every account has its activation mail, or its handler is about to ask for
\* it, unless a fault cut that handler off: a registration that loses the race
\* for an email, or one whose user updates or recovers meanwhile, owes no mail.
ActivationMailed ==
    \A u \in Users : There(u) =>
        \/ "activation" \in mails[u]
        \/ u \in spoiled
        \/ \E w \in Handlers : call[w].op = "activation" /\ call[w].user = u

\* What an update does to the addresses of u, whichever updates overlap it.
ChangesAsAsked(w, u) ==
    /\ call[w].op = "update" /\ call[w].user = u
    /\ AddressesOf(u) \ AddressesOf(u)' \subseteq call[w].drop
    /\ call[w].keep \subseteq AddressesOf(u)'
    /\ AddressesOf(u)' \cap call[w].drop = {}

\* The addresses of an account change only as one of its updates asks: it takes
\* away none that it has not read, such as those of a concurrent update, keeps
\* all that it names and none of the others that it read.
AddressesLeaveKnowingly ==
    [][\A u \in Users : There(u) /\ There(u)' /\ AddressesOf(u)' # AddressesOf(u)
            => \E w \in Handlers : ChangesAsAsked(w, u)]_vars

\* The accounts implement the directory: the look for the email before the
\* insert may be stale, the unique column is not.
Directory == INSTANCE AccountDirectory WITH
    stage <- account,
    holders <- [e \in Emails |-> Holders(e)]

ImplementsDirectory == Directory!Spec

-----------------------------------------------------------------------------
(* What the docs say and the code does not keep. *)

\* A horeca's profile has at least one address, as its DTOs say.
HorecaHasAddress ==
    \A u \in Users : There(u) /\ role[u] = "Horeca" => AddressesOf(u) # {}
=============================================================================
