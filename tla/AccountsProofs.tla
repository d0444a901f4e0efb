----------------------------- MODULE AccountsProofs -----------------------------
(***************************************************************************)
(* Proofs about Accounts.  The invariant adds to the stated ones what each *)
(* suspended call knows for sure: whose session it runs in, that the       *)
(* addresses it has read were written, and that the email its link is for  *)
(* is the one of the registration as long as the account is not active.    *)
(***************************************************************************)
EXTENDS Accounts, TLAPS

\* What a suspended call may count on.
Fits(c) ==
    /\ c.op = "idle" => c = Idle
    /\ c.op \in Purposes =>
        /\ c.user \in Users /\ account[c.user] # "none"
        /\ c.op # "changed" => c.email \in Emails
        /\ c.op # "changed" /\ account[c.user] = "registered" => c.email = joined[c.user]
    /\ c.op = "create" => c.email \in Emails /\ c.user = Nobody
    /\ c.op = "update" =>
        /\ c.user \in sessions
        /\ c.keep \cap c.drop = {}
        /\ \A a \in c.drop : owner[a] # Unborn

CallsFit == \A w \in Handlers : Fits(call[w])

\* Until an account is active its link goes nowhere but to the email it
\* registered with, and it is active when the link has gone there.
LinksFit ==
    \A u \in Users :
        /\ account[u] = "none" => linkAt[u] = {}
        /\ account[u] = "registered" => email[u] = joined[u] /\ linkAt[u] \subseteq {joined[u]}
        /\ account[u] = "active" => joined[u] \in linkAt[u]

\* What no step of the rows does to the accounts that are there.
Onward ==
    \A u \in Users : account[u] # "none" =>
        /\ account'[u] # "none" /\ joined'[u] = joined[u]
        /\ account'[u] = "registered" => account[u] = "registered"

AccountInv ==
    /\ TypeOK
    /\ CallsFit
    /\ LinksFit
    /\ SessionsWereMailed
    /\ ActivationMailed

-----------------------------------------------------------------------------
(* Calls. *)

LEMMA NamesDiffer == Nobody \notin Users /\ Unborn \notin Users /\ Nobody # Unborn
  BY UsersAssumption DEF Nobody, Unborn

LEMMA IdleIsCall == Idle \in Call /\ Fits(Idle) /\ Idle.op = "idle" /\ Idle.user = Nobody
  BY DEF Idle, At, Call, Stages, Purposes, Fits

LEMMA MailingIsCall ==
    ASSUME NEW purpose \in Purposes, NEW u \in Users, NEW e \in Emails \cup {NoEmail},
           account[u] # "none", purpose # "changed" => e \in Emails,
           purpose # "changed" /\ account[u] = "registered" => e = joined[u]
    PROVE  LET c == Mailing(purpose, u, e)
           IN  c \in Call /\ Fits(c) /\ c.op = purpose /\ c.user = u
  BY DEF Mailing, At, Call, Stages, Purposes, Fits

\* What a handler's step does to the suspended calls.
LEMMA SuspendStep ==
    ASSUME TypeOK, NEW w \in Handlers, NEW c \in Call, Suspend(w, c)
    PROVE  /\ call' \in [Handlers -> Call]
           /\ \A v \in Handlers : call'[v] = IF v = w THEN c ELSE call[v]
  BY DEF TypeOK, Suspend

\* A step of the rows that leaves the sessions, or adds to them, takes no
\* address back to the unborn and no account back leaves what a call counts on.
LEMMA FitsStays ==
    ASSUME TypeOK, NEW c \in Call, Fits(c), sessions \subseteq sessions', Onward,
           \A a \in Addresses : owner[a] # Unborn => owner'[a] # Unborn
    PROVE  Fits(c)'
  BY DEF Fits, Call, Onward

-----------------------------------------------------------------------------
(* Steps that only suspend or end a call. *)

LEMMA QuietStep ==
    ASSUME AccountInv, NEW w \in Handlers, NEW c \in Call, Suspend(w, c), Fits(c),
           UNCHANGED <<userVars, owner, mails, linkVars, sessions>>,
           spoiled' \in SUBSET Users, faults' \in 0..MaxFaults, spoiled \subseteq spoiled',
           call[w].op = "activation" => call[w].user \in spoiled' \/ ~ There(call[w].user)
    PROVE  AccountInv'
<1>1. /\ call' \in [Handlers -> Call]
      /\ \A v \in Handlers : call'[v] = IF v = w THEN c ELSE call[v]
  BY SuspendStep DEF AccountInv
<1>2. TypeOK'
  BY <1>1 DEF AccountInv, TypeOK, There, userVars, linkVars
<1>3. Fits(c)' /\ \A v \in Handlers : Fits(call[v])
  BY DEF AccountInv, CallsFit, Fits, userVars, linkVars
<1>4. CallsFit'
  <2> SUFFICES ASSUME NEW v \in Handlers PROVE Fits(call[v])'
    BY DEF CallsFit
  <2>1. CASE v = w
    BY <1>1, <1>3, <2>1 DEF Fits, userVars, linkVars
  <2>2. CASE v # w
    BY <1>1, <1>3, <2>2 DEF Fits, userVars, linkVars
  <2>3. QED
    BY <2>1, <2>2
<1>5. LinksFit' /\ SessionsWereMailed'
  BY DEF AccountInv, LinksFit, SessionsWereMailed, userVars, linkVars
<1>6. ActivationMailed'
  BY <1>1 DEF AccountInv, ActivationMailed, There, userVars
<1>7. QED
  BY <1>2, <1>4, <1>5, <1>6 DEF AccountInv

QuietActions(w) ==
    \/ \E e \in Emails : BeginRegister(w, e) \/ UpdateIsRejected(w, e)
    \/ \E u \in Users : PasswordRecovery(w, u) \/ \E keep \in SUBSET Addresses : BeginUpdate(w, u, keep)
    \/ EmailIsTaken(w)
    \/ UserIsGone(w)
    \/ CallFails(w)

LEMMA QuietActionsKeepInv ==
    ASSUME AccountInv, NEW w \in Handlers, QuietActions(w)
    PROVE  AccountInv'
<1> USE AccountFaultsAssumption, IdleIsCall
<1>0. /\ call[w] \in Call /\ Fits(call[w])
      /\ spoiled \in SUBSET Users /\ faults \in 0..MaxFaults
  BY DEF AccountInv, TypeOK, CallsFit
<1>1. ASSUME NEW e \in Emails, BeginRegister(w, e) PROVE AccountInv'
  <2>1. At("create", Nobody, e, {}, {}) \in Call /\ Fits(At("create", Nobody, e, {}, {}))
    BY DEF At, Call, Stages, Purposes, Fits
  <2>2. QED
    BY <1>0, <1>1, <2>1, QuietStep DEF BeginRegister
<1>2. ASSUME NEW e \in Emails, UpdateIsRejected(w, e) PROVE AccountInv'
  BY <1>0, <1>2, QuietStep DEF UpdateIsRejected
<1>3. ASSUME NEW u \in Users, PasswordRecovery(w, u) PROVE AccountInv'
  <2> DEFINE c == Mailing("recovery", u, email[u])
  <2>0. /\ account[u] # "none" /\ email[u] \in Emails /\ "recovery" \in Purposes
        /\ account[u] = "registered" => email[u] = joined[u]
    BY <1>3 DEF AccountInv, TypeOK, LinksFit, PasswordRecovery, There, Purposes
  <2>1. c \in Call /\ Fits(c)
    BY <2>0, MailingIsCall
  <2>2. QED
    BY <1>0, <1>3, <2>1, QuietStep DEF PasswordRecovery
<1>4. ASSUME NEW u \in Users, NEW keep \in SUBSET Addresses, BeginUpdate(w, u, keep)
      PROVE  AccountInv'
  <2> DEFINE c == At("update", u, NoEmail, keep, AddressesOf(u) \ keep)
  <2>1. c \in Call
    BY DEF At, Call, Stages, AddressesOf
  <2>2. Fits(c)
    BY <1>4, NamesDiffer DEF BeginUpdate, Authorized, At, Fits, AddressesOf, Purposes
  <2>3. QED
    BY <1>0, <1>4, <2>1, <2>2, QuietStep DEF BeginUpdate
<1>5. CASE EmailIsTaken(w)
  BY <1>0, <1>5, QuietStep DEF EmailIsTaken
<1>6. CASE UserIsGone(w)
  BY <1>0, <1>6, QuietStep DEF UserIsGone
<1>7. CASE CallFails(w)
  <2>1. spoiled' \in SUBSET Users /\ faults' \in 0..MaxFaults
    BY <1>0, <1>7 DEF CallFails, Unmailed, Fits, Purposes
  <2>2. call[w].op = "activation" => call[w].user \in spoiled'
    BY <1>7 DEF CallFails, Unmailed
  <2>3. QED
    BY <1>0, <1>7, <2>1, <2>2, QuietStep DEF CallFails
<1>8. QED
  BY <1>1, <1>2, <1>3, <1>4, <1>5, <1>6, <1>7 DEF QuietActions

LEMMA CrashKeepsInv == ASSUME AccountInv, Crash PROVE AccountInv'
<1>1. \A w \in Handlers : call'[w] = Idle
  BY DEF Crash
<1>2. \A w \in Handlers : Unmailed(w) \subseteq Users
  BY DEF AccountInv, CallsFit, Fits, Unmailed, Purposes
<1>3. TypeOK'
  BY <1>2, IdleIsCall, AccountFaultsAssumption DEF AccountInv, TypeOK, Crash, There, userVars, linkVars
<1>4. CallsFit'
  BY <1>1 DEF CallsFit, Fits, Idle, At, Purposes
<1>5. LinksFit' /\ SessionsWereMailed'
  BY DEF AccountInv, LinksFit, SessionsWereMailed, Crash, userVars, linkVars
<1>6. ActivationMailed'
  <2> SUFFICES ASSUME NEW u \in Users, There(u)
               PROVE  "activation" \in mails[u] \/ u \in spoiled'
    BY DEF ActivationMailed, Crash, There, userVars
  <2>1. CASE \E w \in Handlers : call[w].op = "activation" /\ call[w].user = u
    BY <2>1 DEF Crash, Unmailed
  <2>2. QED
    BY <2>1 DEF AccountInv, ActivationMailed, Crash
<1>7. QED
  BY <1>3, <1>4, <1>5, <1>6 DEF AccountInv

-----------------------------------------------------------------------------
(* Steps that write rows. *)

\* The calls, when one of them ends or goes on to its mail.
LEMMA OthersFit ==
    ASSUME TypeOK, CallsFit, NEW w \in Handlers, NEW c \in Call, Suspend(w, c),
           Fits(c)', sessions \subseteq sessions', Onward,
           \A a \in Addresses : owner[a] # Unborn => owner'[a] # Unborn
    PROVE  CallsFit'
<1> SUFFICES ASSUME NEW v \in Handlers PROVE Fits(call[v])'
  BY DEF CallsFit
<1>1. \A u \in Handlers : call'[u] = IF u = w THEN c ELSE call[u]
  BY SuspendStep
<1>2. CASE v = w
  BY <1>1, <1>2 DEF Fits
<1>3. CASE v # w
  <2>1. call'[v] = call[v] /\ call[v] \in Call /\ Fits(call[v])
    BY <1>1, <1>3 DEF TypeOK, CallsFit
  <2>2. QED
    BY <2>1, FitsStays DEF Fits
<1>4. QED
  BY <1>2, <1>3

LEMMA CreateUserKeepsInv ==
    ASSUME AccountInv, NEW w \in Handlers, NEW u \in Users, NEW r \in Roles, NEW p \in Passwords,
           NEW new \in SUBSET Fresh, CreateUser(w, u, r, p, new)
    PROVE  AccountInv'
<1>0. PICK e \in Emails : e = call[w].email
  BY DEF AccountInv, CallsFit, Fits, CreateUser
<1> DEFINE c == Mailing("activation", u, e)
<1>1. /\ c \in Call /\ c.op = "activation" /\ c.user = u /\ c.email = e
      /\ account'[u] = "registered" /\ joined'[u] = e
  BY <1>0 DEF Mailing, At, Call, Stages, Purposes, AccountInv, TypeOK, CreateUser, NewUser
<1>2. /\ call' \in [Handlers -> Call]
      /\ \A v \in Handlers : call'[v] = IF v = w THEN c ELSE call[v]
  BY <1>0, <1>1, SuspendStep DEF AccountInv, CreateUser
<1>3. call[w].email \in Emails /\ call[w].op = "create"
  BY DEF AccountInv, CallsFit, Fits, CreateUser
<1>4. \A a \in Addresses : owner[a] # Unborn => owner'[a] = owner[a]
  BY DEF CreateUser, NewUser, Give, Fresh
<1>5. TypeOK'
  <2>1. owner' \in [Addresses -> Users \cup {Nobody, Unborn}]
    BY DEF AccountInv, TypeOK, CreateUser, NewUser, Give
  <2>2. \A v \in Users : There(v)' <=> v = u \/ There(v)
    BY DEF AccountInv, TypeOK, CreateUser, NewUser, There
  <2>3. \A v \in Users : There(v)' <=> email'[v] # NoEmail
    BY <1>3, <2>2, EmailsAssumption DEF AccountInv, TypeOK, CreateUser, NewUser
  <2>4. ASSUME NEW a \in Addresses, owner'[a] \in Users
        PROVE  account'[owner'[a]] \in {"registered", "active"}
    <3>1. owner'[a] = u \/ (owner'[a] = owner[a] /\ There(owner[a]))
      BY <2>4, NamesDiffer DEF AccountInv, TypeOK, CreateUser, NewUser, Give
    <3>2. QED
      BY <2>4, <3>1 DEF AccountInv, TypeOK, CreateUser, NewUser, There
  <2>5. QED
    BY <1>2, <1>3, <2>1, <2>2, <2>3, <2>4 DEF AccountInv, TypeOK, CreateUser, NewUser, There
<1>6. CallsFit'
  <2>1. Fits(c)'
    BY <1>0, <1>1 DEF Fits
  <2>2. Onward
    BY DEF Onward, AccountInv, TypeOK, CreateUser, NewUser
  <2>3. Suspend(w, c) /\ sessions' = sessions
    BY <1>0 DEF CreateUser, NewUser
  <2> HIDE DEF c
  <2>4. QED
    BY <1>1, <1>4, <2>1, <2>2, <2>3, OthersFit DEF AccountInv
<1>7. LinksFit' /\ SessionsWereMailed'
  BY <1>0 DEF AccountInv, TypeOK, LinksFit, SessionsWereMailed, CreateUser, NewUser
<1>8. ActivationMailed'
  <2> SUFFICES ASSUME NEW v \in Users, There(v)'
               PROVE  \/ "activation" \in mails[v]
                      \/ v \in spoiled
                      \/ \E x \in Handlers : call'[x].op = "activation" /\ call'[x].user = v
    BY DEF ActivationMailed, CreateUser, NewUser
  <2>1. CASE v = u
    BY <1>1, <1>2, <2>1
  <2>2. CASE v # u
    BY <1>2, <1>3, <2>2 DEF AccountInv, TypeOK, ActivationMailed, CreateUser, NewUser, There
  <2>3. QED
    BY <2>1, <2>2
<1>9. QED
  BY <1>5, <1>6, <1>7, <1>8 DEF AccountInv

LEMMA SendMailKeepsInv == ASSUME AccountInv, NEW w \in Handlers, SendMail(w) PROVE AccountInv'
<1> DEFINE u == call[w].user
<1>1. /\ call' \in [Handlers -> Call]
      /\ \A v \in Handlers : call'[v] = IF v = w THEN Idle ELSE call[v]
  BY IdleIsCall, SuspendStep DEF AccountInv, SendMail
<1>2. u \in Users /\ call[w].op \in Purposes
  BY DEF AccountInv, CallsFit, Fits, SendMail
<1>3. mails' = [mails EXCEPT ![u] = @ \cup {call[w].op}] /\ account[u] # "none"
  BY DEF SendMail, There
<1>4. /\ linkAt' \in [Users -> SUBSET Emails] /\ joined' = joined
      /\ \A v \in Users : linkAt[v] \subseteq linkAt'[v]
      /\ \A v \in Users : linkAt'[v] # linkAt[v] =>
             /\ v = u /\ call[w].op # "changed"
             /\ linkAt'[v] = linkAt[v] \cup {call[w].email}
  <2>1. CASE call[w].op = "changed"
    BY <2>1 DEF AccountInv, TypeOK, SendMail
  <2>2. CASE call[w].op # "changed"
    <3>1. call[w].email \in Emails
      BY <1>2, <2>2 DEF AccountInv, CallsFit, Fits
    <3>2. QED
      BY <1>2, <2>2, <3>1 DEF AccountInv, TypeOK, SendMail
  <2>3. QED
    BY <2>1, <2>2
<1>4a. account[u] = "registered" /\ call[w].op # "changed" => call[w].email = joined[u]
  BY <1>2 DEF AccountInv, CallsFit, Fits
<1> HIDE DEF u
<1>5. TypeOK'
  <2>1. mails' \in [Users -> SUBSET Purposes]
    BY <1>2, <1>3 DEF AccountInv, TypeOK
  <2>2. UNCHANGED <<account, role, email, password, owner, sessions, spoiled, faults>>
    BY DEF SendMail, userVars
  <2>3. QED
    BY <1>1, <1>4, <2>1, <2>2 DEF AccountInv, TypeOK, There
<1>6. CallsFit'
  <2>1. Onward /\ Suspend(w, Idle) /\ UNCHANGED <<owner, sessions>>
    BY DEF Onward, SendMail, userVars
  <2>2. Fits(Idle)'
    BY IdleIsCall DEF Fits, Purposes
  <2>3. QED
    BY <2>1, <2>2, IdleIsCall, OthersFit DEF AccountInv
<1>7. LinksFit' /\ SessionsWereMailed'
  <2>1. UNCHANGED <<account, email, joined, sessions>> /\ sessions \subseteq Users
    BY DEF AccountInv, TypeOK, SendMail, userVars
  <2>2. LinksFit'
    BY <1>3, <1>4, <1>4a, <2>1 DEF AccountInv, LinksFit
  <2>3. SessionsWereMailed'
    BY <1>4, <2>1 DEF AccountInv, SessionsWereMailed
  <2>4. QED
    BY <2>2, <2>3
<1>8. ActivationMailed'
  <2> SUFFICES ASSUME NEW v \in Users, There(v)
               PROVE  \/ "activation" \in mails'[v]
                      \/ v \in spoiled
                      \/ \E x \in Handlers : call'[x].op = "activation" /\ call'[x].user = v
    BY DEF ActivationMailed, SendMail, There, userVars
  <2>1. \A x \in Users : mails[x] \subseteq mails'[x]
    BY <1>2, <1>3 DEF AccountInv, TypeOK
  <2>2. CASE call[w].op = "activation" /\ call[w].user = v
    BY <1>2, <1>3, <2>2 DEF AccountInv, TypeOK, u
  <2>3. CASE ~ (call[w].op = "activation" /\ call[w].user = v)
    BY <1>1, <2>1, <2>3 DEF AccountInv, ActivationMailed
  <2>4. QED
    BY <2>2, <2>3
<1>9. QED
  BY <1>5, <1>6, <1>7, <1>8 DEF AccountInv

LEMMA ActivateKeepsInv ==
    ASSUME AccountInv, NEW u \in Users, ActivateAccount(u)
    PROVE  AccountInv'
<1>1. \A v \in Users : There(v)' <=> There(v)
  BY DEF AccountInv, TypeOK, ActivateAccount, There
<1>2. \A a \in Addresses : owner[a] \in Users => There(owner[a])'
  BY DEF AccountInv, TypeOK, ActivateAccount, There
<1>3. TypeOK'
  BY <1>1, <1>2 DEF AccountInv, TypeOK, ActivateAccount, linkVars
<1>4. CallsFit'
  BY DEF AccountInv, TypeOK, CallsFit, Fits, ActivateAccount, linkVars
<1>5. LinksFit' /\ SessionsWereMailed'
  BY DEF AccountInv, TypeOK, LinksFit, SessionsWereMailed, ActivateAccount, There, linkVars
<1>6. ActivationMailed'
  BY <1>1 DEF AccountInv, ActivationMailed, ActivateAccount
<1>7. QED
  BY <1>3, <1>4, <1>5, <1>6 DEF AccountInv

LEMMA PasswordChangeKeepsInv ==
    ASSUME AccountInv, NEW w \in Handlers, NEW u \in Users, NEW p \in Passwords,
           PasswordChange(w, u, p)
    PROVE  AccountInv'
<1> DEFINE c == Mailing("changed", u, NoEmail)
<1>1. c \in Call /\ Fits(c) /\ c.op = "changed" /\ c.user = u
  BY MailingIsCall DEF PasswordChange, There, Purposes
<1>2. /\ call' \in [Handlers -> Call]
      /\ \A v \in Handlers : call'[v] = IF v = w THEN c ELSE call[v]
  BY <1>1, SuspendStep DEF AccountInv, PasswordChange
<1>3. TypeOK'
  BY <1>2 DEF AccountInv, TypeOK, PasswordChange, There, linkVars
<1>4. CallsFit'
  <2>1. Onward /\ Suspend(w, c) /\ UNCHANGED <<account, joined, owner, sessions>>
    BY DEF Onward, PasswordChange, linkVars
  <2> HIDE DEF c
  <2>2. Fits(c)'
    BY <1>1, <2>1 DEF Fits
  <2>3. QED
    BY <1>1, <2>1, <2>2, OthersFit DEF AccountInv
<1>5. LinksFit' /\ SessionsWereMailed'
  BY DEF AccountInv, LinksFit, SessionsWereMailed, PasswordChange, linkVars
<1>6. call[w].op = "idle"
  BY IdleIsCall DEF PasswordChange
<1>7. ActivationMailed'
  BY <1>2, <1>6 DEF AccountInv, ActivationMailed, PasswordChange, There
<1>8. QED
  BY <1>3, <1>4, <1>5, <1>7 DEF AccountInv

LEMMA LoginKeepsInv ==
    ASSUME AccountInv, NEW u \in Users, NEW p \in Passwords, Login(u, p)
    PROVE  AccountInv'
<1>1. TypeOK'
  BY DEF AccountInv, TypeOK, Login, There, userVars, linkVars
<1>2. CallsFit'
  BY DEF AccountInv, CallsFit, Fits, Login, userVars, linkVars
<1>3. LinksFit' /\ SessionsWereMailed'
  BY DEF AccountInv, LinksFit, SessionsWereMailed, Login, userVars, linkVars
<1>4. ActivationMailed'
  BY DEF AccountInv, ActivationMailed, Login, There, userVars
<1>5. QED
  BY <1>1, <1>2, <1>3, <1>4 DEF AccountInv

LEMMA UpdateProfileKeepsInv ==
    ASSUME AccountInv, NEW w \in Handlers, NEW e \in Emails, NEW p \in Passwords,
           NEW new \in SUBSET Fresh, UpdateProfile(w, e, p, new)
    PROVE  AccountInv'
<1> DEFINE u == call[w].user
<1>1. /\ call' \in [Handlers -> Call]
      /\ \A v \in Handlers : call'[v] = IF v = w THEN Idle ELSE call[v]
  BY IdleIsCall, SuspendStep DEF AccountInv, UpdateProfile
<1>2. u \in sessions /\ u \in Users /\ account[u] = "active" /\ call[w].op = "update"
  BY DEF AccountInv, TypeOK, CallsFit, Fits, SessionsWereMailed, UpdateProfile, There
<1>3. /\ email' = [email EXCEPT ![u] = e]
      /\ password' = [password EXCEPT ![u] = p]
      /\ \A a \in Addresses : owner'[a] \in {owner[a], u, Nobody}
      /\ owner' \in [Addresses -> Users \cup {Nobody, Unborn}]
  BY <1>2 DEF AccountInv, TypeOK, UpdateProfile, Give
<1>4. UNCHANGED <<account, role, mails, linkAt, joined, sessions, spoiled, faults>>
  BY DEF UpdateProfile, linkVars
<1> HIDE DEF u
<1>5. TypeOK'
  <2>1. \A v \in Users : There(v) <=> email'[v] # NoEmail
    BY <1>2, <1>3, EmailsAssumption DEF AccountInv, TypeOK, There
  <2>2. \A a \in Addresses : owner'[a] \in Users => There(owner'[a])
    BY <1>2, <1>3, NamesDiffer DEF AccountInv, TypeOK, There
  <2>3. (\A v \in Users : There(v)' <=> There(v))
    BY <1>4 DEF There
  <2>4. QED
    BY <1>1, <1>2, <1>3, <1>4, <2>1, <2>2, <2>3 DEF AccountInv, TypeOK, There
<1>6. CallsFit'
  <2>1. \A a \in Addresses : owner[a] # Unborn => owner'[a] # Unborn
    BY <1>2, <1>3, NamesDiffer
  <2>2. QED
    <3>1. Onward /\ Suspend(w, Idle) /\ Fits(Idle)'
      BY <1>4, IdleIsCall DEF Onward, UpdateProfile, Fits, Purposes
    <3>2. QED
      BY <1>4, <2>1, <3>1, IdleIsCall, OthersFit DEF AccountInv
<1>7. LinksFit' /\ SessionsWereMailed'
  <2>1. \A v \in Users : account[v] = "registered" => email'[v] = email[v]
    BY <1>2, <1>3 DEF AccountInv, TypeOK
  <2>2. QED
    BY <1>4, <2>1 DEF AccountInv, LinksFit, SessionsWereMailed
<1>8. ActivationMailed'
  BY <1>1, <1>2, <1>4 DEF AccountInv, ActivationMailed, There
<1>9. QED
  BY <1>5, <1>6, <1>7, <1>8 DEF AccountInv

LEMMA DeleteUserKeepsInv ==
    ASSUME AccountInv, NEW u \in Users, DeleteUser(u)
    PROVE  AccountInv'
<1>1. \A v \in Users : There(v)' <=> v # u /\ There(v)
  BY DEF AccountInv, TypeOK, DeleteUser, There
<1>2. \A a \in Addresses : owner'[a] = IF owner[a] = u THEN Nobody ELSE owner[a]
  BY DEF DeleteUser, Give, AddressesOf
<1>3. owner' \in [Addresses -> Users \cup {Nobody, Unborn}]
  BY DEF AccountInv, TypeOK, DeleteUser, Give
<1>4. TypeOK'
  <2>1. \A v \in Users : There(v)' <=> email'[v] # NoEmail
    BY <1>1 DEF AccountInv, TypeOK, DeleteUser
  <2>2. ASSUME NEW a \in Addresses, owner'[a] \in Users
        PROVE  account'[owner'[a]] \in {"registered", "active"}
    <3>1. owner'[a] = owner[a] /\ owner[a] # u /\ There(owner[a])
      BY <1>2, <2>2, NamesDiffer DEF AccountInv, TypeOK
    <3>2. QED
      BY <2>2, <3>1 DEF AccountInv, TypeOK, DeleteUser, There
  <2>3. QED
    BY <1>1, <1>3, <2>1, <2>2 DEF AccountInv, TypeOK, DeleteUser, There, linkVars
<1>5. CallsFit'
  <2> SUFFICES ASSUME NEW w \in Handlers PROVE Fits(call[w])'
    BY DEF CallsFit
  <2>1. call'[w] = call[w] /\ call[w] \in Call /\ Fits(call[w]) /\ sessions' = sessions
    BY DEF AccountInv, TypeOK, CallsFit, DeleteUser
  <2>2. \A a \in Addresses : owner[a] # Unborn => owner'[a] # Unborn
    BY <1>2, NamesDiffer
  <2>3. Onward
    BY DEF Onward, AccountInv, TypeOK, DeleteUser, linkVars
  <2>4. TypeOK
    BY DEF AccountInv
  <2>5. QED
    BY <2>1, <2>2, <2>3, <2>4, FitsStays DEF Fits
<1>6. LinksFit' /\ SessionsWereMailed'
  BY DEF AccountInv, TypeOK, LinksFit, SessionsWereMailed, DeleteUser, linkVars
<1>7. ActivationMailed'
  BY <1>1 DEF AccountInv, TypeOK, ActivationMailed, DeleteUser
<1>8. QED
  BY <1>4, <1>5, <1>6, <1>7 DEF AccountInv

LEMMA NextKeepsInv == ASSUME AccountInv, [Next]_vars PROVE AccountInv'
<1>1. CASE UNCHANGED vars
  BY <1>1 DEF AccountInv, TypeOK, There, CallsFit, Fits, LinksFit, SessionsWereMailed,
     ActivationMailed, vars, userVars, linkVars
<1>2. ASSUME NEW w \in Handlers, Begin(w) PROVE AccountInv'
  <2>1. CASE QuietActions(w)
    BY <2>1, QuietActionsKeepInv
  <2>2. CASE \E u \in Users, p \in Passwords : PasswordChange(w, u, p)
    BY <2>2, PasswordChangeKeepsInv
  <2>3. QED
    BY <1>2, <2>1, <2>2 DEF Begin, ProfileCall, QuietActions
<1>3. ASSUME NEW w \in Handlers, Continue(w) PROVE AccountInv'
  <2>1. CASE QuietActions(w)
    BY <2>1, QuietActionsKeepInv
  <2>2. CASE \E u \in Users, r \in Roles, p \in Passwords, new \in SUBSET Fresh :
                CreateUser(w, u, r, p, new)
    BY <2>2, CreateUserKeepsInv
  <2>3. CASE \E e \in Emails, p \in Passwords, new \in SUBSET Fresh : UpdateProfile(w, e, p, new)
    BY <2>3, UpdateProfileKeepsInv
  <2>4. CASE SendMail(w)
    BY <2>4, SendMailKeepsInv
  <2>5. QED
    BY <1>3, <2>1, <2>2, <2>3, <2>4 DEF Continue, QuietActions
<1>4. CASE Crash
  BY <1>4, CrashKeepsInv
<1>5. QED
  BY <1>1, <1>2, <1>3, <1>4, ActivateKeepsInv, LoginKeepsInv, DeleteUserKeepsInv DEF Next, AdminCall

LEMMA AccountInit == Init => AccountInv
<1> SUFFICES ASSUME Init PROVE AccountInv
  OBVIOUS
<1>1. TypeOK
  BY IdleIsCall, NamesDiffer, AccountFaultsAssumption DEF Init, TypeOK, There, Roles
<1>2. CallsFit
  BY IdleIsCall DEF Init, CallsFit
<1>3. LinksFit /\ SessionsWereMailed /\ ActivationMailed
  BY DEF Init, LinksFit, SessionsWereMailed, ActivationMailed, There
<1>4. QED
  BY <1>1, <1>2, <1>3 DEF AccountInv

\* The invariant of the accounts holds for any number of users, emails,
\* addresses and overlapping handlers.
THEOREM AccountSafety == Spec => []AccountInv
  BY AccountInit, NextKeepsInv, PTL DEF Spec

\* Rows have their columns and their references, whatever the interleaving of
\* registration, update and deletion.
THEOREM AccountTypes == Spec => []TypeOK
<1>1. AccountInv => TypeOK
  BY DEF AccountInv
<1>2. QED
  BY <1>1, AccountSafety, PTL

\* Whoever has tokens has an account whose link was mailed to the email it
\* registered with, however registrations, recoveries, updates and faults mix.
THEOREM SessionsMailed == Spec => []SessionsWereMailed
<1>1. AccountInv => SessionsWereMailed
  BY DEF AccountInv
<1>2. QED
  BY <1>1, AccountSafety, PTL

\* No registration ends without its activation mail but by a fault.
THEOREM EveryAccountMailed == Spec => []ActivationMailed
<1>1. AccountInv => ActivationMailed
  BY DEF AccountInv
<1>2. QED
  BY <1>1, AccountSafety, PTL

-----------------------------------------------------------------------------
(* Addresses. *)

AddressStep ==
    \A u \in Users : There(u) /\ There(u)' /\ AddressesOf(u)' # AddressesOf(u)
        => \E w \in Handlers : ChangesAsAsked(w, u)

LEMMA SameOwners == ASSUME UNCHANGED owner PROVE AddressStep
  BY DEF AddressStep, AddressesOf

LEMMA StepChangesAsAsked == ASSUME AccountInv, [Next]_vars PROVE AddressStep
<1>1. ASSUME NEW w \in Handlers, NEW v \in Users, NEW r \in Roles, NEW p \in Passwords,
             NEW new \in SUBSET Fresh, CreateUser(w, v, r, p, new)
      PROVE  AddressStep
  <2> SUFFICES ASSUME NEW u \in Users, There(u) PROVE AddressesOf(u)' = AddressesOf(u)
    BY DEF AddressStep
  <2>1. v # u
    BY <1>1 DEF CreateUser, NewUser, There
  <2>2. \A a \in Addresses : owner'[a] = IF a \in new THEN v ELSE owner[a]
    BY <1>1 DEF CreateUser, NewUser, Give
  <2>3. \A a \in new : owner[a] # u
    BY NamesDiffer DEF Fresh
  <2>4. QED
    BY <2>1, <2>2, <2>3 DEF AddressesOf
<1>2. ASSUME NEW w \in Handlers, NEW e \in Emails, NEW p \in Passwords,
             NEW new \in SUBSET Fresh, UpdateProfile(w, e, p, new)
      PROVE  AddressStep
  <2> SUFFICES ASSUME NEW u \in Users, AddressesOf(u)' # AddressesOf(u)
               PROVE  ChangesAsAsked(w, u)
    BY DEF AddressStep
  <2>1. /\ call[w].op = "update" /\ call[w].keep \subseteq AddressesOf(call[w].user)
        /\ call[w].keep \cap call[w].drop = {} /\ \A a \in call[w].drop : owner[a] # Unborn
        /\ call[w].keep \subseteq Addresses
    BY <1>2 DEF AccountInv, TypeOK, Call, CallsFit, Fits, UpdateProfile, Acceptable
  <2>2. \A a \in Addresses :
           owner'[a] = IF a \in new THEN call[w].user
                       ELSE IF a \in call[w].drop /\ owner[a] = call[w].user THEN Nobody
                       ELSE owner[a]
    BY <1>2 DEF UpdateProfile, Give, Removed
  <2>3. \A a \in new : owner[a] = Unborn
    BY DEF Fresh
  <2>4. call[w].user = u
    BY <2>2, <2>3, NamesDiffer DEF AddressesOf
  <2>5. AddressesOf(u) \ AddressesOf(u)' \subseteq call[w].drop
    BY <2>2, <2>4 DEF AddressesOf
  <2>6. call[w].keep \subseteq AddressesOf(u)'
    BY <2>1, <2>2, <2>4 DEF AddressesOf
  <2>7. AddressesOf(u)' \cap call[w].drop = {}
    BY <2>1, <2>2, <2>3, <2>4, NamesDiffer DEF AddressesOf
  <2>8. QED
    BY <2>1, <2>4, <2>5, <2>6, <2>7 DEF ChangesAsAsked
<1>3. ASSUME NEW v \in Users, DeleteUser(v) PROVE AddressStep
  <2> SUFFICES ASSUME NEW u \in Users, There(u)' PROVE AddressesOf(u)' = AddressesOf(u)
    BY DEF AddressStep
  <2>1. v # u
    BY <1>3 DEF AccountInv, TypeOK, DeleteUser, There
  <2>2. \A a \in Addresses : owner'[a] = IF owner[a] = v THEN Nobody ELSE owner[a]
    BY <1>3 DEF DeleteUser, Give, AddressesOf
  <2>3. QED
    BY <2>1, <2>2, NamesDiffer DEF AddressesOf
<1>4. CASE UNCHANGED owner
  BY <1>4, SameOwners
<1>5. CASE UNCHANGED vars
  BY <1>4, <1>5 DEF vars
<1>6. ASSUME NEW w \in Handlers, Begin(w) PROVE UNCHANGED owner
  BY <1>6 DEF Begin, ProfileCall, BeginRegister, PasswordRecovery, PasswordChange, BeginUpdate
<1>7. ASSUME NEW w \in Handlers, EmailIsTaken(w) \/ SendMail(w) \/ UserIsGone(w) \/ CallFails(w)
      PROVE  UNCHANGED owner
  BY <1>7 DEF EmailIsTaken, SendMail, UserIsGone, CallFails
<1>8. ASSUME NEW w \in Handlers, NEW e \in Emails, UpdateIsRejected(w, e) PROVE UNCHANGED owner
  BY <1>8 DEF UpdateIsRejected
<1>9. ASSUME NEW u \in Users, NEW p \in Passwords, Login(u, p)
      PROVE  UNCHANGED owner
  BY <1>9 DEF Login
<1>10. CASE Crash
  BY <1>4, <1>10 DEF Crash
<1>11. ASSUME NEW u \in Users, ActivateAccount(u) PROVE UNCHANGED owner
  BY <1>11 DEF ActivateAccount
<1>12. ASSUME NEW w \in Handlers, Continue(w) PROVE AddressStep
  BY <1>1, <1>2, <1>4, <1>7, <1>8, <1>12 DEF Continue
<1>13. QED
  BY <1>3, <1>4, <1>5, <1>6, <1>9, <1>10, <1>11, <1>12 DEF Next, AdminCall

\* However updates overlap, an address goes only when an update that has read
\* it leaves it out, or with its user.
THEOREM AddressesAreKept == Spec => AddressesLeaveKnowingly
<1>1. AccountInv /\ [Next]_vars => [AddressStep]_vars
  BY StepChangesAsAsked
<1>2. QED
  BY <1>1, AccountSafety, PTL DEF Spec, AddressesLeaveKnowingly, AddressStep

-----------------------------------------------------------------------------
(* The accounts implement the directory. *)

LEMMA InitRefines == Init => Directory!Init
<1> SUFFICES ASSUME Init PROVE Directory!Init
  OBVIOUS
<1>1. \A e \in Emails : Holders(e) = {}
  BY EmailsAssumption DEF Init, Holders
<1>2. QED
  BY <1>1 DEF Init, Directory!Init

LEMMA SameDirectory ==
    ASSUME UNCHANGED <<account, email>>
    PROVE  UNCHANGED Directory!vars
  BY DEF Directory!vars, Holders

LEMMA StepRefines == ASSUME AccountInv, [Next]_vars PROVE [Directory!Next]_(Directory!vars)
<1>0. CASE UNCHANGED <<account, email>>
  BY <1>0, SameDirectory
<1>1. ASSUME NEW w \in Handlers, NEW u \in Users, NEW r \in Roles, NEW p \in Passwords,
             NEW new \in SUBSET Fresh, CreateUser(w, u, r, p, new)
      PROVE  Directory!Next
  <2> DEFINE e == call[w].email
  <2>1. e \in Emails /\ Holders(e) = {}
    BY <1>1 DEF AccountInv, CallsFit, Fits, CreateUser
  <2>2. account[u] = "none" /\ account' = [account EXCEPT ![u] = "registered"]
        /\ email' = [email EXCEPT ![u] = e]
    BY <1>1 DEF CreateUser, NewUser
  <2> HIDE DEF e
  <2>3. email[u] = NoEmail
    BY <2>2 DEF AccountInv, TypeOK, There
  <2>4. \A f \in Emails : Holders(f)' = IF f = e THEN {u} ELSE Holders(f)
    BY <2>1, <2>2, <2>3, EmailsAssumption DEF AccountInv, TypeOK, Holders
  <2>5. Directory!Register(u, e)
    BY <2>1, <2>2, <2>4 DEF Directory!Register
  <2>6. QED
    BY <2>1, <2>5 DEF Directory!Next
<1>2. ASSUME NEW w \in Handlers, NEW e \in Emails, NEW p \in Passwords,
             NEW new \in SUBSET Fresh, UpdateProfile(w, e, p, new)
      PROVE  [Directory!Next]_(Directory!vars)
  <2> DEFINE u == call[w].user
  <2>1. u \in Users /\ account[u] = "active" /\ Holders(e) \subseteq {u}
    BY <1>2 DEF AccountInv, TypeOK, CallsFit, Fits, SessionsWereMailed, UpdateProfile,
       Acceptable, There
  <2>2. email' = [email EXCEPT ![u] = e] /\ UNCHANGED account
    BY <1>2 DEF UpdateProfile
  <2> HIDE DEF u
  <2>3. CASE email[u] = e
    <3>1. UNCHANGED <<account, email>>
      BY <2>1, <2>2, <2>3 DEF AccountInv, TypeOK
    <3>2. QED
      BY <3>1, SameDirectory
  <2>4. CASE email[u] # e
    <3>1. Holders(e) = {}
      BY <2>1, <2>4 DEF Holders
    <3>2. \A f \in Emails : Holders(f)' = IF f = e THEN {u} ELSE Holders(f) \ {u}
      BY <2>1, <2>2, <3>1 DEF AccountInv, TypeOK, Holders
    <3>3. Directory!Move(u, e)
      BY <2>1, <2>2, <3>1, <3>2 DEF Directory!Move
    <3>4. QED
      BY <2>1, <3>3 DEF Directory!Next
  <2>5. QED
    BY <2>3, <2>4
<1>3. ASSUME NEW u \in Users, DeleteUser(u) PROVE Directory!Next
  <2>1. account[u] \in {"registered", "active"} /\ account' = [account EXCEPT ![u] = "gone"]
    BY <1>3 DEF DeleteUser, There
  <2>2. \A e \in Emails : Holders(e)' = Holders(e) \ {u}
    BY <1>3, EmailsAssumption DEF AccountInv, TypeOK, DeleteUser, Holders
  <2>3. Directory!Delete(u)
    BY <2>1, <2>2 DEF Directory!Delete
  <2>4. QED
    BY <2>3 DEF Directory!Next
<1>4. ASSUME NEW u \in Users, ActivateAccount(u) PROVE [Directory!Next]_(Directory!vars)
  <2>1. CASE account[u] = "active"
    <3>1. UNCHANGED <<account, email>>
      BY <1>4, <2>1 DEF AccountInv, TypeOK, ActivateAccount
    <3>2. QED
      BY <3>1, SameDirectory
  <2>2. CASE account[u] = "registered"
    <3>1. Directory!Activate(u)
      BY <1>4, <2>2, SameDirectory DEF ActivateAccount, Holders, Directory!Activate
    <3>2. QED
      BY <3>1 DEF Directory!Next
  <2>3. QED
    BY <1>4, <2>1, <2>2 DEF ActivateAccount, There
<1>5. CASE UNCHANGED vars
  BY <1>0, <1>5 DEF vars, userVars
<1>6. ASSUME NEW w \in Handlers, Begin(w) PROVE UNCHANGED <<account, email>>
  BY <1>6 DEF Begin, ProfileCall, BeginRegister, PasswordRecovery, PasswordChange, BeginUpdate, userVars
<1>7. ASSUME NEW w \in Handlers, EmailIsTaken(w) \/ SendMail(w) \/ UserIsGone(w) \/ CallFails(w)
      PROVE  UNCHANGED <<account, email>>
  BY <1>7 DEF EmailIsTaken, SendMail, UserIsGone, CallFails, userVars
<1>8. ASSUME NEW w \in Handlers, NEW e \in Emails, UpdateIsRejected(w, e)
      PROVE  UNCHANGED <<account, email>>
  BY <1>8 DEF UpdateIsRejected, userVars
<1>9. ASSUME NEW u \in Users, NEW p \in Passwords, Login(u, p)
      PROVE  UNCHANGED <<account, email>>
  BY <1>9 DEF Login, userVars
<1>10. CASE Crash
  BY <1>0, <1>10 DEF Crash, userVars
<1>11. ASSUME NEW w \in Handlers, Continue(w) PROVE [Directory!Next]_(Directory!vars)
  BY <1>0, <1>1, <1>2, <1>7, <1>8, <1>11 DEF Continue
<1>12. QED
  BY <1>0, <1>3, <1>4, <1>5, <1>6, <1>9, <1>10, <1>11 DEF Next, AdminCall

\* For any number of overlapping registrations and updates an email belongs to
\* one account, and every account is activated before it changes its own.
THEOREM AccountsRefine == Spec => ImplementsDirectory
<1>1. AccountInv /\ [Next]_vars => [Directory!Next]_(Directory!vars)
  BY StepRefines
<1>2. QED
  BY <1>1, InitRefines, AccountSafety, PTL DEF Spec, ImplementsDirectory, Directory!Spec
=============================================================================
