---- MODULE Accounts ----
(***************************************************************************)
(* The accounts of the data access service and the logins that look them   *)
(* up or create them (id_providers/main.ts, services/DataAccess/users.ts,  *)
(* data_access/serializers.py).                                            *)
(*                                                                         *)
(* A login is one request of the scheduler, which asks data access for the *)
(* account of the identity, then for one with the same e-mail address, and *)
(* posts a new one.  Data access has no transactions: the rows of a new    *)
(* account are inserted one by one, and other logins run in between.       *)
(***************************************************************************)
EXTENDS Naturals, FiniteSets

CONSTANTS
    Tab,          \* where somebody may sign in
    Identity,     \* somebody's account with an identity provider
    Email,
    NoIdentity,
    emailOf,      \* the address in the profile of each identity
    MaxLogins     \* bound: logins

ASSUME AccountsAssumption ==
    /\ NoIdentity \notin Identity
    /\ emailOf \in [Identity -> Email]
    /\ MaxLogins \in Nat

User == 1..MaxLogins       \* a login creates one user at most
NoUser == 0
Nobody == [step |-> "off", identity |-> NoIdentity, number |-> 0, user |-> NoUser]

VARIABLES
    users,        \* the User rows
    owner,        \* the SSOProvider rows: the user of each identity
    mailbox,      \* the Email rows: the user of each address
    logins,       \* logins so far
    login,        \* the login under way in each tab
    overlapped,   \* history: logins with one address overlapped, or one failed half-way
    signedInAs    \* history: the user each identity was last signed in as

tables == <<users, owner, mailbox>>
accountVars == <<tables, logins, login, overlapped, signedInAs>>

AccountsInit ==
    /\ users = {}
    /\ owner = [i \in Identity |-> NoUser]
    /\ mailbox = [e \in Email |-> NoUser]
    /\ logins = 0
    /\ login = [t \in Tab |-> Nobody]
    /\ overlapped = FALSE
    /\ signedInAs = [i \in Identity |-> NoUser]

-----------------------------------------------------------------------------
(* Helpers                                                                 *)

InDataAccess == {"byProvider", "byEmail", "post", "user", "provider", "email"}
\* The profile has an id and an address, or validateProviderProfile throws.
emailIn(t) == emailOf[login[t].identity]

goOn(t, step) == login' = [login EXCEPT ![t].step = step]
endWith(t, step, u) == login' = [login EXCEPT ![t].step = step, ![t].user = u]
overlaps(i) ==
    \E t \in Tab : login[t].step \in InDataAccess /\ emailIn(t) = emailOf[i]

-----------------------------------------------------------------------------
(* loginOrCreateAccount                                                    *)

\* The provider sends the browser back with a profile.
authenticate(t, i) ==
    /\ login[t] = Nobody
    /\ logins < MaxLogins
    /\ logins' = logins + 1
    /\ login' = [login EXCEPT ![t] =
                    [step |-> "byProvider", identity |-> i, number |-> logins', user |-> NoUser]]
    /\ overlapped' = (overlapped \/ overlaps(i))
    /\ UNCHANGED <<tables, signedInAs>>

getAccountByProviderId(t) ==
    /\ login[t].step = "byProvider"
    /\ IF owner[login[t].identity] # NoUser
       THEN endWith(t, "done", owner[login[t].identity])
       ELSE goOn(t, "byEmail")
    /\ UNCHANGED <<tables, logins, overlapped, signedInAs>>

\* An address that has an account with another provider is refused.
getAccountByEmails(t) ==
    /\ login[t].step = "byEmail"
    /\ goOn(t, IF mailbox[emailIn(t)] # NoUser THEN "refused" ELSE "post")
    /\ UNCHANGED <<tables, logins, overlapped, signedInAs>>

\* createAccount posts the profile, and UserSerializer validates it with what is nested
\* in it before it inserts anything.
createAccount(t) ==
    /\ login[t].step = "post"
    /\ goOn(t, IF owner[login[t].identity] = NoUser /\ mailbox[emailIn(t)] = NoUser
               THEN "user" ELSE "error")
    /\ UNCHANGED <<tables, logins, overlapped, signedInAs>>

insertUser(t) ==
    /\ login[t].step = "user"
    /\ users' = users \cup {login[t].number}
    /\ endWith(t, "provider", login[t].number)
    /\ UNCHANGED <<owner, mailbox, logins, overlapped, signedInAs>>

\* Mutation: the identity is not unique in the table.
insertProvider_NotUnique(t) ==
    /\ login[t].step = "provider"
    /\ goOn(t, "email")
    /\ owner' = [owner EXCEPT ![login[t].identity] = login[t].user]
    /\ UNCHANGED <<users, mailbox, logins, overlapped, signedInAs>>

\* The nested serializers validate again before they insert; the user stays as it is.
insertProvider(t) ==
    /\ login[t].step = "provider"
    /\ IF owner[login[t].identity] = NoUser
       THEN /\ goOn(t, "email")
            /\ owner' = [owner EXCEPT ![login[t].identity] = login[t].user]
       ELSE endWith(t, "error", NoUser) /\ UNCHANGED owner
    /\ UNCHANGED <<users, mailbox, logins, overlapped, signedInAs>>

\* Mutation: the nested addresses are not written.
insertEmail_Skipped(t) ==
    /\ login[t].step = "email"
    /\ goOn(t, "done")
    /\ UNCHANGED <<tables, logins, overlapped, signedInAs>>

insertEmail(t) ==
    /\ login[t].step = "email"
    /\ IF mailbox[emailIn(t)] = NoUser
       THEN /\ goOn(t, "done")
            /\ mailbox' = [mailbox EXCEPT ![emailIn(t)] = login[t].user]
       ELSE endWith(t, "error", NoUser) /\ UNCHANGED mailbox
    /\ UNCHANGED <<users, owner, logins, overlapped, signedInAs>>

\* Data access dies or does not answer: the callback gets the error.
loginFails(t) ==
    /\ login[t].step \in InDataAccess
    /\ endWith(t, "error", NoUser)
    /\ overlapped' = (overlapped \/ login[t].step \in {"provider", "email"})
    /\ UNCHANGED <<tables, logins, signedInAs>>

Login(t) ==
    \/ getAccountByProviderId(t) \/ getAccountByEmails(t) \/ createAccount(t)
    \/ insertUser(t) \/ insertProvider(t) \/ insertEmail(t)

\* The rows of a deleted user go with it.
deleteUser(u) ==
    /\ users' = users \ {u}
    /\ owner' = [i \in Identity |-> IF owner[i] = u THEN NoUser ELSE owner[i]]
    /\ mailbox' = [e \in Email |-> IF mailbox[e] = u THEN NoUser ELSE mailbox[e]]

-----------------------------------------------------------------------------
(* Properties                                                              *)

\* Whoever has signed in finds the account again and is its only owner, also when first
\* logins overlap or fail half-way: until it is deleted no login of theirs ends elsewhere.
SignedInToOwnAccount ==
    \A i \in Identity : signedInAs[i] \in users => owner[i] = signedInAs[i]

\* "An Email address is required to create an account" (id_providers/main.ts:141): when
\* logins with one address do not overlap, every user that nobody is just creating can be
\* found by an identity and by the address of that identity.
AccountsAreWhole ==
    ~overlapped =>
        \A u \in users :
            \/ \E t \in Tab : login[t].step \in {"provider", "email"} /\ login[t].user = u
            \/ \E i \in Identity : owner[i] = u /\ mailbox[emailOf[i]] = u
====
