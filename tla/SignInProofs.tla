---- MODULE SignInProofs ----
(***************************************************************************)
(* Who signs in ends in the own account: proved for any number of tabs,    *)
(* identities, addresses and logins, whatever overlaps, fails, expires or  *)
(* is deleted.                                                             *)
(***************************************************************************)
EXTENDS SignIn, TLAPS

USE AccountsAssumption

LoginStep == InDataAccess \cup {"off", "done", "refused", "error"}
LoginType ==
    [step : LoginStep, identity : Identity \cup {NoIdentity}, number : Nat, user : Nat]

\* The user that a login under way is going to create is known to nobody.
Undecided == {"byProvider", "byEmail", "post", "user"}
Unused(n) ==
    /\ n # NoUser
    /\ \A i \in Identity : owner[i] # n /\ signedInAs[i] # n
    /\ \A t \in Tab : login[t].user # n

\* A user that exists is the one the identity belongs to.
Owns(i, u) == u \in users => owner[i] = u

AccountsType ==
    /\ users \subseteq Nat \ {NoUser}
    /\ owner \in [Identity -> Nat]
    /\ signedInAs \in [Identity -> Nat]
    /\ logins \in Nat
    /\ login \in [Tab -> LoginType]

\* Users are numbered by the logins that create them, and no number is used twice.
Numbering ==
    /\ \A i \in Identity : owner[i] <= logins /\ signedInAs[i] <= logins
    /\ \A t \in Tab : login[t].number <= logins /\ login[t].user <= logins
    /\ \A t, x \in Tab : t # x /\ login[t].number = login[x].number => login[t].number = 0

KnowsItsUser(t) ==
    /\ login[t].step # "off" => login[t].identity \in Identity
    /\ login[t].step \in Undecided => Unused(login[t].number)
    /\ login[t].step \in {"email", "done"} => Owns(login[t].identity, login[t].user)
LoginsKnowTheirUser == \A t \in Tab : KnowsItsUser(t)

AccountsInv ==
    AccountsType /\ Numbering /\ LoginsKnowTheirUser /\ SignedInToOwnAccount

-----------------------------------------------------------------------------
\* A login that stands still knows its user as long as the tables keep it.
LEMMA OthersKnowTheirUser ==
    ASSUME NEW x \in Tab, KnowsItsUser(x), login'[x] = login[x],
           Unused(login[x].number) => Unused(login[x].number)',
           Owns(login[x].identity, login[x].user) => Owns(login[x].identity, login[x].user)'
    PROVE  KnowsItsUser(x)'
BY DEF KnowsItsUser, Unused, Owns

LEMMA InitAccounts == Init => AccountsInv
BY DEF Init, AccountsInit, AccountsInv, AccountsType, Numbering, LoginsKnowTheirUser,
       KnowsItsUser, Unused, Owns, SignedInToOwnAccount, LoginType, LoginStep, InDataAccess,
       Undecided, Nobody, NoUser

\* What the pages do to the tables is to delete a user.
LEMMA DeletionKeepsAccounts ==
    ASSUME AccountsInv, NEW u, deleteUser(u), UNCHANGED <<logins, login, signedInAs>>
    PROVE  AccountsInv'
<1>1. AccountsType'
  BY DEF AccountsInv, AccountsType, deleteUser, NoUser
<1>2. \A i \in Identity : owner'[i] = owner[i] \/ owner'[i] = NoUser
  BY DEF deleteUser
<1>3. Numbering'
  BY <1>2 DEF AccountsInv, AccountsType, Numbering, NoUser
<1>4. ASSUME NEW x \in Tab PROVE KnowsItsUser(x)'
  <2>1. KnowsItsUser(x)
    BY DEF AccountsInv, LoginsKnowTheirUser
  <2>2. Unused(login[x].number) => Unused(login[x].number)'
    BY <1>2 DEF Unused
  <2>3. login[x].identity \in Identity /\ Owns(login[x].identity, login[x].user)
            => Owns(login[x].identity, login[x].user)'
    BY DEF Owns, deleteUser
  <2>. QED BY <2>1, <2>2, <2>3 DEF KnowsItsUser, Undecided
<1>5. SignedInToOwnAccount'
  BY DEF AccountsInv, SignedInToOwnAccount, deleteUser
<1>. QED BY <1>1, <1>3, <1>4, <1>5 DEF AccountsInv, LoginsKnowTheirUser

LEMMA NothingKeepsAccounts ==
    ASSUME AccountsInv, UNCHANGED <<users, owner, logins, login, signedInAs>>
    PROVE  AccountsInv'
BY DEF AccountsInv, AccountsType, Numbering, LoginsKnowTheirUser, KnowsItsUser, Unused, Owns,
       SignedInToOwnAccount

-----------------------------------------------------------------------------
(* The steps of a login                                                    *)

\* What a change of one field or two of a login means.
LEMMA LoginChanges ==
    ASSUME AccountsType, NEW t \in Tab, NEW step, NEW u,
           login' = [login EXCEPT ![t].step = step, ![t].user = u]
    PROVE  /\ \A x \in Tab : x # t => login'[x] = login[x]
           /\ login'[t].step = step
           /\ login'[t].user = u
           /\ \A x \in Tab : login'[x].identity = login[x].identity
           /\ \A x \in Tab : login'[x].number = login[x].number
<1>1. login' = [login EXCEPT ![t] = [login[t] EXCEPT !.step = step, !.user = u]]
  BY DEF AccountsType
<1>2. \A x \in Tab : x # t => login'[x] = login[x]
  BY <1>1 DEF AccountsType
<1>3. login[t] \in LoginType /\ login'[t] = [login[t] EXCEPT !.step = step, !.user = u]
  BY <1>1 DEF AccountsType
<1>4. /\ login'[t].step = step /\ login'[t].user = u
      /\ login'[t].identity = login[t].identity /\ login'[t].number = login[t].number
  BY <1>3 DEF LoginType
<1>. QED BY <1>2, <1>4

\* To change the step alone is to write the user it has.
LEMMA StepIsChange ==
    ASSUME AccountsType, NEW t \in Tab, NEW step, login' = [login EXCEPT ![t].step = step]
    PROVE  login' = [login EXCEPT ![t].step = step, ![t].user = login[t].user]
<1>1. login[t] \in LoginType
  BY DEF AccountsType
<1>2. [login[t] EXCEPT !.step = step] = [login[t] EXCEPT !.step = step, !.user = login[t].user]
  BY <1>1 DEF LoginType
<1>. QED BY <1>2 DEF AccountsType

\* A login goes on without having written anything.
LEMMA GoingOnKeepsAccounts ==
    ASSUME AccountsInv, NEW t \in Tab, NEW step \in LoginStep,
           NEW u, u = login[t].user \/ u = NoUser \/ \E i \in Identity : u = owner[i],
           login' = [login EXCEPT ![t].step = step, ![t].user = u],
           login[t].step # "off",
           step \in Undecided => login[t].step \in Undecided,
           step \in {"email", "done"} => Owns(login[t].identity, u),
           UNCHANGED <<users, owner, logins, signedInAs>>
    PROVE  AccountsInv'
<1>1. u \in Nat /\ u <= logins
  BY DEF AccountsInv, AccountsType, Numbering, LoginType, NoUser
<1>2. AccountsType'
  BY <1>1 DEF AccountsInv, AccountsType, LoginType
<1>3. /\ \A x \in Tab : x # t => login'[x] = login[x]
      /\ login'[t].step = step
      /\ login'[t].user = u
      /\ \A x \in Tab : login'[x].identity = login[x].identity
      /\ \A x \in Tab : login'[x].number = login[x].number
  BY LoginChanges DEF AccountsInv
<1>4. \A x \in Tab : login'[x].user <= logins
  BY <1>1, <1>3 DEF AccountsInv, Numbering
<1>5. Numbering'
  BY <1>3, <1>4 DEF AccountsInv, AccountsType, Numbering
<1>6. \A x \in Tab : Unused(login[x].number) => Unused(login[x].number)'
  BY <1>3 DEF AccountsInv, AccountsType, Unused
<1>7. ASSUME NEW x \in Tab PROVE KnowsItsUser(x)'
  <2>1. KnowsItsUser(x) /\ KnowsItsUser(t)
    BY DEF AccountsInv, LoginsKnowTheirUser
  <2>2. CASE x # t
    BY <1>3, <1>6, <2>1, <2>2 DEF AccountsInv, AccountsType, KnowsItsUser, Owns
  <2>3. CASE x = t
    <3>1. Unused(login[t].number) => Unused(login[t].number)'
      BY <1>6
    <3>2. step \in Undecided => Unused(login[t].number)'
      BY <2>1, <3>1 DEF KnowsItsUser
    <3>3. step \in {"email", "done"} => Owns(login[t].identity, login[t].user)'
      BY <1>3 DEF AccountsInv, AccountsType, Owns
    <3>. QED BY <1>3, <2>1, <2>3, <3>2, <3>3 DEF KnowsItsUser, Undecided
  <2>. QED BY <2>2, <2>3
<1>. QED BY <1>2, <1>5, <1>7 DEF AccountsInv, LoginsKnowTheirUser, SignedInToOwnAccount

LEMMA AuthenticateKeepsAccounts ==
    ASSUME AccountsInv, NEW t \in Tab, NEW i \in Identity, authenticate(t, i)
    PROVE  AccountsInv'
<1> DEFINE new == [step |-> "byProvider", identity |-> i, number |-> logins + 1, user |-> NoUser]
<1>1. /\ logins' = logins + 1
      /\ login' = [login EXCEPT ![t] = new]
      /\ UNCHANGED <<users, owner, signedInAs>>
  BY DEF authenticate, tables
<1>2. AccountsType'
  BY <1>1 DEF AccountsInv, AccountsType, LoginType, LoginStep, InDataAccess, NoUser
<1>3. /\ \A x \in Tab : x # t => login'[x] = login[x]
      /\ login'[t].step = "byProvider" /\ login'[t].identity = i
      /\ login'[t].number = logins + 1 /\ login'[t].user = NoUser
  BY <1>1 DEF AccountsInv, AccountsType
<1>4. \A x \in Tab : login[x].number \in Nat /\ login[x].user \in Nat
  BY DEF AccountsInv, AccountsType, LoginType
<1>5. Numbering'
  BY <1>1, <1>3, <1>4 DEF AccountsInv, AccountsType, Numbering, NoUser
<1>6. KnowsItsUser(t)'
  BY <1>1, <1>3, <1>4 DEF AccountsInv, AccountsType, Numbering, KnowsItsUser, Unused, NoUser
<1>7. ASSUME NEW x \in Tab, x # t PROVE KnowsItsUser(x)'
  <2>1. Unused(login[x].number) => Unused(login[x].number)'
    BY <1>1, <1>3, <1>7 DEF Unused
  <2>. QED BY <1>1, <1>3, <1>7, <2>1 DEF KnowsItsUser, Owns, AccountsInv, LoginsKnowTheirUser
<1>. QED BY <1>1, <1>2, <1>5, <1>6, <1>7
         DEF AccountsInv, LoginsKnowTheirUser, SignedInToOwnAccount

\* The new user gets a number nobody has been signed in as.
LEMMA InsertUserKeepsAccounts ==
    ASSUME AccountsInv, NEW t \in Tab, insertUser(t)
    PROVE  AccountsInv'
<1>1. PICK n \in Nat : n = login[t].number
  BY DEF AccountsInv, AccountsType, LoginType
<1>2. /\ users' = users \cup {n}
      /\ login' = [login EXCEPT ![t].step = "provider", ![t].user = n]
      /\ UNCHANGED <<owner, logins, signedInAs>>
  BY <1>1 DEF insertUser, endWith
<1>3. Unused(n) /\ n <= logins /\ login[t].identity \in Identity
  BY <1>1 DEF insertUser, AccountsInv, LoginsKnowTheirUser, KnowsItsUser, Undecided, Numbering
<1>4. AccountsType'
  BY <1>2, <1>3 DEF AccountsInv, AccountsType, LoginType, LoginStep, InDataAccess, Unused
<1>5. /\ \A x \in Tab : x # t => login'[x] = login[x]
      /\ login'[t].step = "provider"
      /\ login'[t].user = n
      /\ \A x \in Tab : login'[x].identity = login[x].identity
      /\ \A x \in Tab : login'[x].number = login[x].number
  BY <1>2, LoginChanges DEF AccountsInv
<1>6. \A x \in Tab : login'[x].user <= logins
  BY <1>3, <1>5 DEF AccountsInv, Numbering
<1>7. Numbering'
  BY <1>2, <1>5, <1>6 DEF AccountsInv, AccountsType, Numbering
<1>8. ASSUME NEW x \in Tab, x # t PROVE KnowsItsUser(x)'
  <2>1. login'[x] = login[x] /\ KnowsItsUser(x)
    BY <1>5, <1>8 DEF AccountsInv, LoginsKnowTheirUser
  <2>2. login[x].user # n /\ n # 0 /\ login[x].number # n
    BY <1>1, <1>3, <1>8 DEF AccountsInv, Numbering, Unused, NoUser
  <2>3. Unused(login[x].number) => Unused(login[x].number)'
    BY <1>2, <1>5, <2>1, <2>2 DEF Unused
  <2>4. Owns(login[x].identity, login[x].user) => Owns(login[x].identity, login[x].user)'
    <3>1. users' = users \cup {n} /\ owner' = owner
      BY <1>2
    <3>. QED BY <2>1, <2>2, <3>1 DEF Owns
  <2>. QED BY <2>1, <2>3, <2>4, OthersKnowTheirUser
<1>9. KnowsItsUser(t)'
  BY <1>3, <1>5 DEF KnowsItsUser, Undecided
<1>10. SignedInToOwnAccount'
  BY <1>2, <1>3 DEF AccountsInv, SignedInToOwnAccount, Unused
<1>. QED BY <1>4, <1>7, <1>8, <1>9, <1>10 DEF AccountsInv, LoginsKnowTheirUser

\* An identity gets an owner only if it has none, so nobody loses one.
LEMMA InsertProviderKeepsAccounts ==
    ASSUME AccountsInv, NEW t \in Tab, insertProvider(t)
    PROVE  AccountsInv'
<1>1. PICK i \in Identity : i = login[t].identity
  BY DEF insertProvider, AccountsInv, LoginsKnowTheirUser, KnowsItsUser
<1>2. PICK u \in Nat : u = login[t].user /\ u <= logins
  BY DEF AccountsInv, AccountsType, LoginType, Numbering
<1>3. CASE owner[i] = NoUser
  <2>1. /\ login' = [login EXCEPT ![t].step = "email"]
        /\ owner' = [owner EXCEPT ![i] = u]
        /\ UNCHANGED <<users, logins, signedInAs>>
    BY <1>1, <1>2, <1>3 DEF insertProvider, goOn
  <2>2. AccountsType'
    BY <2>1 DEF AccountsInv, AccountsType, LoginType, LoginStep, InDataAccess
  <2>3. /\ \A x \in Tab : x # t => login'[x] = login[x]
        /\ login'[t].step = "email"
        /\ login'[t].user = u
        /\ \A x \in Tab : login'[x].identity = login[x].identity
        /\ \A x \in Tab : login'[x].number = login[x].number
    <3>1. login' = [login EXCEPT ![t].step = "email", ![t].user = u]
      BY <1>2, <2>1, StepIsChange DEF AccountsInv
    <3>. QED BY <3>1, LoginChanges DEF AccountsInv
  <2>4. \A x \in Tab : login'[x].user = login[x].user
    BY <1>2, <2>3
  <2>5. owner'[i] = u /\ \A j \in Identity : j # i => owner'[j] = owner[j]
    BY <2>1 DEF AccountsInv, AccountsType
  <2>6. Numbering'
    BY <1>2, <2>1, <2>3, <2>4, <2>5 DEF AccountsInv, Numbering
  <2>7. ASSUME NEW x \in Tab, x # t PROVE KnowsItsUser(x)'
    <3>1. login'[x] = login[x] /\ KnowsItsUser(x)
      BY <2>3, <2>7 DEF AccountsInv, LoginsKnowTheirUser
    <3>2. Unused(login[x].number) => Unused(login[x].number)'
      BY <1>2, <2>1, <2>4, <2>5, <3>1 DEF Unused
    <3>3. Owns(login[x].identity, login[x].user) => Owns(login[x].identity, login[x].user)'
      BY <1>3, <2>1, <2>5, <3>1 DEF Owns, AccountsInv, AccountsType
    <3>. QED BY <3>1, <3>2, <3>3, OthersKnowTheirUser
  <2>8. KnowsItsUser(t)'
    BY <1>1, <2>3, <2>5 DEF KnowsItsUser, Undecided, Owns
  <2>9. SignedInToOwnAccount'
    BY <1>3, <2>1, <2>5 DEF AccountsInv, AccountsType, SignedInToOwnAccount
  <2>. QED BY <2>2, <2>6, <2>7, <2>8, <2>9 DEF AccountsInv, LoginsKnowTheirUser
<1>4. CASE owner[i] # NoUser
  BY <1>1, <1>4, GoingOnKeepsAccounts DEF insertProvider, endWith, LoginStep, Undecided
<1>. QED BY <1>3, <1>4

LEMMA InsertEmailKeepsAccounts ==
    ASSUME AccountsInv, NEW t \in Tab, insertEmail(t)
    PROVE  AccountsInv'
<1>1. login[t].step = "email" /\ Owns(login[t].identity, login[t].user)
  BY DEF insertEmail, AccountsInv, LoginsKnowTheirUser, KnowsItsUser
<1>2. UNCHANGED <<users, owner, logins, signedInAs>>
  BY DEF insertEmail
<1>3. CASE goOn(t, "done")
  <2>1. login' = [login EXCEPT ![t].step = "done", ![t].user = login[t].user]
    BY <1>3, StepIsChange DEF goOn, AccountsInv
  <2>. QED BY <1>1, <1>2, <2>1, GoingOnKeepsAccounts DEF LoginStep, Undecided
<1>4. CASE endWith(t, "error", NoUser)
  <2>1. login' = [login EXCEPT ![t].step = "error", ![t].user = NoUser]
    BY <1>4 DEF endWith
  <2>2. "error" \in LoginStep /\ "error" \notin Undecided /\ "error" \notin {"email", "done"}
    BY DEF LoginStep, Undecided
  <2>. QED BY <1>1, <1>2, <2>1, <2>2, GoingOnKeepsAccounts
<1>. QED BY <1>3, <1>4 DEF insertEmail

\* The steps that only look, and a failure.
LEMMA LookKeepsAccounts ==
    ASSUME AccountsInv, NEW t \in Tab,
           \/ getAccountByProviderId(t) \/ getAccountByEmails(t)
           \/ createAccount(t) \/ loginFails(t)
    PROVE  AccountsInv'
<1>1. CASE loginFails(t)
  <2>1. /\ login' = [login EXCEPT ![t].step = "error", ![t].user = NoUser]
        /\ login[t].step # "off"
        /\ UNCHANGED <<users, owner, logins, signedInAs>>
    BY <1>1 DEF loginFails, endWith, tables, InDataAccess
  <2>2. "error" \in LoginStep /\ "error" \notin Undecided /\ "error" \notin {"email", "done"}
    BY DEF LoginStep, Undecided
  <2>. QED BY <2>1, <2>2, GoingOnKeepsAccounts
<1>2. CASE getAccountByProviderId(t)
  <2>1. login[t].identity \in Identity /\ login[t].step = "byProvider"
    BY <1>2 DEF getAccountByProviderId, AccountsInv, LoginsKnowTheirUser, KnowsItsUser
  <2>2. CASE owner[login[t].identity] # NoUser
    BY <1>2, <2>1, <2>2, GoingOnKeepsAccounts
       DEF getAccountByProviderId, endWith, tables, LoginStep, Undecided, Owns
  <2>3. CASE owner[login[t].identity] = NoUser
    <3>1. login' = [login EXCEPT ![t].step = "byEmail", ![t].user = login[t].user]
      BY <1>2, <2>3, StepIsChange DEF getAccountByProviderId, goOn, AccountsInv
    <3>2. UNCHANGED <<users, owner, logins, signedInAs>>
      BY <1>2 DEF getAccountByProviderId, tables
    <3>3. "byEmail" \in LoginStep /\ "byProvider" \in Undecided /\ "byEmail" \notin {"email", "done"}
      BY DEF LoginStep, InDataAccess, Undecided
    <3>. QED BY <2>1, <3>1, <3>2, <3>3, GoingOnKeepsAccounts
  <2>. QED BY <2>2, <2>3
<1>3. CASE getAccountByEmails(t) \/ createAccount(t)
  <2>1. PICK step \in {"refused", "post", "user", "error"} : goOn(t, step)
    BY <1>3 DEF getAccountByEmails, createAccount
  <2>2. login' = [login EXCEPT ![t].step = step, ![t].user = login[t].user]
    BY <2>1, StepIsChange DEF goOn, AccountsInv
  <2>3. login[t].step \in {"byEmail", "post"} /\ UNCHANGED <<users, owner, logins, signedInAs>>
    BY <1>3 DEF getAccountByEmails, createAccount, tables
  <2>. QED BY <2>2, <2>3, GoingOnKeepsAccounts DEF LoginStep, InDataAccess, Undecided
<1>. QED BY <1>1, <1>2, <1>3

LEMMA LoginKeepsAccounts ==
    ASSUME AccountsInv, NEW t \in Tab, Login(t) \/ loginFails(t)
    PROVE  AccountsInv'
BY LookKeepsAccounts, InsertUserKeepsAccounts, InsertProviderKeepsAccounts,
   InsertEmailKeepsAccounts DEF Login

\* The end of a login: whoever signs in owns the account.
LEMMA RedirectKeepsAccounts ==
    ASSUME AccountsInv, NEW t \in Tab, redirect(t)
    PROVE  AccountsInv'
<1>1. PICK i \in Identity : i = login[t].identity
  BY DEF redirect, AccountsInv, LoginsKnowTheirUser, KnowsItsUser
<1>2. PICK u \in Nat : u = login[t].user /\ u <= logins
  BY DEF AccountsInv, AccountsType, LoginType, Numbering
<1>3. /\ UNCHANGED <<users, owner, logins>>
      /\ login' = [login EXCEPT ![t] = Nobody]
  BY DEF redirect, sendIdentify, tables, untouched
<1>4. /\ \A x \in Tab : x # t => login'[x] = login[x]
      /\ login'[t] = Nobody
  BY <1>3 DEF AccountsInv, AccountsType
<1>5. \/ UNCHANGED signedInAs
      \/ Owns(i, u) /\ signedInAs' = [signedInAs EXCEPT ![i] = u]
  BY <1>1, <1>2 DEF redirect, AccountsInv, LoginsKnowTheirUser, KnowsItsUser
<1>6. \A j \in Identity : signedInAs'[j] = signedInAs[j] \/ (signedInAs'[j] = u /\ Owns(j, u))
  BY <1>5 DEF AccountsInv, AccountsType
<1>7. AccountsType'
  BY <1>2, <1>3, <1>5
     DEF AccountsInv, AccountsType, LoginType, LoginStep, Nobody, NoUser
<1>8. \A x \in Tab : /\ login'[x].user = login[x].user \/ login'[x].user = 0
                     /\ login'[x].number = login[x].number \/ login'[x].number = 0
  BY <1>4 DEF Nobody, NoUser
<1>9. Numbering'
  <2>1. owner' = owner /\ logins' = logins /\ logins \in Nat
    BY <1>3 DEF AccountsInv, AccountsType
  <2>2. \A j \in Identity : owner'[j] <= logins' /\ signedInAs'[j] <= logins'
    BY <1>2, <1>6, <2>1 DEF AccountsInv, Numbering
  <2>3. \A x \in Tab : login'[x].number <= logins' /\ login'[x].user <= logins'
    BY <1>8, <2>1 DEF AccountsInv, Numbering
  <2>4. \A x, y \in Tab : x # y /\ login'[x].number = login'[y].number => login'[x].number = 0
    BY <1>8 DEF AccountsInv, Numbering
  <2>. QED BY <2>2, <2>3, <2>4 DEF Numbering
<1>10. ASSUME NEW x \in Tab, x # t PROVE KnowsItsUser(x)'
  <2>1. login'[x] = login[x] /\ KnowsItsUser(x)
    BY <1>4, <1>10 DEF AccountsInv, LoginsKnowTheirUser
  <2>2. Unused(login[x].number) => Unused(login[x].number)'
    <3>1. ASSUME NEW n, Unused(n), n = login[x].number
          PROVE  /\ \A j \in Identity : owner'[j] # n /\ signedInAs'[j] # n
                 /\ \A y \in Tab : login'[y].user # n
      BY <1>2, <1>3, <1>6, <1>8, <3>1 DEF Unused, NoUser
    <3>. QED BY <2>1, <3>1 DEF Unused
  <2>3. Owns(login[x].identity, login[x].user) => Owns(login[x].identity, login[x].user)'
    <3>1. users' = users /\ owner' = owner
      BY <1>3
    <3>. QED BY <2>1, <3>1 DEF Owns
  <2>. QED BY <2>1, <2>2, <2>3, OthersKnowTheirUser
<1>11. KnowsItsUser(t)'
  BY <1>4 DEF KnowsItsUser, Nobody, Undecided
<1>12. SignedInToOwnAccount'
  <2>1. users' = users /\ owner' = owner
    BY <1>3
  <2>. QED BY <1>6, <2>1 DEF AccountsInv, SignedInToOwnAccount, Owns
<1>. QED BY <1>7, <1>9, <1>10, <1>11, <1>12 DEF AccountsInv, LoginsKnowTheirUser

\* A page asks for its user or deletes it, and waits for no login.
LEMMA PageKeepsAccounts ==
    ASSUME AccountsInv, NEW t \in Tab, load(t) \/ deleteAccount(t) \/ Page(t)
    PROVE  AccountsInv'
<1>1. UNCHANGED <<logins, login, signedInAs>>
  BY DEF load, deleteAccount, Page, receive, refreshed, untouched
<1>2. UNCHANGED tables \/ \E u : deleteUser(u)
  BY DEF load, deleteAccount, Page, receive, refreshed, succeeds, isUnauthorized, fails, settle,
         send, sendDelete, sendIdentify, sendRefresh
<1>3. CASE UNCHANGED tables
  BY <1>1, <1>3, NothingKeepsAccounts DEF tables
<1>4. CASE \E u : deleteUser(u)
  BY <1>1, <1>4, DeletionKeepsAccounts
<1>. QED BY <1>2, <1>3, <1>4

LEMMA NextKeepsAccounts == AccountsInv /\ [Next]_vars => AccountsInv'
<1> SUFFICES ASSUME AccountsInv, [Next]_vars PROVE AccountsInv'
  OBVIOUS
<1>1. ASSUME NEW t \in Tab, load(t) \/ deleteAccount(t) \/ Page(t) PROVE AccountsInv'
  BY <1>1, PageKeepsAccounts
<1>2. ASSUME NEW t \in Tab, InDataAccessStep(t) PROVE AccountsInv'
  BY <1>2, LoginKeepsAccounts DEF InDataAccessStep
<1>3. ASSUME NEW t \in Tab, redirect(t) PROVE AccountsInv'
  BY <1>3, RedirectKeepsAccounts
<1>4. ASSUME NEW t \in Tab, NEW i \in Identity, signIn(t, i) PROVE AccountsInv'
  BY <1>4, AuthenticateKeepsAccounts DEF signIn
<1>5. ASSUME NEW t \in Tab, signOut(t) \/ signedOut(t) \/ lose(t) PROVE AccountsInv'
  BY <1>5, NothingKeepsAccounts DEF signOut, signedOut, lose, accountVars, tables
<1>6. ASSUME accessExpires \/ refreshExpires \/ UNCHANGED vars PROVE AccountsInv'
  BY <1>6, NothingKeepsAccounts DEF accessExpires, refreshExpires, vars, accountVars, tables
<1>. QED BY <1>1, <1>2, <1>3, <1>4, <1>5, <1>6 DEF Next

\* Whoever has signed in finds the account again until it is deleted: loginOrCreateAccount
\* (id_providers/main.ts) and the inserts of UserSerializer, however many first logins of
\* one identity or address overlap or fail half-way.
THEOREM OwnAccount == Spec => []SignedInToOwnAccount
<1>1. AccountsInv => SignedInToOwnAccount
  BY DEF AccountsInv
<1>. QED BY <1>1, InitAccounts, NextKeepsAccounts, PTL DEF Spec

-----------------------------------------------------------------------------
(* The cookies.  Unless an answer that writes them was overtaken, every    *)
(* refresh under way is for the user the refresh token speaks for, and     *)
(* there is none when nobody is signed in.                                 *)

RequestType ==
    [what : {"none", "identify", "delete"}, step : {"none", "asked", "refreshing"}, n : Nat,
     status : {"none", "ok", "unauthorized", "failed"}, sub : Nat]
TokenType == [sub : Nat, live : BOOLEAN]

CookiesType ==
    /\ request \in [Tab -> RequestType]
    /\ access \in TokenType
    /\ refresh \in TokenType
    /\ ended \in {"none", "in", "out", "mixed"}

\* What answer q may do to the cookies: nothing, or bring back the signed-in user.
Harmless(q) ==
    q.step = "refreshing" /\ q.status = "ok" => ended = "in" /\ q.sub = refresh.sub

CookiesInv ==
    /\ CookiesType
    /\ ended \in {"none", "out"} => access = NoToken /\ refresh = NoToken
    /\ ended = "in" => access.sub = refresh.sub
    /\ ended # "mixed" => \A t \in Tab : Harmless(request[t])

LEMMA InitCookies == Init => CookiesInv
BY DEF Init, CookiesInv, CookiesType, Harmless, RequestType, TokenType, Quiet, NoToken, NoUser

\* What a tab may send: an answer that was not made of the refresh token, or one that was.
Sendable(q) ==
    /\ q \in RequestType
    /\ q.step = "refreshing" /\ q.status = "ok" => refresh.live /\ q.sub = refresh.sub

LEMMA SendingKeepsCookies ==
    ASSUME CookiesInv, NEW t \in Tab, NEW q, Sendable(q), request' = [request EXCEPT ![t] = q],
           refresh' = refresh, ended' = ended,
           access' \in TokenType,
           access' # access => ended \in {"in", "mixed"},
           ended = "in" => access'.sub = refresh.sub
    PROVE  CookiesInv'
<1>1. CookiesType'
  BY DEF CookiesInv, CookiesType, Sendable
<1>2. \A x \in Tab : request'[x] = request[x] \/ request'[x] = q
  BY DEF CookiesInv, CookiesType
<1>3. ended # "mixed" => Harmless(q)
  <2>1. refresh.live => refresh # NoToken
    BY DEF NoToken
  <2>. QED BY <2>1 DEF CookiesInv, CookiesType, Sendable, Harmless
<1>4. ended # "mixed" => \A x \in Tab : Harmless(request[x])'
  BY <1>2, <1>3 DEF CookiesInv, Harmless
<1>5. ended \in {"none", "out"} => access' = NoToken /\ refresh' = NoToken
  BY DEF CookiesInv
<1>. QED BY <1>1, <1>4, <1>5 DEF CookiesInv, NoToken

LEMMA IdentifyIsSendable ==
    ASSUME AccountsInv, NEW token \in TokenType, NEW n \in Nat
    PROVE  Sendable(identify_get(token, n))
BY DEF identify_get, Sendable, RequestType, TokenType, NoUser

LEMMA RefreshIsSendable ==
    ASSUME CookiesInv, NEW t \in Tab, NEW n \in Nat
    PROVE  Sendable(refresh_get(t, n))
<1>1. request[t] \in RequestType /\ refresh \in TokenType
  BY DEF CookiesInv, CookiesType
<1>. QED BY <1>1 DEF refresh_get, Sendable, RequestType, TokenType, verify, NoUser

LEMMA DeleteIsSendable ==
    ASSUME NEW t \in Tab, NEW token, NEW n \in Nat, sendDelete(t, token, n)
    PROVE  \E q : Sendable(q) /\ request' = [request EXCEPT ![t] = q]
<1> DEFINE allowed == verify(token) /\ token.sub = user[t] /\ token.sub \in users
           status == IF allowed THEN "ok" ELSE IF verify(token) THEN "failed" ELSE "unauthorized"
           q == [what |-> "delete", step |-> "asked", n |-> n, status |-> status, sub |-> NoUser]
<1>1. status \in {"ok", "failed", "unauthorized"}
  OBVIOUS
<1>2. request' = [request EXCEPT ![t] = q]
  BY DEF sendDelete
<1> HIDE DEF status
<1>3. Sendable(q)
  BY <1>1 DEF Sendable, RequestType, NoUser
<1>. QED BY <1>2, <1>3

Sends(t) == \E q : Sendable(q) /\ request' = [request EXCEPT ![t] = q]

LEMMA PageSends ==
    ASSUME AccountsInv, CookiesInv, NEW t \in Tab,
           load(t) \/ deleteAccount(t) \/ Page(t) \/ redirect(t), access' \in TokenType
    PROVE  Sends(t)
<1>1. /\ access \in TokenType /\ request[t].n \in Nat
      /\ request[t].n + 1 \in Nat /\ 1 \in Nat /\ 2 \in Nat
  BY DEF CookiesInv, CookiesType, RequestType
<1>2. ASSUME NEW token \in TokenType, NEW n \in Nat, sendIdentify(t, token, n) PROVE Sends(t)
  BY <1>2, IdentifyIsSendable DEF sendIdentify, Sends
<1>3. ASSUME NEW token, NEW n \in Nat, sendDelete(t, token, n) PROVE Sends(t)
  BY <1>3, DeleteIsSendable DEF Sends
<1>4. ASSUME NEW n \in Nat, sendRefresh(t, n) PROVE Sends(t)
  BY <1>4, RefreshIsSendable DEF sendRefresh, Sends
<1>5. ASSUME settle(t) PROVE Sends(t)
  BY <1>5 DEF settle, Sends, Sendable, Quiet, RequestType, NoUser
<1>6. CASE load(t) \/ deleteAccount(t)
  BY <1>1, <1>2, <1>3, <1>6 DEF load, deleteAccount
<1>7. CASE receive(t)
  BY <1>1, <1>2, <1>4, <1>5, <1>7 DEF receive, succeeds, isUnauthorized, fails
<1>8. CASE refreshed(t)
  <2>1. CASE request[t].status = "ok"
    <3>1. send(t, access', request[t].n + 1)
      BY <1>8, <2>1 DEF refreshed
    <3>2. PICK token \in TokenType : token = access'
      OBVIOUS
    <3>3. sendDelete(t, token, request[t].n + 1) \/ sendIdentify(t, token, request[t].n + 1)
      BY <3>1, <3>2 DEF send
    <3>. QED BY <1>1, <1>2, <1>3, <3>3
  <2>2. CASE request[t].status # "ok"
    BY <1>1, <1>4, <1>5, <1>8, <2>2 DEF refreshed
  <2>. QED BY <2>1, <2>2
<1>9. CASE redirect(t)
  <2>1. PICK token \in TokenType : token = access'
    OBVIOUS
  <2>2. sendIdentify(t, token, 1)
    BY <1>9, <2>1 DEF redirect
  <2>. QED BY <1>1, <1>2, <2>2
<1>. QED BY <1>6, <1>7, <1>8, <1>9 DEF Page

LEMMA NextKeepsCookies == AccountsInv /\ CookiesInv /\ [Next]_vars => CookiesInv'
<1> SUFFICES ASSUME AccountsInv, CookiesInv, [Next]_vars PROVE CookiesInv'
  OBVIOUS
<1>1. CookiesType
  BY DEF CookiesInv
<1>2. ASSUME NEW t \in Tab, load(t) \/ deleteAccount(t) \/ receive(t) PROVE CookiesInv'
  <2>1. UNCHANGED cookies
    BY <1>2 DEF load, deleteAccount, receive
  <2>2. access' \in TokenType
    BY <1>1, <2>1 DEF cookies, CookiesType
  <2>3. Sends(t)
    BY <1>2, <2>2, PageSends DEF Page
  <2>. QED BY <2>1, <2>2, <2>3, SendingKeepsCookies DEF Sends, cookies, CookiesInv
\* The answer to a refresh gives an access token to the user the refresh token is for.
<1>3. ASSUME NEW t \in Tab, refreshed(t) PROVE CookiesInv'
  <2>1. request[t] \in RequestType
    BY <1>1 DEF CookiesType
  <2>2. /\ refresh' = refresh /\ ended' = ended
        /\ \/ access' = access
           \/ /\ request[t].step = "refreshing" /\ request[t].status = "ok"
              /\ access' = tokenFor(request[t].sub)
    BY <1>3 DEF refreshed
  <2>3. access' \in TokenType /\ (access' = access \/ access'.sub = request[t].sub)
    <3>1. CASE access' = access
      BY <1>1, <3>1 DEF CookiesType
    <3>2. CASE access' = tokenFor(request[t].sub)
      <4>1. request[t].sub \in Nat
        BY <2>1 DEF RequestType
      <4>. QED BY <3>2, <4>1 DEF TokenType, tokenFor
    <3>. QED BY <2>2, <3>1, <3>2
  <2>4. Sends(t)
    BY <1>3, <2>3, PageSends DEF Page
  <2>5. access' # access => ended \in {"in", "mixed"}
    BY <1>1, <2>2 DEF CookiesInv, Harmless, CookiesType
  <2>6. ended = "in" => access'.sub = refresh.sub
    BY <2>2, <2>3 DEF CookiesInv, Harmless
  <2>. QED BY <2>2, <2>3, <2>4, <2>5, <2>6, SendingKeepsCookies DEF Sends
<1>4. ASSUME NEW t \in Tab, signedOut(t) PROVE CookiesInv'
  <2>1. /\ access' = NoToken /\ refresh' = NoToken
        /\ request' = request
        /\ ended' = IF othersWrite(t) \/ writes(t) THEN "mixed" ELSE "out"
    BY <1>4 DEF signedOut, clearCookies
  <2>2. NoToken \in TokenType
    BY DEF NoToken, TokenType, NoUser
  <2>3. ended' = "out" => \A x \in Tab : ~(request[x].step = "refreshing" /\ request[x].status = "ok")
    BY <2>1 DEF othersWrite, writes
  <2>4. ended' # "mixed" => \A x \in Tab : Harmless(request[x])'
    BY <2>1, <2>3 DEF Harmless
  <2>. QED BY <1>1, <2>1, <2>2, <2>4 DEF CookiesInv, CookiesType
<1>5. ASSUME NEW t \in Tab, redirect(t) PROVE CookiesInv'
  <2>1. CASE login[t].step = "done"
    <3>1. /\ access' = tokenFor(login[t].user) /\ refresh' = tokenFor(login[t].user)
          /\ ended' = IF othersWrite(t) THEN "mixed" ELSE "in"
      BY <1>5, <2>1 DEF redirect, handleSignIn
    <3>2. login[t].user \in Nat
      BY DEF AccountsInv, AccountsType, LoginType
    <3>3. access' \in TokenType /\ refresh' \in TokenType /\ access'.sub = refresh'.sub
      BY <3>1, <3>2 DEF tokenFor, TokenType
    <3>4. PICK q : Sendable(q) /\ request' = [request EXCEPT ![t] = q]
      BY <1>5, <3>3, PageSends DEF Sends
    <3>5. request'[t].step = "asked"
      BY <1>1, <1>5 DEF redirect, sendIdentify, identify_get, CookiesType
    <3>6. ended' # "mixed" => \A x \in Tab : Harmless(request[x])'
      <4>1. ASSUME NEW x \in Tab, x # t, ended' # "mixed"
            PROVE  ~(request'[x].step = "refreshing" /\ request'[x].status = "ok")
        BY <1>1, <3>1, <3>4, <4>1 DEF othersWrite, writes, CookiesType
      <4>. QED BY <3>5, <4>1 DEF Harmless
    <3>7. CookiesType'
      BY <1>1, <3>1, <3>3, <3>4 DEF CookiesType, Sendable
    <3>. QED BY <3>1, <3>3, <3>6, <3>7 DEF CookiesInv
  <2>2. CASE login[t].step # "done"
    <3>1. UNCHANGED cookies
      BY <1>5, <2>2 DEF redirect
    <3>2. access' \in TokenType
      BY <1>1, <3>1 DEF cookies, CookiesType
    <3>3. Sends(t)
      BY <1>5, <3>2, PageSends
    <3>. QED BY <3>1, <3>2, <3>3, SendingKeepsCookies DEF Sends, cookies, CookiesInv
  <2>. QED BY <2>1, <2>2
<1>6. ASSUME NEW t \in Tab, lose(t) PROVE CookiesInv'
  <2>1. UNCHANGED cookies
    BY <1>6 DEF lose
  <2>2. \A x \in Tab : request'[x] = request[x] \/ request'[x].status = "failed"
    <3>1. CASE request' = request
      BY <3>1
    <3>2. CASE request' = [request EXCEPT ![t].status = "failed", ![t].sub = NoUser]
      BY <1>1, <3>2 DEF CookiesType, RequestType
    <3>. QED BY <1>6, <3>1, <3>2 DEF lose
  <2>3. request' \in [Tab -> RequestType]
    BY <1>1, <1>6 DEF lose, CookiesType, RequestType, NoUser
  <2>. QED BY <2>1, <2>2, <2>3 DEF cookies, CookiesInv, CookiesType, Harmless
<1>7. ASSUME accessExpires \/ refreshExpires PROVE CookiesInv'
  <2>1. ended \notin {"none", "out"} /\ request' = request /\ ended' = ended
    BY <1>7 DEF accessExpires, refreshExpires, CookiesInv, NoToken
  <2>2. access' \in TokenType /\ refresh' \in TokenType
    BY <1>1, <1>7 DEF accessExpires, refreshExpires, CookiesType, TokenType
  <2>3. access'.sub = access.sub /\ refresh'.sub = refresh.sub
    BY <1>1, <1>7 DEF accessExpires, refreshExpires, CookiesType, TokenType
  <2>. QED BY <2>1, <2>2, <2>3 DEF CookiesInv, CookiesType, Harmless
<1>8. ASSUME \/ \E t \in Tab : \/ signOut(t) \/ InDataAccessStep(t)
                               \/ \E i \in Identity : signIn(t, i)
             \/ UNCHANGED vars
      PROVE  CookiesInv'
  <2>1. UNCHANGED <<access, refresh, ended, request>>
    BY <1>8 DEF signOut, InDataAccessStep, signIn, browserVars, vars, cookies
  <2>. QED BY <2>1 DEF CookiesInv, CookiesType, Harmless
<1>. QED BY <1>2, <1>3, <1>4, <1>5, <1>6, <1>7, <1>8 DEF Next, Page

\* The two cookies speak for one user (handleSignIn, refresh_get of auth.ts), in any number
\* of tabs, if no other answer was on its way when the last login or sign-out arrived.
THEOREM OneUser == Spec => []OneUserPerBrowser
<1>1. CookiesInv => OneUserPerBrowser
  BY DEF CookiesInv, CookiesType, OneUserPerBrowser
<1>. QED BY <1>1, InitAccounts, NextKeepsAccounts, InitCookies, NextKeepsCookies, PTL DEF Spec

\* Nothing brings a token back after a sign-out (sign_out_get clears both cookies), with
\* the same premise.
THEOREM SignedOutForGood == Spec => []SignOutLasts
<1>1. CookiesInv => SignOutLasts
  BY DEF CookiesInv, SignOutLasts
<1>. QED BY <1>1, InitAccounts, NextKeepsAccounts, InitCookies, NextKeepsCookies, PTL DEF Spec

-----------------------------------------------------------------------------
(* Whole accounts.  Until logins with one address overlap or one fails     *)
(* half-way, an identity and an address that a login found free stay free  *)
(* until it takes them.                                                    *)

Alone ==
    \A t, x \in Tab :
        /\ t # x
        /\ login[t].step \in InDataAccess
        /\ login[x].step \in InDataAccess
        => emailIn(t) # emailIn(x)

Free(t) ==
    /\ login[t].step \in {"user", "provider"} => owner[login[t].identity] = NoUser
    /\ login[t].step \in {"user", "provider", "email"} => mailbox[emailIn(t)] = NoUser

Creating(t, u) == login[t].step \in {"provider", "email"} /\ login[t].user = u
Found(u) == \E i \in Identity : owner[i] = u /\ mailbox[emailOf[i]] = u
Whole == \A u \in users : (\E t \in Tab : Creating(t, u)) \/ Found(u)

WholeInv ==
    /\ mailbox \in [Email -> Nat]
    /\ ~overlapped => Alone /\ (\A t \in Tab : Free(t)) /\ Whole

LEMMA InitWhole == Init => WholeInv
BY DEF Init, AccountsInit, WholeInv, Alone, Free, Whole, Nobody, InDataAccess, NoUser

\* A login that is not in data access any more may go, and users may be deleted.
LEMMA RestKeepsWhole ==
    ASSUME AccountsInv, WholeInv, UNCHANGED overlapped,
           UNCHANGED tables \/ \E u : deleteUser(u),
           \A x \in Tab : \/ login'[x] = login[x]
                          \/ login[x].step \notin InDataAccess /\ login'[x] = Nobody
    PROVE  WholeInv'
<1>1. /\ \A i \in Identity : owner'[i] = owner[i] \/ owner'[i] = NoUser
      /\ \A e \in Email : mailbox'[e] = mailbox[e] \/ mailbox'[e] = NoUser
      /\ mailbox' \in [Email -> Nat]
      /\ \A u \in users' : u \in users /\ (\A i \in Identity : owner[i] = u => owner'[i] = u)
                                       /\ (\A e \in Email : mailbox[e] = u => mailbox'[e] = u)
  BY DEF deleteUser, tables, WholeInv, NoUser, AccountsInv, AccountsType
<1>2. \A x \in Tab : login'[x].step \in InDataAccess => login'[x] = login[x]
  BY DEF Nobody, InDataAccess
<1> SUFFICES ASSUME ~overlapped PROVE Alone' /\ (\A t \in Tab : Free(t))' /\ Whole'
  BY <1>1 DEF WholeInv
<1>3. Alone /\ (\A t \in Tab : Free(t)) /\ Whole
  BY DEF WholeInv
<1>4. Alone'
  BY <1>2, <1>3 DEF Alone, emailIn
<1>5. ASSUME NEW t \in Tab PROVE Free(t)'
  <2>1. CASE login'[t].step \in InDataAccess
    <3>1. login'[t] = login[t] /\ Free(t)
      BY <1>2, <1>3, <2>1
    <3>2. login[t].step # "off" => login[t].identity \in Identity
      BY DEF AccountsInv, LoginsKnowTheirUser, KnowsItsUser
    <3>3. login[t].identity \in Identity => emailOf[login[t].identity] \in Email
      BY DEF AccountsAssumption
    <3>. QED BY <1>1, <2>1, <3>1, <3>2, <3>3 DEF Free, emailIn, InDataAccess
  <2>2. CASE login'[t].step \notin InDataAccess
    BY <2>2 DEF Free, InDataAccess
  <2>. QED BY <2>1, <2>2
<1>6. ASSUME NEW u \in users' PROVE (\E t \in Tab : Creating(t, u))' \/ Found(u)'
  <2>1. u \in users
    BY <1>1
  <2>2. CASE \E t \in Tab : Creating(t, u)
    <3>1. PICK t \in Tab : Creating(t, u)
      BY <2>2
    <3>2. login'[t] = login[t]
      BY <3>1 DEF Creating, InDataAccess
    <3>. QED BY <3>1, <3>2 DEF Creating
  <2>3. CASE Found(u)
    BY <1>1, <2>3 DEF Found, AccountsAssumption
  <2>. QED BY <1>3, <2>1, <2>2, <2>3 DEF Whole
<1>. QED BY <1>4, <1>5, <1>6 DEF Whole

\* A login that starts is alone with its address.
LEMMA AuthenticateKeepsWhole ==
    ASSUME AccountsInv, WholeInv, NEW t \in Tab, NEW i \in Identity, authenticate(t, i)
    PROVE  WholeInv'
<1>1. /\ login[t] = Nobody
      /\ \A x \in Tab : x # t => login'[x] = login[x]
      /\ login'[t].step = "byProvider" /\ login'[t].identity = i
      /\ UNCHANGED tables
  BY DEF authenticate, AccountsInv, AccountsType
<1> SUFFICES ASSUME ~overlapped' PROVE Alone' /\ (\A x \in Tab : Free(x))' /\ Whole'
  BY <1>1 DEF WholeInv, tables
<1>2. ~overlapped /\ \A x \in Tab : login[x].step \in InDataAccess => emailIn(x) # emailOf[i]
  BY DEF authenticate, overlaps
<1>3. Alone'
  BY <1>1, <1>2 DEF WholeInv, Alone, emailIn
<1>4. (\A x \in Tab : Free(x))'
  BY <1>1, <1>2 DEF WholeInv, Free, emailIn, tables
<1>5. Whole'
  BY <1>1, <1>2 DEF WholeInv, Whole, Creating, Found, tables, Nobody
<1>. QED BY <1>3, <1>4, <1>5

\* While a login takes a step the others stand still, and have other addresses.
Apart(t, i, step, u) ==
    /\ Alone'
    /\ \A x \in Tab : x # t => Free(x)' /\ login'[x] = login[x]
    /\ login'[t].step = step /\ login'[t].user = u /\ login'[t].identity = i

LEMMA OthersStayFree ==
    ASSUME AccountsInv, WholeInv, ~overlapped, NEW t \in Tab, login[t].step \in InDataAccess,
           NEW i \in Identity, i = login[t].identity, NEW step, NEW u,
           login' = [login EXCEPT ![t].step = step, ![t].user = u],
           \A j \in Identity : j # i => owner'[j] = owner[j],
           \A e \in Email : e # emailOf[i] => mailbox'[e] = mailbox[e]
    PROVE  Apart(t, i, step, u)
<1>1. /\ \A x \in Tab : x # t => login'[x] = login[x]
      /\ login'[t].step = step
      /\ login'[t].user = u
      /\ \A x \in Tab : login'[x].identity = login[x].identity
      /\ \A x \in Tab : login'[x].number = login[x].number
  BY LoginChanges DEF AccountsInv
<1>2. Alone /\ \A x \in Tab : Free(x)
  BY DEF WholeInv
<1>3. \A x \in Tab : login'[x].step \in InDataAccess => login[x].step \in InDataAccess
  BY <1>1
<1>4. Alone'
  <2> SUFFICES ASSUME NEW y \in Tab, NEW x \in Tab, y # x, login'[y].step \in InDataAccess,
                      login'[x].step \in InDataAccess
               PROVE  emailOf[login'[y].identity] # emailOf[login'[x].identity]
    BY DEF Alone, emailIn
  <2>1. emailOf[login[y].identity] # emailOf[login[x].identity]
    BY <1>2, <1>3 DEF Alone, emailIn
  <2>. QED BY <1>1, <2>1
<1>5. ASSUME NEW x \in Tab, x # t PROVE Free(x)'
  <2>1. login'[x] = login[x] /\ Free(x)
    BY <1>1, <1>2, <1>5
  <2>2. CASE login[x].step \in InDataAccess
    <3>1. PICK j \in Identity : j = login[x].identity
      BY <2>2 DEF AccountsInv, LoginsKnowTheirUser, KnowsItsUser, InDataAccess
    <3>2. emailOf[j] # emailOf[i] /\ emailOf[j] \in Email
      BY <1>2, <1>5, <2>2, <3>1 DEF Alone, emailIn, AccountsAssumption
    <3>3. owner'[j] = owner[j] /\ mailbox'[emailOf[j]] = mailbox[emailOf[j]]
      BY <3>2
    <3>. QED BY <2>1, <3>1, <3>3 DEF Free, emailIn
  <2>3. CASE login[x].step \notin InDataAccess
    BY <2>1, <2>3 DEF Free, InDataAccess
  <2>. QED BY <2>2, <2>3
<1>6. login'[t].identity = i
  BY <1>1
<1>. QED BY <1>1, <1>4, <1>5, <1>6 DEF Apart

\* The steps that only look: what is posted was found free.
LEMMA LookKeepsWhole ==
    ASSUME AccountsInv, WholeInv, ~overlapped', NEW t \in Tab,
           \/ getAccountByProviderId(t) \/ getAccountByEmails(t)
           \/ createAccount(t) \/ loginFails(t)
    PROVE  Alone' /\ (\A x \in Tab : Free(x))' /\ Whole'
<1>1. /\ login[t].step \in InDataAccess
      /\ UNCHANGED <<users, owner, mailbox>>
  BY DEF getAccountByProviderId, getAccountByEmails, createAccount, loginFails, tables, InDataAccess
<1>2. ~overlapped /\ login[t].step \notin {"provider", "email"}
  <2>1. CASE loginFails(t)
    BY <2>1 DEF loginFails
  <2>2. CASE getAccountByProviderId(t) \/ getAccountByEmails(t) \/ createAccount(t)
    <3>1. UNCHANGED overlapped /\ login[t].step \in {"byProvider", "byEmail", "post"}
      BY <2>2 DEF getAccountByProviderId, getAccountByEmails, createAccount
    <3>. QED BY <3>1
  <2>. QED BY <2>1, <2>2
<1>3. PICK i \in Identity : i = login[t].identity
  BY <1>1 DEF AccountsInv, LoginsKnowTheirUser, KnowsItsUser, InDataAccess
<1>4. PICK step, u :
        /\ login' = [login EXCEPT ![t].step = step, ![t].user = u]
        /\ step \notin {"provider", "email"}
        /\ step = "user" => owner[i] = NoUser /\ mailbox[emailOf[i]] = NoUser
  <2>1. CASE \E step \in {"byEmail", "refused", "post", "error"} : goOn(t, step)
    <3>1. PICK step \in {"byEmail", "refused", "post", "error"} : goOn(t, step)
      BY <2>1
    <3>2. login' = [login EXCEPT ![t].step = step, ![t].user = login[t].user]
      BY <3>1, StepIsChange DEF goOn, AccountsInv
    <3>. QED BY <3>2
  <2>2. CASE \E step \in {"done", "error"} : \E u : endWith(t, step, u)
    BY <2>2 DEF endWith
  <2>3. CASE goOn(t, "user") /\ owner[i] = NoUser /\ mailbox[emailOf[i]] = NoUser
    <3>1. login' = [login EXCEPT ![t].step = "user", ![t].user = login[t].user]
      BY <2>3, StepIsChange DEF goOn, AccountsInv
    <3>2. "user" \notin {"provider", "email"}
      OBVIOUS
    <3>. QED BY <2>3, <3>1, <3>2
  <2>4. getAccountByProviderId(t) =>
            goOn(t, "byEmail") \/ endWith(t, "done", owner[login[t].identity])
    BY DEF getAccountByProviderId
  <2>5. getAccountByEmails(t) => goOn(t, "refused") \/ goOn(t, "post")
    BY DEF getAccountByEmails
  <2>6. createAccount(t) =>
            \/ goOn(t, "error")
            \/ goOn(t, "user") /\ owner[i] = NoUser /\ mailbox[emailOf[i]] = NoUser
    BY <1>3 DEF createAccount, emailIn
  <2>7. loginFails(t) => endWith(t, "error", NoUser)
    BY DEF loginFails
  <2>. QED BY <2>1, <2>2, <2>3, <2>4, <2>5, <2>6, <2>7
<1>5. /\ \A j \in Identity : j # i => owner'[j] = owner[j]
      /\ \A e \in Email : e # emailOf[i] => mailbox'[e] = mailbox[e]
  BY <1>1
<1>6. Apart(t, i, step, u)
  BY <1>1, <1>2, <1>3, <1>4, <1>5, OthersStayFree
<1>7. Free(t)'
  BY <1>1, <1>4, <1>6 DEF Apart, Free, emailIn
<1>8. Whole'
  <2>1. Whole
    BY <1>2 DEF WholeInv
  <2>2. \A x \in Tab : \A v : Creating(x, v) => Creating(x, v)'
    BY <1>2, <1>6 DEF Apart, Creating
  <2>. QED BY <1>1, <2>1, <2>2 DEF Whole, Found
<1>. QED BY <1>6, <1>7, <1>8 DEF Apart

\* The inserts: a user is being created until the identity and the address are its own.
LEMMA InsertUserKeepsWhole ==
    ASSUME AccountsInv, WholeInv, ~overlapped', NEW t \in Tab, insertUser(t)
    PROVE  Alone' /\ (\A x \in Tab : Free(x))' /\ Whole'
<1>1. ~overlapped /\ login[t].step = "user" /\ UNCHANGED <<owner, mailbox>>
  BY DEF insertUser
<1>2. PICK i \in Identity : i = login[t].identity
  BY <1>1 DEF AccountsInv, LoginsKnowTheirUser, KnowsItsUser
<1>3. PICK n : n = login[t].number
  OBVIOUS
<1>4. login' = [login EXCEPT ![t].step = "provider", ![t].user = n] /\ users' = users \cup {n}
  BY <1>3 DEF insertUser, endWith
<1>5. Apart(t, i, "provider", n)
  <2>1. /\ \A j \in Identity : j # i => owner'[j] = owner[j]
        /\ \A e \in Email : e # emailOf[i] => mailbox'[e] = mailbox[e]
    BY <1>1
  <2>2. login[t].step \in InDataAccess
    BY <1>1 DEF InDataAccess
  <2>. QED BY <1>1, <1>2, <1>4, <2>1, <2>2, OthersStayFree
<1>6. Free(t) /\ Whole
  BY <1>1 DEF WholeInv
<1>7. Free(t)'
  BY <1>1, <1>2, <1>5, <1>6 DEF Apart, Free, emailIn
<1>8. Whole'
  <2>1. \A x \in Tab : \A v : Creating(x, v) => Creating(x, v)'
    BY <1>1, <1>5 DEF Apart, Creating
  <2>2. Creating(t, n)'
    BY <1>5 DEF Apart, Creating
  <2>. QED BY <1>1, <1>4, <1>6, <2>1, <2>2 DEF Whole, Found
<1>. QED BY <1>5, <1>7, <1>8 DEF Apart

LEMMA InsertProviderKeepsWhole ==
    ASSUME AccountsInv, WholeInv, ~overlapped', NEW t \in Tab, insertProvider(t)
    PROVE  Alone' /\ (\A x \in Tab : Free(x))' /\ Whole'
<1>1. ~overlapped /\ login[t].step = "provider" /\ UNCHANGED <<users, mailbox>>
  BY DEF insertProvider
<1>2. PICK i \in Identity : i = login[t].identity
  BY <1>1 DEF AccountsInv, LoginsKnowTheirUser, KnowsItsUser
<1>3. PICK n : n = login[t].user
  OBVIOUS
<1>4. Free(t) /\ Whole /\ owner[i] = NoUser
  BY <1>1, <1>2 DEF WholeInv, Free
<1>5. goOn(t, "email") /\ owner' = [owner EXCEPT ![i] = n]
  BY <1>2, <1>3, <1>4 DEF insertProvider
<1>6. login' = [login EXCEPT ![t].step = "email", ![t].user = n]
  BY <1>3, <1>5, StepIsChange DEF goOn, AccountsInv
<1>7. \A j \in Identity : j # i => owner'[j] = owner[j]
  BY <1>5 DEF AccountsInv, AccountsType
<1>8. Apart(t, i, "email", n)
  <2>1. \A e \in Email : e # emailOf[i] => mailbox'[e] = mailbox[e]
    BY <1>1
  <2>2. login[t].step \in InDataAccess
    BY <1>1 DEF InDataAccess
  <2>. QED BY <1>1, <1>2, <1>6, <1>7, <2>1, <2>2, OthersStayFree
<1>9. Free(t)'
  BY <1>1, <1>2, <1>4, <1>8 DEF Apart, Free, emailIn
<1>10. Whole'
  <2>1. \A x \in Tab : \A v : Creating(x, v) => Creating(x, v)'
    BY <1>1, <1>3, <1>8 DEF Apart, Creating
  <2>2. \A v \in users : Found(v) => Found(v)'
    BY <1>1, <1>4, <1>7 DEF Found, AccountsInv, AccountsType
  <2>. QED BY <1>1, <1>4, <2>1, <2>2 DEF Whole
<1>. QED BY <1>8, <1>9, <1>10 DEF Apart

LEMMA InsertEmailKeepsWhole ==
    ASSUME AccountsInv, WholeInv, ~overlapped', NEW t \in Tab, insertEmail(t)
    PROVE  Alone' /\ (\A x \in Tab : Free(x))' /\ Whole'
<1>1. ~overlapped /\ login[t].step = "email" /\ UNCHANGED <<users, owner>>
  BY DEF insertEmail
<1>2. PICK i \in Identity : i = login[t].identity /\ emailOf[i] \in Email
  BY <1>1 DEF AccountsInv, LoginsKnowTheirUser, KnowsItsUser, AccountsAssumption
<1>3. PICK n : n = login[t].user /\ Owns(i, n)
  BY <1>1, <1>2 DEF AccountsInv, LoginsKnowTheirUser, KnowsItsUser
<1>4. Free(t) /\ Whole /\ mailbox[emailOf[i]] = NoUser /\ mailbox \in [Email -> Nat]
  BY <1>1, <1>2 DEF WholeInv, Free, emailIn
<1>5. goOn(t, "done") /\ mailbox' = [mailbox EXCEPT ![emailOf[i]] = n]
  BY <1>2, <1>3, <1>4 DEF insertEmail, emailIn
<1>6. login' = [login EXCEPT ![t].step = "done", ![t].user = n]
  BY <1>3, <1>5, StepIsChange DEF goOn, AccountsInv
<1>7. /\ \A e \in Email : e # emailOf[i] => mailbox'[e] = mailbox[e]
      /\ mailbox'[emailOf[i]] = n
  BY <1>2, <1>4, <1>5
<1>8. Apart(t, i, "done", n)
  <2>1. \A j \in Identity : j # i => owner'[j] = owner[j]
    BY <1>1
  <2>2. login[t].step \in InDataAccess
    BY <1>1 DEF InDataAccess
  <2>. QED BY <1>1, <1>2, <1>6, <1>7, <2>1, <2>2, OthersStayFree
<1>9. Free(t)'
  BY <1>8 DEF Apart, Free
<1>10. Whole'
  <2>1. \A x \in Tab : \A v : x # t /\ Creating(x, v) => Creating(x, v)'
    BY <1>8 DEF Apart, Creating
  <2>2. n \in users => Found(n)'
    BY <1>1, <1>3, <1>7 DEF Found, Owns
  <2>3. \A v : Creating(t, v) => v = n
    BY <1>3 DEF Creating
  <2>4. ASSUME NEW v \in users, Found(v) PROVE Found(v)'
    <3>1. PICK j \in Identity : owner[j] = v /\ mailbox[emailOf[j]] = v
      BY <2>4 DEF Found
    <3>2. v # NoUser /\ emailOf[j] \in Email
      BY DEF AccountsInv, AccountsType, AccountsAssumption
    <3>. QED BY <1>1, <1>4, <1>7, <3>1, <3>2 DEF Found
  <2>. QED BY <1>1, <1>4, <2>1, <2>2, <2>3, <2>4 DEF Whole
<1>. QED BY <1>8, <1>9, <1>10 DEF Apart

LEMMA NextKeepsWhole == AccountsInv /\ WholeInv /\ [Next]_vars => WholeInv'
<1> SUFFICES ASSUME AccountsInv, WholeInv, [Next]_vars PROVE WholeInv'
  OBVIOUS
<1>1. ASSUME NEW t \in Tab, load(t) \/ deleteAccount(t) \/ Page(t) PROVE WholeInv'
  <2>1. UNCHANGED <<login, overlapped>>
    BY <1>1 DEF load, deleteAccount, Page, receive, refreshed, untouched
  <2>2. UNCHANGED tables \/ \E u : deleteUser(u)
    BY <1>1 DEF load, deleteAccount, Page, receive, refreshed, succeeds, isUnauthorized, fails,
                settle, send, sendDelete, sendIdentify, sendRefresh
  <2>. QED BY <2>1, <2>2, RestKeepsWhole
<1>2. ASSUME NEW t \in Tab, InDataAccessStep(t) PROVE WholeInv'
  <2>1. mailbox' \in [Email -> Nat]
    <3>1. mailbox' = mailbox \/ mailbox' = [mailbox EXCEPT ![emailIn(t)] = login[t].user]
      BY <1>2 DEF InDataAccessStep, Login, loginFails, getAccountByProviderId, getAccountByEmails,
                  createAccount, insertUser, insertProvider, insertEmail, tables
    <3>2. login[t].user \in Nat
      BY DEF AccountsInv, AccountsType, LoginType
    <3>. QED BY <3>1, <3>2 DEF WholeInv
  <2>2. ~overlapped' => Alone' /\ (\A x \in Tab : Free(x))' /\ Whole'
    BY <1>2, LookKeepsWhole, InsertUserKeepsWhole, InsertProviderKeepsWhole, InsertEmailKeepsWhole
       DEF InDataAccessStep, Login
  <2>. QED BY <2>1, <2>2 DEF WholeInv
<1>3. ASSUME NEW t \in Tab, redirect(t) PROVE WholeInv'
  <2>1. UNCHANGED <<overlapped, tables>> /\ login' = [login EXCEPT ![t] = Nobody]
    BY <1>3 DEF redirect, sendIdentify, untouched
  <2>2. login[t].step \notin InDataAccess
    BY <1>3 DEF redirect, InDataAccess
  <2>3. \A x \in Tab : login'[x] = login[x] \/ (x = t /\ login'[x] = Nobody)
    BY <2>1 DEF AccountsInv, AccountsType
  <2>. QED BY <2>1, <2>2, <2>3, RestKeepsWhole
<1>4. ASSUME NEW t \in Tab, NEW i \in Identity, signIn(t, i) PROVE WholeInv'
  BY <1>4, AuthenticateKeepsWhole DEF signIn
<1>5. ASSUME NEW t \in Tab, signOut(t) \/ signedOut(t) \/ lose(t) PROVE WholeInv'
  BY <1>5, RestKeepsWhole DEF signOut, signedOut, lose, accountVars
<1>6. ASSUME accessExpires \/ refreshExpires \/ UNCHANGED vars PROVE WholeInv'
  BY <1>6, RestKeepsWhole DEF accessExpires, refreshExpires, vars, accountVars
<1>. QED BY <1>1, <1>2, <1>3, <1>4, <1>5, <1>6 DEF Next

\* Until logins with one address overlap or one fails half-way, every user that is not just
\* being created can be found by an identity and its address (createUserAccount asks for
\* both, and both have to be free).
THEOREM AccountsStayWhole == Spec => []AccountsAreWhole
<1>1. WholeInv => AccountsAreWhole
  BY DEF WholeInv, Whole, Creating, Found, AccountsAreWhole
<1>. QED BY <1>1, InitAccounts, NextKeepsAccounts, InitWhole, NextKeepsWhole, PTL DEF Spec
====
