---- MODULE SignIn ----
(***************************************************************************)
(* Signing in and out in the tabs of one browser: the cookies they share   *)
(* (route_handlers/auth.ts, utils/tokens/main.ts), what each tab knows of  *)
(* the user (stores/UserStore) and the accounts behind it.                 *)
(*                                                                         *)
(* The scheduler keeps no sessions: a request is answered from the tokens  *)
(* that come with it, and its answer changes the cookies when it arrives.  *)
(* Between the two every other tab may do as it likes.                     *)
(***************************************************************************)
EXTENDS Accounts

CONSTANT maxLoadAttempts    \* of useAsync in useCurrentUserManager

VARIABLES
    access,       \* the access_token cookie, with the csrf cookie that belongs to it
    refresh,      \* the refresh_token cookie
    user,         \* the user each tab shows
    request,      \* what each tab is doing and has been answered
    attempts,     \* load attempts of useAsync
    signingOut,   \* tabs with a sign-out under way, which nothing waits for
    ended         \* history: the last login or sign-out that arrived, "mixed" if other
                  \* answers that write the cookies were on their way at that moment

browserVars == <<access, refresh, user, request, attempts, signingOut, ended>>
vars == <<accountVars, browserVars>>

NoToken == [sub |-> NoUser, live |-> FALSE]
tokenFor(u) == [sub |-> u, live |-> TRUE]

\* A request under way: for what, whether it or a refresh for it waits for an answer, its
\* number (a first attempt and its repetition after the interceptor's refresh, and both
\* again after the refresh of useCurrentUserManager), and the answer that is coming.
Quiet == [what |-> "none", step |-> "none", n |-> 0, status |-> "none", sub |-> NoUser]

-----------------------------------------------------------------------------
(* Requests and their answers.  What is sent are the cookies as they are at that moment,  *)
(* and their answer hangs on nothing else.                                                *)

\* An expired token and none at all are answered alike.
verify(token) == token.live

\* identify_get asks data access for the user of the token.
identify_get(token, n) ==
    [what |-> "identify", step |-> "asked", n |-> n,
     status |-> IF ~verify(token) THEN "unauthorized"
                ELSE IF token.sub \in users THEN "ok" ELSE "failed",
     sub |-> IF verify(token) /\ token.sub \in users THEN token.sub ELSE NoUser]
sendIdentify(t, token, n) ==
    /\ request' = [request EXCEPT ![t] = identify_get(token, n)]
    /\ UNCHANGED tables

\* deleteUser of the user the tab shows, which data access allows that user only.
sendDelete(t, token, n) ==
    LET allowed == verify(token) /\ token.sub = user[t] /\ token.sub \in users
    IN  /\ request' = [request EXCEPT ![t] =
                [what |-> "delete", step |-> "asked", n |-> n,
                 status |-> IF allowed THEN "ok"
                            ELSE IF verify(token) THEN "failed" ELSE "unauthorized",
                 sub |-> NoUser]]
        /\ IF allowed THEN deleteUser(user[t]) ELSE UNCHANGED tables

send(t, token, n) ==
    IF request[t].what = "delete" THEN sendDelete(t, token, n) ELSE sendIdentify(t, token, n)

\* The middleware throws before the handler, whose catch would clear the cookies.
refresh_get(t, n) ==
    [request[t] EXCEPT
        !.step = "refreshing", !.n = n,
        !.status = IF verify(refresh) THEN "ok" ELSE "unauthorized",
        !.sub = IF verify(refresh) THEN refresh.sub ELSE NoUser]
sendRefresh(t, n) ==
    /\ request' = [request EXCEPT ![t] = refresh_get(t, n)]
    /\ UNCHANGED tables

settle(t) == request' = [request EXCEPT ![t] = Quiet] /\ UNCHANGED tables

\* Answers under way that will write the cookies: of a refresh, of a login.
writes(t) ==
    \/ (request[t].step = "refreshing" /\ request[t].status = "ok")
    \/ login[t].step = "done"
othersWrite(t) == \E x \in Tab \ {t} : writes(x) \/ x \in signingOut

cookies == <<access, refresh, ended>>
untouched == <<logins, overlapped>>
idle(t) == request[t] = Quiet /\ login[t] = Nobody

Init ==
    /\ AccountsInit
    /\ access = NoToken
    /\ refresh = NoToken
    /\ user = [t \in Tab |-> NoUser]
    /\ request = [t \in Tab |-> Quiet]
    /\ attempts = [t \in Tab |-> 0]
    /\ signingOut = {}
    /\ ended = "none"

-----------------------------------------------------------------------------
(* The page                                                                *)

\* A tab is opened or loaded again.
load(t) ==
    /\ idle(t)
    /\ sendIdentify(t, access, 1)
    /\ attempts' = [attempts EXCEPT ![t] = 1]
    /\ user' = [user EXCEPT ![t] = NoUser]
    /\ UNCHANGED <<untouched, login, signedInAs, cookies, signingOut>>

\* One request to data access stands for all that go through the interceptor.
deleteAccount(t) ==
    /\ idle(t)
    /\ user[t] # NoUser
    /\ sendDelete(t, access, 1)
    /\ UNCHANGED <<untouched, login, signedInAs, cookies, user, attempts, signingOut>>

\* useAsync runs a load that failed again, maxLoadAttempts times in all.
fails(t) ==
    IF request[t].what = "identify" /\ attempts[t] < maxLoadAttempts
    THEN sendIdentify(t, access, 1) /\ attempts' = [attempts EXCEPT ![t] = @ + 1]
    ELSE settle(t) /\ attempts' = [attempts EXCEPT ![t] = 0]

succeeds(t) ==
    /\ request[t].status = "ok"
    /\ settle(t)
    /\ attempts' = [attempts EXCEPT ![t] = 0]
    /\ IF request[t].what = "identify"
       THEN user' = [user EXCEPT ![t] = request[t].sub] /\ UNCHANGED signingOut
       ELSE signingOut' = signingOut \cup {t} /\ UNCHANGED user

\* A first or third request that is unauthorized goes to the interceptor, and an identify
\* that still is after the second to useCurrentUserManager.
isUnauthorized(t) ==
    /\ request[t].status = "unauthorized"
    /\ IF request[t].n \in {1, 3} \/ (request[t].n = 2 /\ request[t].what = "identify")
       THEN sendRefresh(t, request[t].n) /\ UNCHANGED attempts
       ELSE settle(t) /\ attempts' = [attempts EXCEPT ![t] = 0]
    /\ UNCHANGED <<user, signingOut>>

receive(t) ==
    /\ request[t].step = "asked"
    /\ \/ succeeds(t)
       \/ isUnauthorized(t)
       \/ request[t].status = "failed" /\ fails(t) /\ UNCHANGED <<user, signingOut>>
    /\ UNCHANGED <<untouched, login, signedInAs, cookies>>

\* A refresh that succeeded has the request sent again, under the next number.  One that
\* did not, for whatever reason, makes the interceptor sign out (and useCurrentUserManager
\* try once more), while useCurrentUserManager shows nobody.
refreshed(t) ==
    /\ request[t].step = "refreshing"
    /\ IF request[t].status = "ok"
       THEN /\ access' = tokenFor(request[t].sub)
            /\ send(t, access', request[t].n + 1)
            /\ UNCHANGED <<attempts, signingOut>>
       ELSE /\ UNCHANGED access
            /\ signingOut' = IF request[t].n = 2 THEN signingOut ELSE signingOut \cup {t}
            /\ IF request[t].n = 1 /\ request[t].what = "identify"
               THEN sendRefresh(t, 2) /\ UNCHANGED attempts
               ELSE settle(t) /\ attempts' = [attempts EXCEPT ![t] = 0]
    /\ UNCHANGED <<untouched, login, signedInAs, refresh, ended, user>>

-----------------------------------------------------------------------------
(* Signing in and out                                                      *)

signOut(t) ==
    /\ idle(t)
    /\ user[t] # NoUser
    /\ signingOut' = signingOut \cup {t}
    /\ UNCHANGED <<accountVars, cookies, user, request, attempts>>

\* Mutation: the refresh token is left.
clearCookies_Access == access' = NoToken /\ UNCHANGED refresh

clearCookies == access' = NoToken /\ refresh' = NoToken

\* The answer of sign_out_get clears the cookies, and the tab forgets its user.
signedOut(t) ==
    /\ t \in signingOut
    /\ signingOut' = signingOut \ {t}
    /\ clearCookies
    /\ user' = [user EXCEPT ![t] = NoUser]
    /\ ended' = IF othersWrite(t) \/ writes(t) THEN "mixed" ELSE "out"
    /\ UNCHANGED <<accountVars, request, attempts>>

\* The user leaves the page for a provider and comes back with an identity.
signIn(t, i) ==
    /\ idle(t)
    /\ t \notin signingOut
    /\ authenticate(t, i)
    /\ user' = [user EXCEPT ![t] = NoUser]
    /\ UNCHANGED <<cookies, request, attempts, signingOut>>

\* Mutation: the refresh token of whoever was here before is kept.
handleSignIn_KeepsRefresh(u) ==
    access' = tokenFor(u) /\ refresh' = IF verify(refresh) THEN refresh ELSE tokenFor(u)

handleSignIn(u) == access' = tokenFor(u) /\ refresh' = tokenFor(u)

\* passportRedirectWrapper: an account is signed in, what else there is shows a message;
\* either way a page of the webapp is loaded.
redirect(t) ==
    /\ login[t].step \in {"done", "refused", "error"}
    /\ IF login[t].step = "done"
       THEN /\ handleSignIn(login[t].user)
            /\ signedInAs' = [signedInAs EXCEPT ![login[t].identity] = login[t].user]
            /\ ended' = IF othersWrite(t) THEN "mixed" ELSE "in"
       ELSE UNCHANGED <<cookies, signedInAs>>
    /\ login' = [login EXCEPT ![t] = Nobody]
    /\ sendIdentify(t, access', 1)
    /\ attempts' = [attempts EXCEPT ![t] = 1]
    /\ UNCHANGED <<untouched, user, signingOut>>

-----------------------------------------------------------------------------
(* The world                                                               *)

accessExpires ==
    /\ access.live
    /\ access' = [access EXCEPT !.live = FALSE]
    /\ UNCHANGED <<accountVars, refresh, ended, user, request, attempts, signingOut>>

refreshExpires ==
    /\ refresh.live
    /\ refresh' = [refresh EXCEPT !.live = FALSE]
    /\ UNCHANGED <<accountVars, access, ended, user, request, attempts, signingOut>>

\* An answer is lost, whatever it says; a sign-out that is lost changes nothing.
lose(t) ==
    /\ \/ /\ request[t].step \in {"asked", "refreshing"}
          /\ request' = [request EXCEPT ![t].status = "failed", ![t].sub = NoUser]
          /\ UNCHANGED signingOut
       \/ /\ t \in signingOut
          /\ signingOut' = signingOut \ {t}
          /\ UNCHANGED request
    /\ UNCHANGED <<accountVars, cookies, user, attempts>>

-----------------------------------------------------------------------------
Page(t) == receive(t) \/ refreshed(t)
InDataAccessStep(t) == (Login(t) \/ loginFails(t)) /\ UNCHANGED browserVars

Next ==
    \/ \E t \in Tab :
        \/ load(t) \/ deleteAccount(t) \/ signOut(t) \/ signedOut(t)
        \/ \E i \in Identity : signIn(t, i)
        \/ InDataAccessStep(t)
        \/ redirect(t) \/ Page(t) \/ lose(t)
    \/ accessExpires
    \/ refreshExpires

Spec == Init /\ [][Next]_vars

-----------------------------------------------------------------------------
(* Properties                                                              *)

\* The two tokens never speak for two users, unless the answer to a refresh or a sign-out
\* of another tab was still under way when the last login or sign-out arrived.
OneUserPerBrowser ==
    ended # "mixed" /\ access # NoToken /\ refresh # NoToken => access.sub = refresh.sub

\* A sign-out lasts until the next login, in every tab: nothing brings a token back, unless
\* it was on its way when the cookies were cleared.
SignOutLasts == ended = "out" => access = NoToken /\ refresh = NoToken
====
