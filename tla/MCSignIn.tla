---- MODULE MCSignIn ----
(***************************************************************************)
(* a and b are one person's identities with two providers.                 *)
(***************************************************************************)
EXTENDS SignIn, TLC

CONSTANTS a, b, c

EmailOf == a :> "x" @@ b :> "x" @@ c :> "y"

Symmetry == Permutations(Tab)

\* Bound: while a login is in data access only logins go on, and nothing expires.  Their
\* steps touch rows no page or token knows of before the login is done.
LoginsFirst ==
    (\E t \in Tab : login[t].step \in InDataAccess) =>
        (\E t \in Tab : login'[t] # login[t])
====
