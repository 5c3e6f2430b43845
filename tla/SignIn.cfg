\* Two tabs, two identities with one address and one with another.
CONSTANTS
    a = a
    b = b
    c = c
    Tab = {t1, t2}
    Identity = {a, b, c}
    NoIdentity = none
    Email = {"x", "y"}
    emailOf <- EmailOf
    MaxLogins = 2
    maxLoadAttempts = 2
SPECIFICATION Spec
SYMMETRY Symmetry
ACTION_CONSTRAINT LoginsFirst
INVARIANTS SignedInToOwnAccount AccountsAreWhole OneUserPerBrowser SignOutLasts
