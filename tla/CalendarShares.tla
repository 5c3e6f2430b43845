---- MODULE CalendarShares ----
(***************************************************************************)
(* With whom a user shares the calendar: the rows of CalendarShare in data *)
(* access, and the share sheet of the calendar page that shows and changes *)
(* them (webapp/src/components/ShareSheet/ShareSheet.tsx).                 *)
(*                                                                         *)
(* The sheet asks for the list once.  A click adds a friend to the list it *)
(* was rendered with, when the answer comes; a removal takes the friend    *)
(* from the list there is by then.                                         *)
(***************************************************************************)
EXTENDS Naturals, FiniteSets

CONSTANTS
    Friend,       \* other users with an account
    NoFriend,
    Click         \* bound: requests to share that are under way at a time

ASSUME SharesAssumption == NoFriend \notin Friend

VARIABLES
    shared,           \* the users of the CalendarShare rows of the primary calendar
    friendList,       \* the request for that list
    users,            \* the list the sheet shows
    shares,           \* requests to share
    shareIsLoading,
    removal,          \* the request to remove somebody
    removalsLeft,     \* removals on their way whose sheet is gone
    unsettled         \* history: the list shown need not be the one stored

shareVars ==
    <<shared, friendList, users, shares, shareIsLoading, removal, removalsLeft, unsettled>>

\* A request to share, with the list at the time of the click.  The sheet that sent it may
\* be gone since.
NoShare == [friend |-> NoFriend, users |-> {}, step |-> "none", mounted |-> FALSE]
NoRemoval == [friend |-> NoFriend, step |-> "none"]

sharing == {k \in Click : shares[k] # NoShare}
sheetIsQuiet == sharing = {} /\ removal = NoRemoval /\ removalsLeft = {}

SharesInit ==
    /\ shared = {}
    /\ friendList = [status |-> "off", value |-> {}]
    /\ users = {}
    /\ shares = [k \in Click |-> NoShare]
    /\ shareIsLoading = FALSE
    /\ removal = NoRemoval
    /\ removalsLeft = {}
    /\ unsettled = FALSE

-----------------------------------------------------------------------------
(* The list                                                                *)

\* The calendar page has its schedules, and is rendered with the sheet.
mountSheet ==
    /\ friendList' = [status |-> "asked", value |-> {}]
    /\ unsettled' = ~sheetIsQuiet
    /\ UNCHANGED <<shared, users, shares, shareIsLoading, removal, removalsLeft>>

\* The page is left: answers that come now change nothing, and the next sheet, which knows
\* nothing of a removal under way, lets another one through.
unmountSheet ==
    /\ friendList' = [status |-> "off", value |-> {}]
    /\ users' = {}
    /\ shares' = [k \in Click |-> [shares[k] EXCEPT !.mounted = FALSE]]
    /\ removal' = NoRemoval
    /\ removalsLeft' = removalsLeft \cup IF removal.step = "asked" THEN {removal.friend} ELSE {}
    /\ shareIsLoading' = FALSE
    /\ UNCHANGED <<shared, unsettled>>

\* The users a calendar of this user is shared with.
shared_by_me ==
    /\ friendList.status = "asked"
    /\ friendList' = [status |-> "answered", value |-> shared]
    /\ UNCHANGED <<shared, users, shares, shareIsLoading, removal, removalsLeft, unsettled>>

receiveUsers ==
    /\ friendList.status = "answered"
    /\ friendList' = [status |-> "success", value |-> {}]
    /\ users' = friendList.value
    /\ UNCHANGED <<shared, shares, shareIsLoading, removal, removalsLeft, unsettled>>

loseUsers ==
    /\ friendList.status \in {"asked", "answered"}
    /\ friendList' = [status |-> "error", value |-> {}]
    /\ UNCHANGED <<shared, users, shares, shareIsLoading, removal, removalsLeft, unsettled>>

-----------------------------------------------------------------------------
(* Sharing                                                                 *)

\* The button is not disabled while a request is under way, the field with the address is.
handleShare(k, f) ==
    /\ friendList.status # "off"
    /\ shares[k] = NoShare
    /\ f \notin users
    /\ shareIsLoading => \E j \in sharing : shares[j].mounted /\ shares[j].friend = f
    /\ shares' = [shares EXCEPT ![k] =
                    [friend |-> f, users |-> users, step |-> "asked", mounted |-> TRUE]]
    /\ shareIsLoading' = TRUE
    /\ unsettled' = \/ unsettled \/ friendList.status # "success" \/ removal # NoRemoval
                    \/ \E j \in sharing : shares[j].friend # f
    /\ UNCHANGED <<shared, friendList, users, removal, removalsLeft>>

validate_email(k) ==
    /\ shares[k].step = "asked"
    /\ shares' = [shares EXCEPT ![k].step =
                    IF shares[k].friend \in shared THEN "failed" ELSE "valid"]
    /\ UNCHANGED <<shared, friendList, users, shareIsLoading, removal, removalsLeft, unsettled>>

\* The row is inserted, unless another request did that since the address was validated.
perform_create(k) ==
    /\ shares[k].step = "valid"
    /\ shares' = [shares EXCEPT ![k].step = IF shares[k].friend \in shared THEN "failed" ELSE "ok"]
    /\ shared' = shared \cup {shares[k].friend}
    /\ UNCHANGED <<friendList, users, shareIsLoading, removal, removalsLeft, unsettled>>

\* Mutation: the friend is listed whatever the answer was.
shareAnswered_Always(k) ==
    /\ shares[k].step \in {"ok", "failed"}
    /\ users' = IF shares[k].mounted THEN shares[k].users \cup {shares[k].friend} ELSE users
    /\ shareIsLoading' = (shareIsLoading /\ ~shares[k].mounted)
    /\ shares' = [shares EXCEPT ![k] = NoShare]
    /\ UNCHANGED <<shared, friendList, removal, removalsLeft, unsettled>>

\* The friend joins the list of the click, unless the request was denied.
shareAnswered(k) ==
    /\ shares[k].step \in {"ok", "failed"}
    /\ users' = IF shares[k].mounted /\ shares[k].step = "ok"
                THEN shares[k].users \cup {shares[k].friend} ELSE users
    /\ shareIsLoading' = (shareIsLoading /\ ~shares[k].mounted)
    /\ shares' = [shares EXCEPT ![k] = NoShare]
    /\ UNCHANGED <<shared, friendList, removal, removalsLeft, unsettled>>

-----------------------------------------------------------------------------
(* Removing                                                                *)

handleShareRemove(f) ==
    /\ f \in users
    /\ removal = NoRemoval
    /\ removal' = [friend |-> f, step |-> "asked"]
    /\ unsettled' = (unsettled \/ sharing # {})
    /\ UNCHANGED <<shared, friendList, users, shares, shareIsLoading, removalsLeft>>

destroyShare ==
    /\ removal.step = "asked"
    /\ removal' = [removal EXCEPT !.step = IF removal.friend \in shared THEN "ok" ELSE "failed"]
    /\ shared' = shared \ {removal.friend}
    /\ UNCHANGED <<friendList, users, shares, shareIsLoading, unsettled, removalsLeft>>

removeAnswered ==
    /\ removal.step \in {"ok", "failed"}
    /\ users' = IF removal.step = "ok" THEN users \ {removal.friend} ELSE users
    /\ removal' = NoRemoval
    /\ UNCHANGED <<shared, friendList, shares, shareIsLoading, unsettled, removalsLeft>>

\* A removal nobody waits for any more is served, or gets lost.
destroyLeft(f) ==
    /\ f \in removalsLeft
    /\ removalsLeft' = removalsLeft \ {f}
    /\ shared' \in {shared, shared \ {f}}
    /\ UNCHANGED <<friendList, users, shares, shareIsLoading, removal, unsettled>>

-----------------------------------------------------------------------------
(* The world                                                               *)

\* A request or its answer is lost.
loseShare(k) ==
    /\ shares[k].step \in {"asked", "valid", "ok"}
    /\ shares' = [shares EXCEPT ![k].step = "failed"]
    /\ unsettled' = (unsettled \/ shares[k].step = "ok")
    /\ UNCHANGED <<shared, friendList, users, shareIsLoading, removal, removalsLeft>>

loseRemoval ==
    /\ removal.step \in {"asked", "ok"}
    /\ removal' = [removal EXCEPT !.step = "failed"]
    /\ unsettled' = (unsettled \/ removal.step = "ok")
    /\ UNCHANGED <<shared, friendList, users, shares, shareIsLoading, removalsLeft>>

\* Another tab shares the calendar with a friend, or no longer does.
shareElsewhere(f) ==
    /\ shared' = IF f \in shared THEN shared \ {f} ELSE shared \cup {f}
    /\ unsettled' = TRUE
    /\ UNCHANGED <<friendList, users, shares, shareIsLoading, removal, removalsLeft>>

ShareStep ==
    \/ shared_by_me \/ receiveUsers \/ loseUsers
    \/ \E k \in Click :
        \/ \E f \in Friend : handleShare(k, f)
        \/ validate_email(k) \/ perform_create(k) \/ shareAnswered(k) \/ loseShare(k)
    \/ \E f \in Friend : handleShareRemove(f) \/ destroyLeft(f) \/ shareElsewhere(f)
    \/ destroyShare \/ removeAnswered \/ loseRemoval

-----------------------------------------------------------------------------
(* Properties                                                              *)

\* Once everything was answered, the sheet lists exactly the friends who see the calendar,
\* also when a share was clicked twice: unless a request started while the list or a
\* request about another friend was under way, an answer got lost, or another tab took part.
ShareSheetShowsAccess ==
    friendList.status = "success" /\ sheetIsQuiet /\ ~unsettled => users = shared
====
