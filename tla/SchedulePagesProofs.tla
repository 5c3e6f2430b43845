---- MODULE SchedulePagesProofs ----
(***************************************************************************)
(* Proofs about the pages of a user: with nothing under way the share      *)
(* sheet lists who sees the calendar and the pages list what is stored,    *)
(* for any number of friends, clicks, schedules and terms.                 *)
(***************************************************************************)
EXTENDS SchedulePages, FiniteSetTheorems, WellFoundedInduction, TLAPS

-----------------------------------------------------------------------------
(* Types of what the sheet keeps                                           *)

ShareRequest == [friend : Friend, users : SUBSET Friend,
                 step : {"asked", "valid", "ok", "failed"}, mounted : BOOLEAN]
RemovalRequest == [friend : Friend, step : {"asked", "ok", "failed"}]

ShareType ==
    /\ shared \subseteq Friend
    /\ friendList \in [status : {"off", "asked", "answered", "success", "error"},
                       value : SUBSET Friend]
    /\ users \subseteq Friend
    /\ shares \in [Click -> ShareRequest \cup {NoShare}]
    /\ removal \in RemovalRequest \cup {NoRemoval}
    /\ removalsLeft \subseteq Friend
    /\ unsettled \in BOOLEAN

ShareActions ==
    ShareStep \/ mountSheet \/ unmountSheet \/ UNCHANGED shareVars

\* A request that is there is no other than it says.
LEMMA ShareFacts ==
    /\ \A s \in ShareRequest : s # NoShare
    /\ \A s \in RemovalRequest : s # NoRemoval
    /\ NoShare.step = "none" /\ NoShare.friend = NoFriend /\ ~NoShare.mounted /\ NoShare.users = {}
    /\ NoRemoval.step = "none" /\ NoRemoval.friend = NoFriend
BY DEF ShareRequest, RemovalRequest, NoShare, NoRemoval

\* The requests of the clicks: one of them changes its step.
LEMMA ShareSteps ==
    ASSUME ShareType, NEW k \in Click, shares[k] # NoShare,
           NEW v \in {"asked", "valid", "ok", "failed"}, shares' = [shares EXCEPT ![k].step = v]
    PROVE  /\ shares' \in [Click -> ShareRequest \cup {NoShare}]
           /\ \A j \in Click \ {k} : shares'[j] = shares[j]
           /\ shares[k] \in ShareRequest /\ shares'[k] \in ShareRequest
           /\ shares'[k].step = v /\ shares'[k].friend = shares[k].friend
           /\ shares'[k].users = shares[k].users /\ shares'[k].mounted = shares[k].mounted
<1>1. shares[k] \in ShareRequest
  BY DEF ShareType
<1>2. PICK s \in ShareRequest : s = shares[k]
  BY <1>1
<1>3. [s EXCEPT !.step = v] \in ShareRequest
  BY DEF ShareRequest
<1>4. shares' = [shares EXCEPT ![k] = [s EXCEPT !.step = v]]
  BY <1>2
<1>5. /\ shares'[k] = [s EXCEPT !.step = v]
      /\ \A j \in Click \ {k} : shares'[j] = shares[j]
      /\ shares' \in [Click -> ShareRequest \cup {NoShare}]
  BY <1>3, <1>4 DEF ShareType
<1>. QED BY <1>1, <1>2, <1>3, <1>5 DEF ShareRequest

LEMMA RemovalSteps ==
    ASSUME ShareType, removal # NoRemoval,
           NEW v \in {"asked", "ok", "failed"}, removal' = [removal EXCEPT !.step = v]
    PROVE  /\ removal \in RemovalRequest /\ removal' \in RemovalRequest
           /\ removal'.step = v /\ removal'.friend = removal.friend
BY DEF ShareType, RemovalRequest

LEMMA ShareTypeInit == SharesInit => ShareType
<1> SUFFICES ASSUME SharesInit PROVE ShareType
  OBVIOUS
<1>1. shares \in [Click -> ShareRequest \cup {NoShare}]
  BY DEF SharesInit
<1>2. friendList \in [status : {"off", "asked", "answered", "success", "error"},
                      value : SUBSET Friend]
  BY DEF SharesInit
<1>. QED BY <1>1, <1>2 DEF SharesInit, ShareType

LEMMA ShareTypeStep == ShareType /\ ShareActions => ShareType'
<1> SUFFICES ASSUME ShareType, ShareActions PROVE ShareType'
  OBVIOUS
<1>1. CASE shared_by_me \/ receiveUsers \/ loseUsers
  BY <1>1 DEF ShareType, shared_by_me, receiveUsers, loseUsers
<1>2. ASSUME NEW k \in Click, NEW f \in Friend, handleShare(k, f) PROVE ShareType'
  <2>1. [friend |-> f, users |-> users, step |-> "asked", mounted |-> TRUE] \in ShareRequest
    BY DEF ShareType, ShareRequest
  <2>. QED BY <1>2, <2>1 DEF ShareType, handleShare
<1>3. ASSUME NEW k \in Click, validate_email(k) PROVE ShareType'
  <2>1. shares[k] # NoShare
    BY <1>3, ShareFacts DEF validate_email
  <2>2. PICK v \in {"valid", "failed"} : shares' = [shares EXCEPT ![k].step = v]
    BY <1>3 DEF validate_email
  <2>3. shares' \in [Click -> ShareRequest \cup {NoShare}]
    BY <2>1, <2>2, ShareSteps
  <2>. QED BY <1>3, <2>3 DEF ShareType, validate_email
<1>4. ASSUME NEW k \in Click, perform_create(k) PROVE ShareType'
  <2>1. shares[k] # NoShare
    BY <1>4, ShareFacts DEF perform_create
  <2>2. PICK v \in {"ok", "failed"} : shares' = [shares EXCEPT ![k].step = v]
    BY <1>4 DEF perform_create
  <2>3. shares' \in [Click -> ShareRequest \cup {NoShare}] /\ shares[k].friend \in Friend
    BY <2>1, <2>2, ShareSteps DEF ShareRequest
  <2>. QED BY <1>4, <2>3 DEF ShareType, perform_create
<1>5. ASSUME NEW k \in Click, shareAnswered(k) PROVE ShareType'
  <2>1. shares[k] \in ShareRequest
    BY <1>5, ShareFacts DEF shareAnswered, ShareType
  <2>2. shares[k].users \cup {shares[k].friend} \subseteq Friend
    BY <2>1 DEF ShareRequest
  <2>. QED BY <1>5, <2>2 DEF ShareType, shareAnswered
<1>6. ASSUME NEW k \in Click, loseShare(k) PROVE ShareType'
  <2>1. shares[k] # NoShare
    BY <1>6, ShareFacts DEF loseShare
  <2>2. shares' \in [Click -> ShareRequest \cup {NoShare}]
    BY <1>6, <2>1, ShareSteps DEF loseShare
  <2>. QED BY <1>6, <2>2 DEF ShareType, loseShare
<1>7. ASSUME NEW f \in Friend, handleShareRemove(f) PROVE ShareType'
  BY <1>7 DEF handleShareRemove, ShareType, RemovalRequest
<1>8. ASSUME NEW f \in Friend, shareElsewhere(f) PROVE ShareType'
  BY <1>8 DEF shareElsewhere, ShareType
<1>9. CASE destroyShare
  <2>1. PICK v \in {"ok", "failed"} : removal' = [removal EXCEPT !.step = v]
    BY <1>9 DEF destroyShare
  <2>2. removal' \in RemovalRequest
    BY <1>9, <2>1, RemovalSteps, ShareFacts DEF destroyShare
  <2>. QED BY <1>9, <2>2 DEF ShareType, destroyShare
<1>10. CASE loseRemoval
  <2>1. removal' \in RemovalRequest
    BY <1>10, RemovalSteps, ShareFacts DEF loseRemoval
  <2>. QED BY <1>10, <2>1 DEF ShareType, loseRemoval
<1>11. CASE removeAnswered
  BY <1>11 DEF removeAnswered, ShareType
<1>12. CASE mountSheet
  BY <1>12 DEF mountSheet, ShareType
<1>13. CASE unmountSheet
  <2>1. ASSUME NEW s \in ShareRequest \cup {NoShare}
        PROVE  [s EXCEPT !.mounted = FALSE] \in ShareRequest \cup {NoShare}
    <3>1. CASE s \in ShareRequest
      BY <3>1 DEF ShareRequest
    <3>2. CASE s = NoShare
      <4>1. NoShare.mounted = FALSE /\ NoShare = [x \in DOMAIN NoShare |-> NoShare[x]]
        BY DEF NoShare
      <4>. QED BY <3>2, <4>1
    <3>. QED BY <3>1, <3>2
  <2>2. removalsLeft' \subseteq Friend
    BY <1>13 DEF unmountSheet, ShareType, RemovalRequest, NoRemoval
  <2>. QED BY <1>13, <2>1, <2>2 DEF unmountSheet, ShareType
<1>14. CASE UNCHANGED shareVars
  BY <1>14 DEF shareVars, ShareType
<1>15. ASSUME NEW f \in Friend, destroyLeft(f) PROVE ShareType'
  BY <1>15 DEF destroyLeft, ShareType
<1>. QED BY <1>1, <1>2, <1>3, <1>4, <1>5, <1>6, <1>7, <1>8, <1>9, <1>10, <1>11, <1>12, <1>13, <1>14,
            <1>15
         DEF ShareActions, ShareStep

-----------------------------------------------------------------------------
(* The share sheet                                                         *)

\* A sheet that is gone shows nothing and hears of nothing.
SheetGone ==
    friendList.status = "off" =>
        users = {} /\ removal = NoRemoval /\ \A k \in Click : ~shares[k].mounted

\* Until the list is there nothing can have been asked of it.
ListComing ==
    friendList.status \in {"asked", "answered"} =>
        /\ users = {} /\ removal = NoRemoval /\ \A k \in Click : shares[k] = NoShare
        /\ friendList.status = "answered" => friendList.value = shared

\* The list lacks just the friend whose row was inserted, until its answer comes.
ShareFollows(k) ==
    shares[k] # NoShare =>
        /\ removal = NoRemoval /\ shares[k].mounted
        /\ \A j \in Click : shares[j] # NoShare => shares[j].friend = shares[k].friend
        /\ shares[k].users = users \ {shares[k].friend}
        /\ shares[k].step = "ok" => shares[k].friend \in shared

\* The list has the friend whose row was deleted, until its answer comes.
RemovalFollows ==
    removal # NoRemoval =>
        /\ removal.friend \in users
        /\ shared = IF removal.step = "ok" THEN users \ {removal.friend} ELSE users

ListFollows ==
    friendList.status = "success" =>
        /\ \A k \in Click : ShareFollows(k)
        /\ RemovalFollows
        /\ removal = NoRemoval =>
            /\ users \subseteq shared
            /\ \A f \in shared \ users :
                \E k \in Click : shares[k] # NoShare /\ shares[k].step = "ok" /\ shares[k].friend = f

SheetInv == SheetGone /\ (~unsettled => ListComing /\ ListFollows)

\* The list is not asked for while an earlier sheet's removals are on their way, or it
\* counts as unsettled.
NoneLeft == ~unsettled /\ friendList.status # "off" => removalsLeft = {}

LEMMA SheetInit == SharesInit => SheetInv
BY ShareFacts DEF SharesInit, SheetInv, SheetGone, ListComing, ListFollows

\* The requests of the clicks without the rows.
LEMMA StepFollows ==
    ASSUME ShareType, SheetInv, NEW k \in Click, shares[k] # NoShare, shares[k].step # "ok",
           NEW v \in {"valid", "failed"}, shares' = [shares EXCEPT ![k].step = v],
           UNCHANGED <<shared, friendList, users, removal, unsettled>>
    PROVE  SheetInv'
<1>1. /\ \A j \in Click \ {k} : shares'[j] = shares[j]
      /\ shares'[k] # NoShare /\ shares'[k].step = v /\ shares'[k].friend = shares[k].friend
      /\ shares'[k].users = shares[k].users /\ shares'[k].mounted = shares[k].mounted
  BY ShareSteps, ShareFacts
<1>2. SheetGone'
  BY <1>1 DEF SheetInv, SheetGone
<1>3. ASSUME ~unsettled PROVE ListComing' /\ ListFollows'
  <2>1. ListFollows /\ friendList.status \notin {"asked", "answered"}
    BY <1>3 DEF SheetInv, ListComing
  <2>2. ASSUME NEW j \in Click, friendList.status = "success" PROVE ShareFollows(j)'
    BY <1>1, <2>1, <2>2 DEF ListFollows, ShareFollows
  <2>3. ASSUME friendList.status = "success", removal = NoRemoval, NEW g \in shared \ users
        PROVE  \E j \in Click : shares'[j] # NoShare /\ shares'[j].step = "ok" /\ shares'[j].friend = g
    BY <1>1, <2>1, <2>3 DEF ListFollows
  <2>4. RemovalFollows' <=> RemovalFollows
    BY DEF RemovalFollows
  <2>. QED BY <2>1, <2>2, <2>3, <2>4 DEF ListComing, ListFollows
<1>. QED BY <1>2, <1>3 DEF SheetInv

\* The row of a friend is inserted.
LEMMA RowFollows ==
    ASSUME ShareType, SheetInv, NEW k \in Click, shares[k] # NoShare,
           shares[k].friend \notin shared, shared' = shared \cup {shares[k].friend},
           shares' = [shares EXCEPT ![k].step = "ok"],
           UNCHANGED <<friendList, users, removal, unsettled>>
    PROVE  SheetInv'
<1>1. /\ \A j \in Click \ {k} : shares'[j] = shares[j]
      /\ shares'[k] # NoShare /\ shares'[k].step = "ok" /\ shares'[k].friend = shares[k].friend
      /\ shares'[k].users = shares[k].users /\ shares'[k].mounted = shares[k].mounted
  BY ShareSteps, ShareFacts
<1>2. SheetGone'
  BY <1>1 DEF SheetInv, SheetGone
<1>3. ASSUME ~unsettled PROVE ListComing' /\ ListFollows'
  <2>1. ListFollows /\ friendList.status \notin {"asked", "answered"}
    BY <1>3 DEF SheetInv, ListComing
  <2>2. ASSUME NEW j \in Click, friendList.status = "success" PROVE ShareFollows(j)'
    BY <1>1, <2>1, <2>2 DEF ListFollows, ShareFollows
  <2>3. friendList.status = "success" => removal = NoRemoval
    BY <2>1 DEF ListFollows, ShareFollows
  <2>4. ASSUME friendList.status = "success", NEW g \in shared' \ users
        PROVE  \E j \in Click : shares'[j] # NoShare /\ shares'[j].step = "ok" /\ shares'[j].friend = g
    BY <1>1, <2>1, <2>3, <2>4 DEF ListFollows
  <2>5. friendList.status = "success" => users \subseteq shared' /\ RemovalFollows'
    BY <2>1, <2>3 DEF ListFollows, RemovalFollows
  <2>. QED BY <2>1, <2>2, <2>3, <2>4, <2>5 DEF ListComing, ListFollows
<1>. QED BY <1>2, <1>3 DEF SheetInv

\* The answer to a click arrives, in a list that the click saw without the friend.
LEMMA AnswerFollows ==
    ASSUME ShareType, SheetInv, NEW k \in Click, shareAnswered(k)
    PROVE  SheetInv'
<1>1. /\ shares[k] # NoShare /\ shares[k].step \in {"ok", "failed"}
      /\ shares'[k] = NoShare /\ \A j \in Click \ {k} : shares'[j] = shares[j]
      /\ UNCHANGED <<shared, friendList, removal, unsettled>>
      /\ users' = IF shares[k].mounted /\ shares[k].step = "ok"
                  THEN shares[k].users \cup {shares[k].friend} ELSE users
  BY ShareFacts DEF shareAnswered, ShareType
<1>2. SheetGone'
  BY <1>1, ShareFacts DEF SheetInv, SheetGone
<1>3. ASSUME ~unsettled PROVE ListComing' /\ ListFollows'
  <2>1. ListFollows /\ friendList.status \notin {"asked", "answered"}
    BY <1>1, <1>3 DEF SheetInv, ListComing
  <2>2. friendList.status = "success" =>
            /\ removal = NoRemoval /\ users \subseteq shared
            /\ users' = IF shares[k].step = "ok" THEN users \cup {shares[k].friend} ELSE users
            /\ shares[k].step = "ok" => shares[k].friend \in shared
    BY <1>1, <2>1 DEF ListFollows, ShareFollows
  <2>3. ASSUME NEW j \in Click, friendList.status = "success" PROVE ShareFollows(j)'
    <3>1. CASE j = k
      BY <1>1, <3>1 DEF ShareFollows
    <3>2. CASE j # k /\ shares[j] # NoShare
      <4>1. shares[j].friend = shares[k].friend /\ users' \ {shares[k].friend} = users \ {shares[k].friend}
        BY <1>1, <2>1, <2>2, <2>3, <3>2 DEF ListFollows, ShareFollows
      <4>2. ShareFollows(j) /\ shares'[j] = shares[j]
        BY <1>1, <2>1, <2>3, <3>2 DEF ListFollows
      <4>3. \A i \in Click : shares'[i] # NoShare => shares[i] # NoShare /\ shares'[i] = shares[i]
        BY <1>1
      <4>. QED BY <1>1, <3>2, <4>1, <4>2, <4>3 DEF ShareFollows
    <3>3. CASE j # k /\ shares[j] = NoShare
      BY <1>1, <3>3 DEF ShareFollows
    <3>. QED BY <3>1, <3>2, <3>3
  <2>4. ASSUME friendList.status = "success", NEW g \in shared \ users'
        PROVE  \E j \in Click : shares'[j] # NoShare /\ shares'[j].step = "ok" /\ shares'[j].friend = g
    <3>1. g \in shared \ users
      BY <2>2, <2>4
    <3>2. PICK j \in Click : shares[j] # NoShare /\ shares[j].step = "ok" /\ shares[j].friend = g
      BY <2>1, <2>2, <2>4, <3>1 DEF ListFollows
    <3>3. j # k
      BY <2>2, <2>4, <3>2
    <3>. QED BY <1>1, <3>2, <3>3
  <2>5. friendList.status = "success" => users' \subseteq shared /\ RemovalFollows'
    BY <1>1, <2>2 DEF RemovalFollows
  <2>. QED BY <1>1, <2>1, <2>2, <2>3, <2>4, <2>5 DEF ListComing, ListFollows
<1>. QED BY <1>1, <1>2, <1>3 DEF SheetInv

\* A removal was served, or is lost before that.
LEMMA DeletedFollows ==
    ASSUME ShareType, SheetInv, removal # NoRemoval, removal.step = "asked",
           NEW v \in {"ok", "failed"}, removal' = [removal EXCEPT !.step = v],
           \/ shared' = shared \ {removal.friend} /\ (v = "ok" <=> removal.friend \in shared)
           \/ shared' = shared /\ v = "failed",
           UNCHANGED <<friendList, users, shares, unsettled>>
    PROVE  SheetInv'
<1>1. /\ removal' # NoRemoval /\ removal'.step = v /\ removal'.friend = removal.friend
  BY RemovalSteps, ShareFacts
<1>2. SheetGone'
  BY <1>1 DEF SheetInv, SheetGone
<1>3. ASSUME ~unsettled PROVE ListComing' /\ ListFollows'
  <2>1. ListFollows /\ friendList.status \notin {"asked", "answered"}
    BY <1>3 DEF SheetInv, ListComing
  <2>2. friendList.status = "success" =>
            shared = users /\ removal.friend \in users
    BY <2>1 DEF ListFollows, RemovalFollows
  <2>3. friendList.status = "success" => RemovalFollows'
    BY <1>1, <2>2 DEF RemovalFollows
  <2>. QED BY <1>1, <2>1, <2>3 DEF ListComing, ListFollows, ShareFollows
<1>. QED BY <1>2, <1>3 DEF SheetInv

\* What the sheet does, and what data access does for it.
LEMMA ShareStepFollows ==
    ASSUME ShareType, SheetInv, NoneLeft, ShareStep PROVE SheetInv'
<1>1. CASE shared_by_me \/ receiveUsers \/ loseUsers
  <2>1. /\ friendList.status \in {"asked", "answered"}
        /\ UNCHANGED <<shared, shares, removal, unsettled>>
    BY <1>1 DEF shared_by_me, receiveUsers, loseUsers
  <2>2. SheetGone'
    BY <1>1 DEF shared_by_me, receiveUsers, loseUsers, SheetGone
  <2>3. ~unsettled => ListComing'
    BY <1>1, <2>1 DEF shared_by_me, receiveUsers, loseUsers, SheetInv, ListComing
  <2>4. ~unsettled => ListFollows'
    BY <1>1, <2>1 DEF shared_by_me, receiveUsers, loseUsers, SheetInv, ListComing, ListFollows, ShareFollows, RemovalFollows
  <2>. QED BY <2>1, <2>2, <2>3, <2>4 DEF SheetInv, SheetGone
<1>2. ASSUME NEW k \in Click, NEW f \in Friend, handleShare(k, f) PROVE SheetInv'
  <2>1. /\ friendList.status # "off" /\ shares[k] = NoShare /\ f \notin users
        /\ UNCHANGED <<shared, friendList, users, removal>>
        /\ ~unsettled' => /\ ~unsettled /\ friendList.status = "success" /\ removal = NoRemoval
                          /\ \A j \in Click : shares[j] # NoShare => shares[j].friend = f
    BY <1>2 DEF handleShare, sharing
  <2>2. PICK s \in ShareRequest :
            s = [friend |-> f, users |-> users, step |-> "asked", mounted |-> TRUE]
    BY DEF ShareRequest, ShareType
  <2>3. shares' = [shares EXCEPT ![k] = s]
    BY <1>2, <2>2 DEF handleShare
  <2>4. /\ shares'[k] = s /\ s # NoShare /\ s.friend = f /\ s.users = users /\ s.mounted
        /\ s.step = "asked"
        /\ \A j \in Click \ {k} : shares'[j] = shares[j]
    BY <2>2, <2>3, ShareFacts DEF ShareType
  <2>5. SheetGone'
    BY <2>1 DEF SheetGone
  <2>6. ASSUME ~unsettled' PROVE ListComing' /\ ListFollows'
    <3>1. ListFollows /\ friendList.status = "success"
      BY <2>1, <2>6 DEF SheetInv
    <3>2. ASSUME NEW j \in Click PROVE ShareFollows(j)'
      BY <2>1, <2>4, <2>6, <3>1 DEF ListFollows, ShareFollows
    <3>3. RemovalFollows'
      BY <2>1, <3>1 DEF ListFollows, RemovalFollows
    <3>4. users \subseteq shared /\ \A g \in shared \ users :
                \E j \in Click : shares[j] # NoShare /\ shares[j].step = "ok" /\ shares[j].friend = g
      BY <2>1, <2>6, <3>1 DEF ListFollows
    <3>5. ASSUME NEW g \in shared \ users
          PROVE  \E j \in Click : shares'[j] # NoShare /\ shares'[j].step = "ok" /\ shares'[j].friend = g
      BY <2>1, <2>4, <3>4
    <3>. QED BY <2>1, <3>1, <3>2, <3>3, <3>4, <3>5 DEF ListComing, ListFollows
  <2>. QED BY <2>5, <2>6 DEF SheetInv
<1>3. ASSUME NEW k \in Click, validate_email(k) PROVE SheetInv'
  <2>1. shares[k] # NoShare /\ UNCHANGED <<shared, friendList, users, removal, unsettled>>
    BY <1>3, ShareFacts DEF validate_email
  <2>2. PICK v \in {"valid", "failed"} : shares' = [shares EXCEPT ![k].step = v]
    BY <1>3 DEF validate_email
  <2>3. shares[k].step # "ok"
    BY <1>3 DEF validate_email
  <2>. QED BY <2>1, <2>2, <2>3, StepFollows
<1>4. ASSUME NEW k \in Click, perform_create(k) PROVE SheetInv'
  <2>1. /\ shares[k] # NoShare /\ shares[k].step = "valid"
        /\ UNCHANGED <<friendList, users, removal, unsettled>>
    BY <1>4, ShareFacts DEF perform_create
  <2>2. CASE shares[k].friend \in shared
    <3>1. shares' = [shares EXCEPT ![k].step = "failed"] /\ shared' = shared
      BY <1>4, <2>2 DEF perform_create
    <3>. QED BY <2>1, <3>1, StepFollows
  <2>3. CASE shares[k].friend \notin shared
    <3>1. shares' = [shares EXCEPT ![k].step = "ok"] /\ shared' = shared \cup {shares[k].friend}
      BY <1>4, <2>3 DEF perform_create
    <3>. QED BY <2>1, <2>3, <3>1, RowFollows
  <2>. QED BY <2>2, <2>3
<1>5. ASSUME NEW k \in Click, shareAnswered(k) PROVE SheetInv'
  BY <1>5, AnswerFollows
<1>6. ASSUME NEW k \in Click, loseShare(k) PROVE SheetInv'
  <2>1. /\ shares[k] # NoShare /\ shares' = [shares EXCEPT ![k].step = "failed"]
        /\ UNCHANGED <<shared, friendList, users, removal>>
        /\ unsettled' = (unsettled \/ shares[k].step = "ok")
    BY <1>6, ShareFacts DEF loseShare
  <2>2. CASE shares[k].step # "ok"
    BY <2>1, <2>2, StepFollows DEF ShareType
  <2>3. CASE shares[k].step = "ok"
    <3>1. \A j \in Click : ~shares[j].mounted => ~shares'[j].mounted
      BY <2>1, ShareSteps
    <3>. QED BY <2>1, <2>3, <3>1 DEF SheetInv, SheetGone
  <2>. QED BY <2>2, <2>3
<1>7. ASSUME NEW f \in Friend, handleShareRemove(f) PROVE SheetInv'
  <2>1. /\ f \in users /\ removal = NoRemoval /\ UNCHANGED <<shared, friendList, users, shares>>
        /\ ~unsettled' => ~unsettled /\ \A k \in Click : shares[k] = NoShare
    BY <1>7 DEF handleShareRemove, sharing
  <2>2. PICK s \in RemovalRequest : s = [friend |-> f, step |-> "asked"]
    BY DEF RemovalRequest
  <2>3. removal' = s /\ s # NoRemoval /\ s.friend = f /\ s.step = "asked"
    BY <1>7, <2>2, ShareFacts DEF handleShareRemove
  <2>4. SheetGone'
    BY <2>1 DEF SheetInv, SheetGone
  <2>5. ASSUME ~unsettled' PROVE ListComing' /\ ListFollows'
    <3>1. ListFollows /\ friendList.status \notin {"asked", "answered"}
      BY <2>1, <2>5 DEF SheetInv, ListComing
    <3>2. friendList.status = "success" => shared = users
      BY <2>1, <2>5, <3>1 DEF ListFollows, ShareType
    <3>. QED BY <2>1, <2>3, <2>5, <3>1, <3>2 DEF ListComing, ListFollows, ShareFollows, RemovalFollows
  <2>. QED BY <2>4, <2>5 DEF SheetInv
<1>8. ASSUME NEW f \in Friend, shareElsewhere(f) PROVE SheetInv'
  BY <1>8 DEF shareElsewhere, SheetInv, SheetGone
<1>9. CASE destroyShare
  <2>1. removal # NoRemoval /\ removal.step = "asked" /\ shared' = shared \ {removal.friend}
    BY <1>9, ShareFacts DEF destroyShare
  <2>2. PICK v \in {"ok", "failed"} :
            v = (IF removal.friend \in shared THEN "ok" ELSE "failed")
    OBVIOUS
  <2>3. removal' = [removal EXCEPT !.step = v] /\ UNCHANGED <<friendList, users, shares, unsettled>>
    BY <1>9, <2>2 DEF destroyShare
  <2>. QED BY <2>1, <2>2, <2>3, DeletedFollows
<1>10. CASE removeAnswered
  <2>1. /\ removal # NoRemoval /\ removal' = NoRemoval
        /\ UNCHANGED <<shared, friendList, shares, unsettled>>
        /\ users' = IF removal.step = "ok" THEN users \ {removal.friend} ELSE users
    BY <1>10, ShareFacts DEF removeAnswered
  <2>2. SheetGone'
    BY <2>1, ShareFacts DEF SheetInv, SheetGone
  <2>3. ASSUME ~unsettled' PROVE ListComing' /\ ListFollows'
    <3>1. ListFollows /\ friendList.status \notin {"asked", "answered"}
      BY <2>1, <2>3 DEF SheetInv, ListComing
    <3>2. friendList.status = "success" => shared = users' /\ \A k \in Click : shares[k] = NoShare
      BY <2>1, <3>1 DEF ListFollows, RemovalFollows, ShareFollows
    <3>. QED BY <2>1, <3>1, <3>2 DEF ListComing, ListFollows, ShareFollows, RemovalFollows
  <2>. QED BY <2>2, <2>3 DEF SheetInv
<1>11. CASE loseRemoval
  <2>1. /\ removal # NoRemoval /\ removal' = [removal EXCEPT !.step = "failed"]
        /\ UNCHANGED <<shared, friendList, users, shares>>
        /\ removal.step \in {"asked", "ok"} /\ unsettled' = (unsettled \/ removal.step = "ok")
    BY <1>11, ShareFacts DEF loseRemoval
  <2>2. CASE removal.step = "asked"
    BY <2>1, <2>2, DeletedFollows DEF ShareType
  <2>3. CASE removal.step = "ok"
    BY <2>1, <2>3 DEF SheetInv, SheetGone
  <2>. QED BY <2>1, <2>2, <2>3
<1>12. ASSUME NEW f \in Friend, destroyLeft(f) PROVE SheetInv'
  <2>1. unsettled \/ friendList.status = "off"
    BY <1>12 DEF destroyLeft, NoneLeft
  <2>. QED BY <1>12, <2>1 DEF destroyLeft, SheetInv, SheetGone, ListComing, ListFollows
<1>13. CASE \E f \in Friend : handleShareRemove(f) \/ destroyLeft(f) \/ shareElsewhere(f)
  BY <1>7, <1>8, <1>12, <1>13
<1>14. CASE \E k \in Click :
             \/ \E f \in Friend : handleShare(k, f)
             \/ validate_email(k) \/ perform_create(k) \/ shareAnswered(k) \/ loseShare(k)
  BY <1>2, <1>3, <1>4, <1>5, <1>6, <1>14
<1>. QED BY <1>1, <1>9, <1>10, <1>11, <1>13, <1>14 DEF ShareStep

\* What is left of earlier sheets only gets less while a sheet is there.
LEMMA LeftStays == ASSUME NoneLeft, ShareStep \/ UNCHANGED shareVars PROVE NoneLeft'
<1>1. CASE shared_by_me \/ receiveUsers \/ loseUsers
  BY <1>1 DEF NoneLeft, shared_by_me, receiveUsers, loseUsers
<1>2. ASSUME NEW k \in Click, NEW f \in Friend, handleShare(k, f) PROVE NoneLeft'
  BY <1>2 DEF NoneLeft, handleShare
<1>3. ASSUME NEW k \in Click, validate_email(k) \/ perform_create(k) \/ shareAnswered(k)
      PROVE  NoneLeft'
  BY <1>3 DEF NoneLeft, validate_email, perform_create, shareAnswered
<1>4. ASSUME NEW k \in Click, loseShare(k) PROVE NoneLeft'
  BY <1>4 DEF NoneLeft, loseShare
<1>5. ASSUME NEW f \in Friend, handleShareRemove(f) \/ destroyLeft(f) \/ shareElsewhere(f)
      PROVE  NoneLeft'
  BY <1>5 DEF NoneLeft, handleShareRemove, destroyLeft, shareElsewhere
<1>6. CASE destroyShare \/ removeAnswered \/ loseRemoval
  <2>1. CASE destroyShare
    BY <2>1 DEF NoneLeft, destroyShare
  <2>2. CASE removeAnswered
    BY <2>2 DEF NoneLeft, removeAnswered
  <2>3. CASE loseRemoval
    BY <2>3 DEF NoneLeft, loseRemoval
  <2>. QED BY <1>6, <2>1, <2>2, <2>3
<1>7. CASE UNCHANGED shareVars
  BY <1>7 DEF NoneLeft, shareVars
<1>8. CASE \E k \in Click :
            \/ \E f \in Friend : handleShare(k, f)
            \/ validate_email(k) \/ perform_create(k) \/ shareAnswered(k) \/ loseShare(k)
  BY <1>2, <1>3, <1>4, <1>8
<1>9. CASE \E f \in Friend : handleShareRemove(f) \/ destroyLeft(f) \/ shareElsewhere(f)
  BY <1>5, <1>9
<1>. QED BY <1>1, <1>6, <1>7, <1>8, <1>9 DEF ShareStep

LEMMA SheetMounts ==
    ASSUME friendList.status = "off", SheetInv, mountSheet PROVE SheetInv'
BY DEF mountSheet, SheetInv, SheetGone, ListComing, ListFollows, sheetIsQuiet, sharing

LEMMA SheetUnmounts == ASSUME ShareType, unmountSheet PROVE SheetInv'
<1>1. \A k \in Click : ~shares'[k].mounted
  <2> SUFFICES ASSUME NEW k \in Click PROVE ~shares'[k].mounted
    OBVIOUS
  <2>1. shares'[k] = [shares[k] EXCEPT !.mounted = FALSE]
    BY DEF unmountSheet
  <2>2. CASE shares[k] \in ShareRequest
    BY <2>1, <2>2 DEF ShareRequest
  <2>3. CASE shares[k] = NoShare
    BY <2>1, <2>3 DEF NoShare
  <2>. QED BY <2>2, <2>3 DEF ShareType
<1>. QED BY <1>1 DEF unmountSheet, SheetInv, SheetGone, ListComing, ListFollows

-----------------------------------------------------------------------------
(* The sheet on the calendar page                                          *)

\* Only the calendar page has a sheet, and only when its list is there or has failed.
SheetOnPage ==
    /\ lists = [l \in {"draft", "calendar"} |-> lists[l]]
    /\ page = "calendar" => lists["draft"].status = "off"
    /\ friendList.status # "off" =>
        page = "calendar" /\ lists["calendar"].status \in {"success", "error"}

SheetSafe == ShareType /\ SheetInv /\ NoneLeft /\ SheetOnPage

LEMMA SheetSafeInit == Init => SheetSafe
<1> SUFFICES ASSUME Init PROVE SheetSafe
  OBVIOUS
<1>1. ShareType /\ SheetInv /\ NoneLeft
  BY ShareTypeInit, SheetInit DEF Init, SharesInit, NoneLeft
<1>2. SheetOnPage
  BY DEF Init, SharesInit, SheetOnPage, noList
<1>. QED BY <1>1, <1>2 DEF SheetSafe

\* A step that leaves the page and the statuses of its lists leaves the sheet where it is.
LEMMA SheetStays ==
    ASSUME SheetSafe, UNCHANGED <<page, lists>>, ShareStep \/ UNCHANGED shareVars
    PROVE  SheetSafe'
<1>1. ShareType'
  BY ShareTypeStep DEF SheetSafe, ShareActions
<1>2. SheetInv'
  <2>1. CASE ShareStep
    BY <2>1, ShareStepFollows DEF SheetSafe
  <2>2. CASE UNCHANGED shareVars
    BY <2>2 DEF SheetSafe, SheetInv, SheetGone, ListComing, ListFollows, ShareFollows,
                RemovalFollows, shareVars
  <2>. QED BY <2>1, <2>2
<1>3. friendList.status = "off" => friendList'.status = "off"
  <2>1. CASE ShareStep
    BY <2>1 DEF ShareStep, shared_by_me, receiveUsers, loseUsers, handleShare, validate_email,
                perform_create, shareAnswered, loseShare, handleShareRemove, shareElsewhere,
                destroyShare, removeAnswered, loseRemoval, destroyLeft
  <2>2. CASE UNCHANGED shareVars
    BY <2>2 DEF shareVars
  <2>. QED BY <2>1, <2>2
<1>4. SheetOnPage'
  BY <1>3 DEF SheetSafe, SheetOnPage
<1>5. NoneLeft'
  BY LeftStays DEF SheetSafe
<1>. QED BY <1>1, <1>2, <1>4, <1>5 DEF SheetSafe

\* The list of the page is there, or not to be had.
LEMMA SheetLoaded ==
    ASSUME SheetSafe, NEW l \in {"draft", "calendar"}, NEW S \in {"success", "error"},
           lists[l].status \in {"asked", "answered"},
           lists' = [lists EXCEPT ![l] = [status |-> S, value |-> <<>>]],
           loaded, UNCHANGED page
    PROVE  SheetSafe'
<1>1. friendList.status = "off"
  BY DEF SheetSafe, SheetOnPage
<1>2. /\ lists'[l].status = S /\ \A k \in {"draft", "calendar"} \ {l} : lists'[k] = lists[k]
      /\ lists' = [k \in {"draft", "calendar"} |-> lists'[k]]
  BY DEF SheetSafe, SheetOnPage
<1>3. CASE page = "calendar"
  <2>1. mountSheet /\ l = "calendar"
    BY <1>3 DEF loaded, SheetSafe, SheetOnPage
  <2>2. ShareType' /\ SheetInv' /\ NoneLeft'
    <3>1. NoneLeft'
      BY <2>1 DEF mountSheet, NoneLeft, sheetIsQuiet
    <3>. QED BY <1>1, <2>1, <3>1, ShareTypeStep, SheetMounts DEF SheetSafe, ShareActions
  <2>3. SheetOnPage'
    BY <1>2, <1>3, <2>1 DEF SheetSafe, SheetOnPage
  <2>. QED BY <2>2, <2>3 DEF SheetSafe
<1>4. CASE page # "calendar"
  <2>1. UNCHANGED shareVars
    BY <1>4 DEF loaded
  <2>2. ShareType' /\ SheetInv' /\ NoneLeft'
    BY <2>1, ShareTypeStep, LeftStays
    DEF SheetSafe, ShareActions, SheetInv, SheetGone, ListComing, ListFollows, ShareFollows,
        RemovalFollows, shareVars
  <2>3. SheetOnPage'
    BY <1>1, <1>2, <1>4, <2>1 DEF SheetOnPage, shareVars
  <2>. QED BY <2>2, <2>3 DEF SheetSafe
<1>. QED BY <1>3, <1>4

LEMMA SheetVisit == ASSUME SheetSafe, NEW p, visit(p) PROVE SheetSafe'
<1>1. /\ lists' = [l \in {"draft", "calendar"} |-> lists'[l]]
      /\ p = "calendar" => lists'["draft"].status = "off"
      /\ page' = p /\ p # page
  BY DEF visit, noList
<1>2. CASE page = "calendar"
  <2>1. unmountSheet
    BY <1>2 DEF visit
  <2>2. ShareType' /\ SheetInv' /\ NoneLeft' /\ friendList'.status = "off"
    BY <2>1, ShareTypeStep, SheetUnmounts DEF SheetSafe, ShareActions, unmountSheet, NoneLeft
  <2>. QED BY <1>1, <2>2 DEF SheetSafe, SheetOnPage
<1>3. CASE page # "calendar"
  <2>1. UNCHANGED shareVars /\ friendList.status = "off"
    BY <1>3 DEF visit, SheetSafe, SheetOnPage
  <2>2. ShareType' /\ SheetInv' /\ NoneLeft'
    BY <2>1, ShareTypeStep, LeftStays
    DEF SheetSafe, ShareActions, SheetInv, SheetGone, ListComing, ListFollows, ShareFollows,
        RemovalFollows, shareVars
  <2>. QED BY <1>1, <2>1, <2>2 DEF SheetSafe, SheetOnPage, shareVars
<1>. QED BY <1>2, <1>3

LEMMA SheetSafeStep == SheetSafe /\ [Next]_vars => SheetSafe'
<1> SUFFICES ASSUME SheetSafe, [Next]_vars PROVE SheetSafe'
  OBVIOUS
<1>1. ASSUME NEW p \in {"scheduler", "drafts", "calendar"}, visit(p) PROVE SheetSafe'
  BY <1>1, SheetVisit
<1>2. ASSUME NEW l \in {"draft", "calendar"}, getList(l) PROVE SheetSafe'
  <2>1. /\ lists[l].status = "asked" /\ UNCHANGED page /\ UNCHANGED shareVars
        /\ lists' = [lists EXCEPT ![l] = [status |-> "answered", value |-> getSchedulesByUserUuid(l)]]
    BY <1>2 DEF getList
  <2>2. ShareType' /\ SheetInv' /\ NoneLeft'
    BY <2>1, ShareTypeStep, LeftStays
    DEF SheetSafe, ShareActions, SheetInv, SheetGone, ListComing, ListFollows, ShareFollows,
        RemovalFollows, shareVars
  <2>3. SheetOnPage'
    <3>1. /\ \A k \in {"draft", "calendar"} \ {l} : lists'[k] = lists[k]
          /\ lists' = [k \in {"draft", "calendar"} |-> lists'[k]]
      BY <2>1 DEF SheetSafe, SheetOnPage
    <3>2. page = "calendar" => l = "calendar"
      BY <2>1 DEF SheetSafe, SheetOnPage
    <3>. QED BY <2>1, <3>1, <3>2 DEF SheetSafe, SheetOnPage, shareVars
  <2>. QED BY <2>2, <2>3 DEF SheetSafe
<1>3. ASSUME NEW l \in {"draft", "calendar"}, listArrives(l) PROVE SheetSafe'
  BY <1>3, SheetLoaded DEF listArrives
<1>4. ASSUME NEW l \in {"draft", "calendar"}, listFails(l) PROVE SheetSafe'
  BY <1>4, SheetLoaded DEF listFails
<1>5. ASSUME NEW t \in Term, Clicked(t) PROVE SheetSafe'
  <2>1. UNCHANGED <<page, lists, shareVars>>
    BY <1>5 DEF Clicked, handleScheduleNumChange, decrementScheduleIdx, incrementScheduleIdx,
                handleDeleteSchedule, handleMoveToCalendar, saveSchedule, ask, viewVars
  <2>. QED BY <2>1, SheetStays
<1>6. ASSUME NEW t \in Term, serve(t) \/ lose(t) \/ answered(t) PROVE SheetSafe'
  <2>1. UNCHANGED <<page, lists, shareVars>>
    BY <1>6 DEF serve, lose, answered, viewVars
  <2>. QED BY <2>1, SheetStays
<1>7. ASSUME NEW s \in ScheduleId, handleDelete(s) \/ handleMoveToDrafts(s) \/ timetableChanges(s)
      PROVE  SheetSafe'
  <2>1. UNCHANGED <<page, lists, shareVars>>
    BY <1>7 DEF handleDelete, handleMoveToDrafts, changeCalendar, ask, timetableChanges, viewVars
  <2>. QED BY <2>1, SheetStays
<1>8. ASSUME NEW r \in left, serveLeft(r) PROVE SheetSafe'
  <2>1. UNCHANGED <<page, lists, shareVars>>
    BY <1>8 DEF serveLeft, viewVars
  <2>. QED BY <2>1, SheetStays
<1>9. CASE elsewhere
  <2>1. UNCHANGED <<page, lists, shareVars>>
    BY <1>9 DEF elsewhere, viewVars
  <2>. QED BY <2>1, SheetStays
<1>10. CASE ShareStep /\ UNCHANGED pageVars
  BY <1>10, SheetStays DEF pageVars, viewVars
<1>11. CASE UNCHANGED vars
  BY <1>11, SheetStays DEF vars, pageVars, viewVars
<1>. QED BY <1>1, <1>2, <1>3, <1>4, <1>5, <1>6, <1>7, <1>8, <1>9, <1>10, <1>11 DEF Next

\* Once everything was answered the sheet lists exactly the friends who see the calendar
\* (ShareSheet.tsx handleShare and handleShareRemove against the rows of CalendarShare),
\* for any number of friends, clicks and schedules.
THEOREM SheetShowsAccess == Spec => []ShareSheetShowsAccess
<1>1. SheetSafe => ShareSheetShowsAccess
  <2> SUFFICES ASSUME SheetSafe, friendList.status = "success", sheetIsQuiet, ~unsettled
               PROVE  users = shared
    BY DEF ShareSheetShowsAccess
  <2>1. (\A k \in Click : shares[k] = NoShare) /\ removal = NoRemoval
    BY DEF sheetIsQuiet, sharing
  <2>2. ListFollows
    BY DEF SheetSafe, SheetInv
  <2>. QED BY <2>1, <2>2 DEF ListFollows
<1>. QED BY <1>1, SheetSafeInit, SheetSafeStep, PTL DEF Spec

-----------------------------------------------------------------------------
(* Lists and what is selected from them                                    *)

\* Induction over the natural numbers, stated with a set.
Less == {p \in Nat \X Nat : p[1] < p[2]}

LEMMA SetInduction ==
  ASSUME NEW S, 0 \in S, \A n \in Nat : n \in S => n + 1 \in S
  PROVE Nat \subseteq S
<1> DEFINE T == Nat \ S
<1> SUFFICES ASSUME T # {} PROVE FALSE
  OBVIOUS
<1>1. Less = OpToRel(<, Nat)
  BY DEF Less, OpToRel
<1>2. PICK x \in T : \A y \in T : ~(<<y, x>> \in Less)
  BY <1>1, NatLessThanWellFounded, WFMin
<1>3. x \in Nat /\ x # 0 /\ x - 1 \in Nat
  OBVIOUS
<1>4. <<x - 1, x>> \in Less
  BY <1>3 DEF Less
<1>5. x - 1 \in S
  BY <1>2, <1>3, <1>4
<1>. QED BY <1>3, <1>5

\* What selected computes element by element.
Steps(f, m, T, list, S) ==
    /\ f \in [0..m -> Seq(T)] /\ f[0] = <<>>
    /\ \A n \in 1..m : f[n] = IF list[n] \in S THEN Append(f[n - 1], list[n]) ELSE f[n - 1]

LEMMA StepsExist ==
    ASSUME NEW T, NEW list \in Seq(T), NEW S PROVE \E f : Steps(f, Len(list), T, list, S)
<1> DEFINE I == {m \in Nat : m <= Len(list) => \E f : Steps(f, m, T, list, S)}
<1>1. 0 \in I
  <2>1. Steps([i \in 0..0 |-> <<>>], 0, T, list, S)
    <3>1. <<>> \in Seq(T)
      OBVIOUS
    <3>. QED BY <3>1 DEF Steps
  <2>. QED BY <2>1
<1>2. ASSUME NEW m \in Nat, m \in I PROVE m + 1 \in I
  <2> SUFFICES ASSUME m + 1 <= Len(list) PROVE \E f : Steps(f, m + 1, T, list, S)
    OBVIOUS
  <2>1. PICK f : Steps(f, m, T, list, S)
    BY <1>2
  <2>2. list[m + 1] \in T /\ f[m] \in Seq(T)
    BY <2>1 DEF Steps
  <2> DEFINE e == IF list[m + 1] \in S THEN Append(f[m], list[m + 1]) ELSE f[m]
             g == [i \in 0..(m + 1) |-> IF i = m + 1 THEN e ELSE f[i]]
  <2>3. e \in Seq(T)
    BY <2>2
  <2> HIDE DEF e
  <2>4. g \in [0..(m+1) -> Seq(T)] /\ g[0] = <<>> /\ g[m] = f[m] /\ g[m + 1] = e
    BY <2>1, <2>3 DEF Steps
  <2>5. \A n \in 1..m : g[n] = f[n] /\ g[n - 1] = f[n - 1]
    OBVIOUS
  <2>6. ASSUME NEW n \in 1..(m + 1)
        PROVE  g[n] = IF list[n] \in S THEN Append(g[n - 1], list[n]) ELSE g[n - 1]
    <3>1. CASE n = m + 1
      BY <2>4, <3>1 DEF e
    <3>2. CASE n \in 1..m
      BY SMTT(30), <2>1, <2>5, <3>2 DEF Steps
    <3>. QED BY <3>1, <3>2
  <2>7. Steps(g, m + 1, T, list, S)
    BY <2>4, <2>6 DEF Steps
  <2>. QED BY <2>7
<1> HIDE DEF I
<1>3. Len(list) \in I
  BY <1>1, <1>2, SetInduction
<1>. QED BY <1>3 DEF I

LEMMA SelectedSteps ==
    ASSUME NEW T, NEW list \in Seq(T), NEW S
    PROVE \E f : Steps(f, Len(list), T, list, S) /\ selected(list, S) = f[Len(list)]
<1> DEFINE Is(f) == f = [n \in 0..Len(list) |-> IF n = 0 THEN <<>>
                         ELSE IF list[n] \in S THEN Append(f[n - 1], list[n]) ELSE f[n - 1]]
<1>1. PICK f : Steps(f, Len(list), T, list, S)
  BY StepsExist
<1>2. Is(f)
  <2>1. DOMAIN f = 0..Len(list) /\ f = [n \in 0..Len(list) |-> f[n]]
    BY <1>1 DEF Steps
  <2>2. ASSUME NEW n \in 0..Len(list)
        PROVE  f[n] = IF n = 0 THEN <<>>
                      ELSE IF list[n] \in S THEN Append(f[n - 1], list[n]) ELSE f[n - 1]
    <3>1. CASE n = 0
      BY <1>1, <3>1 DEF Steps
    <3>2. CASE n \in 1..Len(list)
      BY <1>1, <3>2 DEF Steps
    <3>. QED BY <3>1, <3>2
  <2>. QED BY <2>1, <2>2
<1>3. PICK g : g = CHOOSE h : Is(h)
  OBVIOUS
<1>4. Is(g)
  BY <1>2, <1>3
<1>5. selected(list, S) = g[Len(list)]
  BY <1>3 DEF selected
<1>6. \A n \in 0..Len(list) :
        g[n] = IF n = 0 THEN <<>> ELSE IF list[n] \in S THEN Append(g[n - 1], list[n]) ELSE g[n - 1]
  BY <1>4
<1> HIDE DEF Is
<1>7. \A n \in 0..Len(list) : g[n] = f[n]
  <2> DEFINE I == {n \in Nat : n <= Len(list) => g[n] = f[n]}
  <2>0. /\ \A n \in 1..Len(list) : g[n] = IF list[n] \in S THEN Append(g[n - 1], list[n]) ELSE g[n - 1]
        /\ g[0] = <<>>
    BY <1>6
  <2>1. 0 \in I
    BY <1>1, <2>0 DEF Steps
  <2>2. ASSUME NEW n \in Nat, n \in I PROVE n + 1 \in I
    <3> SUFFICES ASSUME n + 1 <= Len(list) PROVE g[n + 1] = f[n + 1]
      OBVIOUS
    <3>1. n + 1 \in 1..Len(list) /\ (n + 1) - 1 = n /\ g[n] = f[n]
      BY <2>2
    <3>. QED BY <1>1, <2>0, <3>1 DEF Steps
  <2> HIDE DEF I
  <2>3. Nat \subseteq I
    BY <2>1, <2>2, SetInduction
  <2>. QED BY <2>3 DEF I
<1>. QED BY <1>1, <1>5, <1>7

LEMMA AppendFacts ==
    ASSUME NEW T, NEW list \in Seq(T), NEW e \in T
    PROVE  /\ Append(list, e) \in Seq(T)
           /\ Range(Append(list, e)) = Range(list) \cup {e}
           /\ IsInjective(list) /\ e \notin Range(list) => IsInjective(Append(list, e))
<1>1. PICK r : r = Append(list, e)
  OBVIOUS
<1>2. /\ r \in Seq(T) /\ DOMAIN r = 1..(Len(list) + 1) /\ r[Len(list) + 1] = e
      /\ \A i \in 1..Len(list) : r[i] = list[i]
      /\ DOMAIN list = 1..Len(list) /\ Len(list) \in Nat
  BY <1>1
<1>3. Range(r) = Range(list) \cup {e}
  <2>1. \A i \in DOMAIN r : r[i] \in Range(list) \cup {e}
    BY <1>2 DEF Range
  <2>2. \A i \in DOMAIN list : list[i] \in Range(r)
    BY <1>2 DEF Range
  <2>3. e \in Range(r)
    BY <1>2 DEF Range
  <2>. QED BY <2>1, <2>2, <2>3 DEF Range
<1>4. IsInjective(list) /\ e \notin Range(list) => IsInjective(r)
  BY <1>2 DEF IsInjective, Range
<1>. QED BY <1>1, <1>2, <1>3, <1>4

\* What is selected is in the list and in the set, each element as often as in the list.
LEMMA SelectedFacts ==
    ASSUME NEW T, NEW list \in Seq(T), NEW S
    PROVE  /\ selected(list, S) \in Seq(T)
           /\ Range(selected(list, S)) = Range(list) \cap S
           /\ IsInjective(list) => IsInjective(selected(list, S))
<1>1. PICK f : Steps(f, Len(list), T, list, S) /\ selected(list, S) = f[Len(list)]
  BY SelectedSteps
<1> DEFINE Upto(n) == {list[i] : i \in 1..n}
           I == {n \in Nat : n <= Len(list) =>
                    /\ Range(f[n]) = Upto(n) \cap S
                    /\ IsInjective(list) => IsInjective(f[n])}
<1>2. 0 \in I
  BY <1>1 DEF Steps, Range, IsInjective
<1>3. ASSUME NEW n \in Nat, n \in I PROVE n + 1 \in I
  <2> SUFFICES ASSUME n + 1 <= Len(list)
               PROVE  /\ Range(f[n + 1]) = Upto(n + 1) \cap S
                      /\ IsInjective(list) => IsInjective(f[n + 1])
    OBVIOUS
  <2>0. Range(f[n]) = Upto(n) \cap S /\ (IsInjective(list) => IsInjective(f[n]))
    BY <1>3
  <2>1. /\ f[n] \in Seq(T) /\ list[n + 1] \in T
        /\ f[n + 1] = IF list[n + 1] \in S THEN Append(f[n], list[n + 1]) ELSE f[n]
    <3>1. n + 1 \in 1..Len(list) /\ (n + 1) - 1 = n /\ n \in 0..Len(list)
      OBVIOUS
    <3>. QED BY <1>1, <3>1 DEF Steps
  <2>2. Upto(n + 1) = Upto(n) \cup {list[n + 1]}
    OBVIOUS
  <2>3. IsInjective(list) => list[n + 1] \notin Upto(n)
    BY DEF IsInjective
  <2>. HIDE DEF Upto
  <2>4. CASE list[n + 1] \notin S
    BY <2>0, <2>1, <2>2, <2>4
  <2>5. CASE list[n + 1] \in S
    <3>1. PICK q \in Seq(T) : q = f[n]
      BY <2>1
    <3>2. PICK e \in T : e = list[n + 1]
      BY <2>1
    <3>3. Range(Append(q, e)) = Range(q) \cup {e}
      BY AppendFacts
    <3>4. e \notin Range(q) /\ IsInjective(q) => IsInjective(Append(q, e))
      BY AppendFacts
    <3>5. f[n + 1] = Append(q, e)
      BY <2>1, <2>5, <3>1, <3>2
    <3>6. Range(f[n + 1]) = Upto(n + 1) \cap S
      BY <2>0, <2>2, <2>5, <3>1, <3>2, <3>3, <3>5
    <3>7. IsInjective(list) => e \notin Range(q) /\ IsInjective(q)
      BY <2>0, <2>3, <3>1, <3>2
    <3>. QED BY <3>4, <3>5, <3>6, <3>7
  <2>. QED BY <2>4, <2>5
<1>. HIDE DEF I
<1>4. Len(list) \in I
  BY <1>2, <1>3, SetInduction
<1>5. Upto(Len(list)) = Range(list)
  BY DEF Range
<1>6. f[Len(list)] \in Seq(T)
  BY <1>1 DEF Steps
<1>. QED BY <1>1, <1>4, <1>5, <1>6 DEF I

\* A list without repetitions is as long as it has elements.
LEMMA InjectiveLength ==
    ASSUME NEW T, NEW list \in Seq(T), IsInjective(list)
    PROVE  IsFiniteSet(Range(list)) /\ Cardinality(Range(list)) = Len(list)
<1>1. list \in Bijection(1..Len(list), Range(list))
  BY DEF Bijection, Injection, Surjection, Range, IsInjective
<1>2. ExistsBijection(1..Len(list), Range(list))
  BY <1>1 DEF ExistsBijection
<1>. QED BY <1>2, FS_CountingElements, FS_NatBijection

-----------------------------------------------------------------------------
(* Types of the rows and of the pages                                      *)

Listing(list) == list \in Seq(ScheduleId) /\ Range(list) \subseteq DOMAIN made

Operation(t) == [kind : {"delete", "toCalendar", "toDrafts"}, schedule : ofTerm(t),
                 calSchedule : ofTerm(t) \cup {NoSchedule}, idx : Int,
                 step : {"asked", "ok", "failed"}]

\* There is room for the one schedule that may be waiting to be saved.
LeftInv ==
    /\ \A r \in left :
        /\ r.term \in Term
        /\ \/ /\ r.schedule = NoSchedule /\ r.kind \in {"saveDraft", "saveCalendar"}
              /\ Len(made) < MaxSchedules
           \/ r.schedule \in DOMAIN made /\ r.kind \in {"delete", "toCalendar", "toDrafts"}
    /\ \A r, q \in left : r.schedule = NoSchedule /\ q.schedule = NoSchedule => r = q

\* The calendar holds one schedule of a term.
RowsInv ==
    /\ made \in Seq(Term) /\ Len(made) <= MaxSchedules
    /\ place \in [ScheduleId -> {"absent", "draft", "calendar"}]
    /\ unreadable \subseteq ScheduleId
    /\ \A s \in ScheduleId : place[s] # "absent" => s \in DOMAIN made
    /\ \A s, v \in DOMAIN made :
        place[s] = "calendar" /\ place[v] = "calendar" /\ made[s] = made[v] => s = v
    /\ LeftInv

ViewInv ==
    /\ page \in {"scheduler", "drafts", "calendar"}
    /\ DOMAIN lists = {"draft", "calendar"}
    /\ \A l \in {"draft", "calendar"} : Listing(lists[l].value)
    /\ Listing(drafts) /\ Listing(calendarSchedules)
    /\ scheduleIdx \in [Term -> Int]
    /\ DOMAIN ops = Term /\ \A t \in Term : ops[t] \in Operation(t) \cup {NoOp}
    /\ page = "scheduler" => \A l \in {"draft", "calendar"} : lists[l].status = "off"
    /\ page = "calendar" => lists["draft"].status = "off"
    /\ page = "scheduler" => \A t \in Term : ops[t] = NoOp

LEMMA OpFacts ==
    /\ \A t, op : op \in Operation(t) => op # NoOp
    /\ NoOp.step = "none" /\ NoOp.kind = "none"
BY DEF Operation, NoOp

LEMMA OpSteps ==
    ASSUME ViewInv, NEW t \in Term, ops[t] # NoOp, NEW v \in {"asked", "ok", "failed"},
           ops' = [ops EXCEPT ![t].step = v]
    PROVE  /\ DOMAIN ops' = Term
           /\ \A u \in Term \ {t} : ops'[u] = ops[u]
           /\ ops[t] \in Operation(t) /\ ops'[t] \in Operation(t)
           /\ ops'[t].step = v /\ ops'[t].kind = ops[t].kind /\ ops'[t].schedule = ops[t].schedule
           /\ ops'[t].calSchedule = ops[t].calSchedule /\ ops'[t].idx = ops[t].idx
<1>1. ops[t] \in Operation(t) /\ DOMAIN ops = Term
  BY DEF ViewInv
<1>2. PICK op \in Operation(t) : op = ops[t]
  BY <1>1
<1>3. [op EXCEPT !.step = v] \in Operation(t)
  BY DEF Operation
<1>4. ops' = [ops EXCEPT ![t] = [op EXCEPT !.step = v]]
  BY <1>2
<1>5. /\ ops'[t] = [op EXCEPT !.step = v] /\ DOMAIN ops' = Term
      /\ \A u \in Term \ {t} : ops'[u] = ops[u]
  BY <1>1, <1>4
<1>. QED BY <1>1, <1>2, <1>3, <1>5 DEF Operation

\* What data access does to the rows for a schedule that is there.
LEMMA RowMoves ==
    ASSUME RowsInv, NEW s \in DOMAIN made, place[s] # "absent", NEW t,
           NEW kind \in {"delete", "toCalendar", "toDrafts"}, apply(kind, s, t)
    PROVE  /\ made' = made
           /\ place' \in [ScheduleId -> {"absent", "draft", "calendar"}]
           /\ place'[s] = CASE kind = "delete" -> "absent"
                            [] kind = "toCalendar" -> "calendar" [] OTHER -> "draft"
           /\ \A v \in ScheduleId \ {s} : place'[v] =
                IF /\ kind = "toCalendar" /\ place[v] = "calendar"
                   /\ v \in DOMAIN made /\ made[v] = made[s]
                THEN "draft" ELSE place[v]
<1>1. s \in ScheduleId /\ termOf[s] = made[s]
  BY PagesAssumption DEF RowsInv, ScheduleId, termOf
<1>2. \A v \in ScheduleId : place[v] = "calendar" => v \in DOMAIN made /\ termOf[v] = made[v]
  BY DEF RowsInv, termOf
<1>3. CASE kind = "delete"
  <2>1. made' = made /\ place' = [place EXCEPT ![s] = "absent"]
    BY <1>3 DEF apply, rows!Delete
  <2>. QED BY <1>1, <1>3, <2>1 DEF RowsInv
<1>4. CASE kind = "toCalendar"
  <2>1. made' = made /\ rows!put(s, made[s], "calendar")
    BY <1>1, <1>4 DEF apply, rows!Switch
  <2>. QED BY <1>1, <1>2, <1>4, <2>1 DEF RowsInv, rows!put
<1>5. CASE kind = "toDrafts"
  <2>1. made' = made /\ rows!put(s, made[s], "draft")
    BY <1>1, <1>5 DEF apply, rows!Switch
  <2>. QED BY <1>1, <1>2, <1>5, <2>1 DEF RowsInv, rows!put
<1>. QED BY <1>3, <1>4, <1>5

LEMMA RowSaved ==
    ASSUME RowsInv, Len(made) < MaxSchedules, NEW s, NEW t \in Term,
           NEW kind \in {"saveDraft", "saveCalendar"}, apply(kind, s, t)
    PROVE  /\ made' = Append(made, t)
           /\ place' \in [ScheduleId -> {"absent", "draft", "calendar"}]
           /\ \A v \in ScheduleId \ {Len(made) + 1} : place'[v] =
                IF kind = "saveCalendar" /\ v \in DOMAIN made /\ place[v] = "calendar" /\ made[v] = t
                THEN "draft" ELSE place[v]
<1>1. \A v \in ScheduleId : place[v] = "calendar" => v \in DOMAIN made /\ termOf[v] = made[v]
  BY DEF RowsInv, termOf
<1>2. made' = Append(made, t)
  BY DEF apply
<1>3. PICK p \in {"draft", "calendar"} : p = (IF kind = "saveDraft" THEN "draft" ELSE "calendar")
  OBVIOUS
<1>4. rows!put(Len(made) + 1, t, p)
  BY <1>3 DEF apply, rows!Create
<1>5. p = "calendar" <=> kind = "saveCalendar"
  BY <1>3
<1>. QED BY <1>1, <1>2, <1>4, <1>5 DEF RowsInv, rows!put

\* What the pages get of a place, in order of the ids.
LEMMA StoredListed ==
    ASSUME RowsInv, NEW p \in {"draft", "calendar"}
    PROVE  /\ Listing(getSchedulesByUserUuid(p))
           /\ Range(getSchedulesByUserUuid(p)) = stored(p)
           /\ IsInjective(getSchedulesByUserUuid(p))
<1>1. PICK all \in Seq(ScheduleId) : all = [s \in ScheduleId |-> s]
  <2>1. PICK n \in Nat : n = MaxSchedules
    BY PagesAssumption
  <2>2. PICK all : all = [s \in 1..n |-> s]
    OBVIOUS
  <2>3. all \in [1..n -> 1..n]
    BY <2>2
  <2>4. all \in Seq(1..n)
    BY <2>3
  <2>. QED BY <2>1, <2>2, <2>4 DEF ScheduleId
<1>2. Range(all) = ScheduleId /\ IsInjective(all)
  BY <1>1 DEF Range, IsInjective
<1>3. PICK S : S = stored(p)
  OBVIOUS
<1>4. S \subseteq ScheduleId /\ S \subseteq DOMAIN made
  BY <1>3 DEF stored, RowsInv
<1>5. getSchedulesByUserUuid(p) = selected(all, S)
  BY <1>1, <1>3 DEF getSchedulesByUserUuid
<1>6. /\ selected(all, S) \in Seq(ScheduleId) /\ Range(selected(all, S)) = Range(all) \cap S
      /\ IsInjective(selected(all, S))
  BY <1>2, SelectedFacts
<1>. QED BY <1>2, <1>3, <1>4, <1>5, <1>6 DEF Listing

\* The drafts of a term.
LEMMA DraftsOfTerm ==
    ASSUME ViewInv, NEW t
    PROVE  /\ scheduleSetData(t) \in Seq(ScheduleId) /\ numSchedules(t) \in Nat
           /\ Range(scheduleSetData(t)) = Range(drafts) \cap ofTerm(t)
           /\ \A i \in 0..(numSchedules(t) - 1) :
                scheduleSetData(t)[i + 1] \in Range(drafts) \cap ofTerm(t)
           /\ IsInjective(drafts) =>
                numSchedules(t) = Cardinality(Range(drafts) \cap ofTerm(t))
<1>1. PICK S : S = ofTerm(t)
  OBVIOUS
<1>2. PICK list : list = drafts
  OBVIOUS
<1>3. list \in Seq(ScheduleId)
  BY <1>2 DEF ViewInv, Listing
<1>4. /\ selected(list, S) \in Seq(ScheduleId) /\ Range(selected(list, S)) = Range(list) \cap S
      /\ IsInjective(list) => IsInjective(selected(list, S))
  BY <1>3, SelectedFacts
<1>5. PICK r \in Seq(ScheduleId) : r = selected(list, S)
  BY <1>4
<1>6. r = scheduleSetData(t) /\ numSchedules(t) = Len(r)
  BY <1>1, <1>2, <1>5 DEF scheduleSetData, numSchedules
<1>7. Len(r) \in Nat /\ \A i \in 0..(Len(r) - 1) : r[i + 1] \in Range(r)
  BY DEF Range
<1>8. IsInjective(r) => Cardinality(Range(r)) = Len(r)
  BY InjectiveLength
<1>. QED BY <1>1, <1>2, <1>4, <1>5, <1>6, <1>7, <1>8

\* The schedule of a term the page has from the calendar.
LEMMA CalendarOfTerm ==
    ASSUME ViewInv, NEW t
    PROVE  IF calendarSchedulesByTerm(t) = NoSchedule
           THEN Range(calendarSchedules) \cap ofTerm(t) = {}
           ELSE calendarSchedulesByTerm(t) \in Range(calendarSchedules) \cap ofTerm(t)
<1>1. PICK S : S = ofTerm(t)
  OBVIOUS
<1>2. PICK list : list = calendarSchedules
  OBVIOUS
<1>3. list \in Seq(ScheduleId) /\ Range(list) \subseteq DOMAIN made
  BY <1>2 DEF ViewInv, Listing
<1>4. selected(list, S) \in Seq(ScheduleId) /\ Range(selected(list, S)) = Range(list) \cap S
  BY <1>3, SelectedFacts
<1>5. PICK r \in Seq(ScheduleId) : r = selected(list, S)
  BY <1>4
<1>6. calendarSchedulesByTerm(t) = IF r = <<>> THEN NoSchedule ELSE Last(r)
  BY <1>1, <1>2, <1>5 DEF calendarSchedulesByTerm
<1>7. CASE r = <<>>
  <2>1. Range(r) = {}
    BY <1>7 DEF Range
  <2>. QED BY <1>1, <1>2, <1>4, <1>5, <1>6, <1>7, <2>1
<1>8. CASE r # <<>>
  <2>1. Last(r) \in Range(r)
    BY <1>8 DEF Range, Last
  <2>2. Last(r) \in ScheduleId
    BY <1>8 DEF Last
  <2>3. Last(r) # NoSchedule
    BY <2>2, PagesAssumption DEF ScheduleId, NoSchedule
  <2>. QED BY <1>1, <1>2, <1>4, <1>5, <1>6, <1>8, <2>1, <2>3
<1>. QED BY <1>7, <1>8

LEMMA TermFacts ==
    ASSUME RowsInv
    PROVE  /\ DOMAIN made \subseteq ScheduleId /\ NoSchedule \notin ScheduleId
           /\ \A s \in DOMAIN made : made[s] \in Term /\ s \in ofTerm(made[s])
           /\ \A t : ofTerm(t) \subseteq DOMAIN made
BY PagesAssumption DEF RowsInv, ScheduleId, NoSchedule, ofTerm

\* One entry of a list is replaced by another.
LEMMA ReplacedFacts ==
    ASSUME NEW list \in Seq(ScheduleId), NEW a, NEW b \in ScheduleId
    PROVE  /\ replaced(list, a, b) \in Seq(ScheduleId)
           /\ a \notin Range(list) => Range(replaced(list, a, b)) = Range(list)
           /\ a \in Range(list) => Range(replaced(list, a, b)) = (Range(list) \ {a}) \cup {b}
           /\ Range(replaced(list, a, b)) \subseteq Range(list) \cup {b}
           /\ IsInjective(list) /\ b \notin Range(list) => IsInjective(replaced(list, a, b))
<1>1. PICK r : r = replaced(list, a, b)
  OBVIOUS
<1>2. /\ DOMAIN r = 1..Len(list) /\ DOMAIN list = 1..Len(list) /\ Len(list) \in Nat
      /\ \A i \in 1..Len(list) : r[i] = (IF list[i] = a THEN b ELSE list[i]) /\ list[i] \in ScheduleId
  BY <1>1 DEF replaced
<1>3. r \in Seq(ScheduleId)
  BY <1>1 DEF replaced
<1>4. \A i \in DOMAIN r : r[i] \in Range(list) \cup {b} /\ (b # a => r[i] # a)
  BY <1>2 DEF Range
<1>5. \A i \in DOMAIN list : list[i] # a => list[i] \in Range(r)
  BY <1>2 DEF Range
<1>6. a \in Range(list) => b \in Range(r)
  BY <1>2 DEF Range
<1>7. a \notin Range(list) => \A i \in DOMAIN r : r[i] = list[i]
  BY <1>2 DEF Range
<1>8. a \notin Range(list) => Range(r) = Range(list)
  BY <1>2, <1>7 DEF Range
<1>9. a \in Range(list) => Range(r) = (Range(list) \ {a}) \cup {b}
  BY <1>4, <1>5, <1>6 DEF Range
<1>10. Range(r) \subseteq Range(list) \cup {b}
  BY <1>4 DEF Range
<1>11. IsInjective(list) /\ b \notin Range(list) => IsInjective(r)
  BY <1>2 DEF IsInjective, Range
<1>. QED BY <1>1, <1>3, <1>8, <1>9, <1>10, <1>11

-----------------------------------------------------------------------------
(* Every step keeps the types                                              *)

TypedInv == RowsInv /\ ViewInv

LEMMA TypedInit == Init => TypedInv
<1> SUFFICES ASSUME Init PROVE TypedInv
  OBVIOUS
<1>1. <<>> \in Seq(ScheduleId) /\ Range(<<>>) = {} /\ DOMAIN made = {} /\ Len(made) = 0
  BY DEF Init, Range
<1>2. RowsInv
  BY <1>1, PagesAssumption DEF Init, RowsInv, LeftInv
<1>3. \A l \in {"draft", "calendar"} : lists[l].value = <<>> /\ lists[l].status = "off"
  BY DEF Init, noList
<1>4. ViewInv
  <2>1. Listing(drafts) /\ Listing(calendarSchedules) /\ \A l \in {"draft", "calendar"} : Listing(lists[l].value)
    BY <1>1, <1>3 DEF Init, Listing
  <2>2. scheduleIdx \in [Term -> Int] /\ DOMAIN ops = Term /\ \A t \in Term : ops[t] = NoOp
    BY DEF Init
  <2>. QED BY <1>3, <2>1, <2>2 DEF Init, ViewInv
<1>. QED BY <1>2, <1>4 DEF TypedInv

LEMMA RowsStay == ASSUME RowsInv, UNCHANGED <<rowVars, left>> PROVE RowsInv'
BY DEF RowsInv, LeftInv, rowVars

\* The rows change, the page does not.
LEMMA ViewStays ==
    ASSUME ViewInv, DOMAIN made \subseteq DOMAIN made', \A s \in DOMAIN made : made'[s] = made[s],
           UNCHANGED <<viewVars, ops>>
    PROVE  ViewInv'
<1>1. \A t : ofTerm(t) \subseteq ofTerm(t)'
  BY DEF ofTerm
<1>2. \A t \in Term : ops'[t] \in Operation(t)' \cup {NoOp}
  BY <1>1 DEF ViewInv, Operation, viewVars
<1>. QED BY <1>2 DEF ViewInv, Listing, viewVars

LEMMA VisitTyped == ASSUME TypedInv, NEW p \in {"scheduler", "drafts", "calendar"}, visit(p) PROVE TypedInv'
<1>1. UNCHANGED rowVars /\ left' = left \cup
        {[kind |-> ops[t].kind, schedule |-> ops[t].schedule, term |-> t] :
            t \in {u \in Term : ops[u].step = "asked"}}
  BY DEF visit
<1>2. ASSUME NEW r \in left' \ left
      PROVE  /\ r.term \in Term /\ r.schedule \in DOMAIN made /\ r.schedule # NoSchedule
             /\ r.kind \in {"delete", "toCalendar", "toDrafts"}
  <2>1. PICK t \in Term : /\ ops[t].step = "asked"
                          /\ r = [kind |-> ops[t].kind, schedule |-> ops[t].schedule, term |-> t]
    BY <1>1, <1>2
  <2>2. ops[t] \in Operation(t)
    BY <2>1, OpFacts DEF TypedInv, ViewInv
  <2>3. ops[t].schedule \in ofTerm(t) /\ ops[t].kind \in {"delete", "toCalendar", "toDrafts"}
    BY <2>2 DEF Operation
  <2>. QED BY <2>1, <2>3, TermFacts DEF TypedInv
<1>3. LeftInv'
  BY <1>1, <1>2 DEF TypedInv, RowsInv, LeftInv, rowVars
<1>4. RowsInv'
  BY <1>1, <1>3 DEF TypedInv, RowsInv, rowVars
<1>5. /\ <<>> \in Seq(ScheduleId) /\ Range(<<>>) = {}
  BY DEF Range
<1>6. \A l \in {"draft", "calendar"} :
        /\ lists'[l].value = <<>>
        /\ lists'[l].status = IF p = "drafts" \/ (p = "calendar" /\ l = "calendar") THEN "asked" ELSE "off"
  BY DEF visit, noList
<1>7. /\ page' = p /\ DOMAIN lists' = {"draft", "calendar"} /\ drafts' = <<>> /\ calendarSchedules' = <<>>
      /\ scheduleIdx' = [t \in Term |-> 0] /\ ops' = [t \in Term |-> NoOp]
  BY DEF visit
<1>8. ViewInv'
  <2>1. Listing(drafts') /\ Listing(calendarSchedules') /\ \A l \in {"draft", "calendar"} : Listing(lists'[l].value)
    BY <1>5, <1>6, <1>7 DEF Listing
  <2>2. UNCHANGED made
    BY <1>1 DEF rowVars
  <2>3. scheduleIdx' \in [Term -> Int] /\ DOMAIN ops' = Term /\ \A t \in Term : ops'[t] = NoOp
    BY <1>7
  <2>. QED BY <1>6, <1>7, <2>1, <2>2, <2>3 DEF ViewInv, Listing
<1>. QED BY <1>4, <1>8 DEF TypedInv

\* A list that is on its way changes its status.
LEMMA ListTyped ==
    ASSUME TypedInv, NEW l \in {"draft", "calendar"}, NEW S, NEW value, Listing(value),
           lists[l].status # "off", lists' = [lists EXCEPT ![l] = [status |-> S, value |-> value]],
           Listing(drafts'), Listing(calendarSchedules'),
           UNCHANGED <<rowVars, left, page, scheduleIdx, ops>>
    PROVE  TypedInv'
<1>1. RowsInv'
  BY RowsStay DEF TypedInv
<1>2. /\ lists'[l].value = value /\ DOMAIN lists' = {"draft", "calendar"}
      /\ \A k \in {"draft", "calendar"} \ {l} : lists'[k] = lists[k]
  BY DEF TypedInv, ViewInv
<1>3. page # "scheduler" /\ (page = "calendar" => l = "calendar")
  BY DEF TypedInv, ViewInv
<1>4. ViewInv'
  BY <1>2, <1>3 DEF TypedInv, ViewInv, Listing, Operation, ofTerm, rowVars
<1>. QED BY <1>1, <1>4 DEF TypedInv

LEMMA OpTyped ==
    ASSUME TypedInv, NEW t \in Term, NEW op \in Operation(t) \cup {NoOp}, page # "scheduler",
           ops' = [ops EXCEPT ![t] = op], Listing(drafts'), Listing(calendarSchedules'),
           scheduleIdx' \in [Term -> Int], UNCHANGED <<rowVars, left, page, lists>>
    PROVE  TypedInv'
<1>1. RowsInv'
  BY RowsStay DEF TypedInv
<1>2. /\ ops'[t] = op /\ DOMAIN ops' = Term
      /\ \A u \in Term \ {t} : ops'[u] = ops[u]
  BY DEF TypedInv, ViewInv
<1>3. ViewInv'
  BY <1>2 DEF TypedInv, ViewInv, Listing, Operation, ofTerm, rowVars
<1>. QED BY <1>1, <1>3 DEF TypedInv

\* The draft a click is about.
LEMMA DraftShown ==
    ASSUME TypedInv, NEW t \in Term, pages(t), isValidIndex(t, scheduleIdx[t])
    PROVE  /\ page = "drafts" /\ page # "scheduler"
           /\ scheduleSetData(t)[scheduleIdx[t] + 1] \in Range(drafts) \cap ofTerm(t)
           /\ scheduleIdx[t] \in 0..(numSchedules(t) - 1) /\ numSchedules(t) \in Nat \ {0}
           /\ scheduleIdx[t] \in Int
           /\ decremented(t) \in 0..(numSchedules(t) - 1) /\ decremented(t) \in Int
           /\ numSchedules(t) > 1 /\ scheduleIdx[t] > 0 => decremented(t) <= numSchedules(t) - 2
<1>1. numSchedules(t) \in Nat /\ numSchedules(t) > 0 /\ scheduleIdx[t] \in 0..(numSchedules(t) - 1)
  BY DraftsOfTerm DEF TypedInv, pages, isValidIndex
<1>2. PICK n \in Nat : n = numSchedules(t)
  BY <1>1
<1>3. PICK i \in 0..(n - 1) : i = scheduleIdx[t]
  BY <1>1, <1>2
<1>4. decremented(t) = (i - 1 + n) % n
  BY <1>2, <1>3 DEF decremented, emptyScheduleIdx
<1>5. i = 0 => decremented(t) = n - 1
  <2> SUFFICES ASSUME i = 0 PROVE decremented(t) = n - 1
    OBVIOUS
  <2>1. (n - 1) % n = n - 1
    BY <1>1, <1>2
  <2>2. i - 1 + n = n - 1
    OBVIOUS
  <2>. QED BY <1>4, <2>1, <2>2
<1>6. i > 0 => decremented(t) = i - 1
  <2> SUFFICES ASSUME i > 0 PROVE decremented(t) = i - 1
    OBVIOUS
  <2>1. (i - 1 + n) % n = i - 1
    <3>1. i - 1 \in 0..(n - 1) /\ i - 1 + n = n + (i - 1)
      OBVIOUS
    <3>2. PICK j \in 0..(n - 1) : j = i - 1
      BY <3>1
    <3>3. (n + j) % n = j
      BY <1>1, <1>2
    <3>. QED BY <3>1, <3>2, <3>3
  <2>. QED BY <1>4, <2>1
<1>7. page = "drafts" /\ scheduleSetData(t)[scheduleIdx[t] + 1] \in Range(drafts) \cap ofTerm(t)
  BY <1>1, DraftsOfTerm DEF TypedInv, pages
<1>8. /\ decremented(t) \in 0..(n - 1)
      /\ n > 1 /\ i > 0 => decremented(t) <= n - 2
  BY <1>1, <1>2, <1>5, <1>6
<1>. QED BY <1>1, <1>2, <1>3, <1>7, <1>8

\* Another index is selected, or none.
LEMMA IndexTyped ==
    ASSUME TypedInv, NEW t \in Term, NEW i, updateScheduleIdx(t, i)
    PROVE  scheduleIdx' \in [Term -> Int]
<1>1. isValidIndex(t, i) => i \in Int
  BY DraftsOfTerm DEF isValidIndex, TypedInv
<1>2. PICK j \in Int : j = (IF isValidIndex(t, i) THEN i ELSE emptyScheduleIdx)
  BY <1>1 DEF emptyScheduleIdx
<1>3. scheduleIdx' = [scheduleIdx EXCEPT ![t] = j]
  BY <1>2 DEF updateScheduleIdx
<1>. QED BY <1>3 DEF TypedInv, ViewInv

LEMMA RemovalFacts ==
    ASSUME NEW list \in Seq(ScheduleId), NEW s
    PROVE  /\ selected(list, ScheduleId \ {s}) \in Seq(ScheduleId)
           /\ Range(selected(list, ScheduleId \ {s})) = Range(list) \ {s}
           /\ IsInjective(list) => IsInjective(selected(list, ScheduleId \ {s}))
<1>1. PICK S : S = ScheduleId \ {s}
  OBVIOUS
<1>2. Range(list) \cap S = Range(list) \ {s}
  BY <1>1 DEF Range
<1>3. /\ selected(list, S) \in Seq(ScheduleId) /\ Range(selected(list, S)) = Range(list) \cap S
      /\ IsInjective(list) => IsInjective(selected(list, S))
  BY SelectedFacts
<1>. QED BY <1>1, <1>2, <1>3

LEMMA AskTyped ==
    ASSUME TypedInv, NEW t \in Term, NEW op \in Operation(t), page # "scheduler", ask(t, op)
    PROVE  TypedInv'
<1>1. scheduleIdx' \in [Term -> Int] /\ Listing(drafts') /\ Listing(calendarSchedules')
  BY DEF ask, viewVars, TypedInv, ViewInv
<1>. QED BY <1>1, OpTyped DEF ask, viewVars

LEMMA ClickTyped == ASSUME TypedInv, NEW t \in Term, Clicked(t) PROVE TypedInv'
<1>1. ASSUME NEW i, pages(t), updateScheduleIdx(t, i),
             UNCHANGED <<rowVars, page, lists, drafts, calendarSchedules, ops, left>>
      PROVE  TypedInv'
  <2>1. scheduleIdx' \in [Term -> Int]
    BY <1>1, IndexTyped
  <2>2. ViewInv'
    BY <1>1, <2>1 DEF TypedInv, ViewInv, Listing, Operation, ofTerm, rowVars
  <2>. QED BY <1>1, <2>2, RowsStay DEF TypedInv
<1>2. ASSUME NEW n, handleScheduleNumChange(t, n) PROVE TypedInv'
  BY <1>1, <1>2 DEF handleScheduleNumChange
<1>3. CASE decrementScheduleIdx(t)
  BY <1>1, <1>3 DEF decrementScheduleIdx
<1>4. CASE incrementScheduleIdx(t)
  BY <1>1, <1>4 DEF incrementScheduleIdx
<1>5. CASE handleDeleteSchedule(t)
  <2>1. PICK s \in ofTerm(t), i \in Int :
            /\ s = scheduleSetData(t)[scheduleIdx[t] + 1]
            /\ i = IF scheduleIdx[t] > 0 THEN decremented(t) ELSE 0
    BY <1>5, DraftShown DEF handleDeleteSchedule
  <2>2. PICK op \in Operation(t) :
            op = [kind |-> "delete", schedule |-> s, calSchedule |-> NoSchedule, step |-> "asked", idx |-> i]
    BY DEF Operation
  <2>3. ask(t, op) /\ page # "scheduler"
    BY <1>5, <2>1, <2>2 DEF handleDeleteSchedule, pages
  <2>. QED BY <2>3, AskTyped
<1>6. CASE handleMoveToCalendar(t)
  <2>1. PICK s \in ofTerm(t) : s = scheduleSetData(t)[scheduleIdx[t] + 1]
    BY <1>6, DraftShown DEF handleMoveToCalendar
  <2>2. PICK i \in Int : i = IF calendarSchedulesByTerm(t) = NoSchedule /\ scheduleIdx[t] = numSchedules(t) - 1
                             THEN decremented(t) ELSE scheduleIdx[t]
    BY <1>6, DraftShown DEF handleMoveToCalendar
  <2>3. PICK c \in ofTerm(t) \cup {NoSchedule} : c = calendarSchedulesByTerm(t)
    BY CalendarOfTerm DEF TypedInv
  <2>4. PICK op \in Operation(t) :
            op = [kind |-> "toCalendar", schedule |-> s, calSchedule |-> c, step |-> "asked", idx |-> i]
    BY DEF Operation
  <2>5. ask(t, op) /\ page # "scheduler"
    BY <1>6, <2>1, <2>2, <2>3, <2>4 DEF handleMoveToCalendar, pages
  <2>. QED BY <2>5, AskTyped
<1>7. ASSUME NEW kind \in {"saveDraft", "saveCalendar"}, saveSchedule(t, kind) PROVE TypedInv'
  <2>1. PICK r : r = [kind |-> kind, schedule |-> NoSchedule, term |-> t]
    OBVIOUS
  <2>2. /\ left' = left \cup {r} /\ \A q \in left : q.schedule # NoSchedule
        /\ Len(made) < MaxSchedules /\ UNCHANGED <<rowVars, viewVars, ops>>
        /\ r.kind = kind /\ r.schedule = NoSchedule /\ r.term = t
    BY <1>7, <2>1 DEF saveSchedule
  <2>3. LeftInv'
    BY <2>2 DEF TypedInv, RowsInv, LeftInv, rowVars
  <2>4. RowsInv'
    BY <2>2, <2>3 DEF TypedInv, RowsInv, rowVars
  <2>5. ViewInv'
    BY <2>2, ViewStays DEF TypedInv, rowVars
  <2>. QED BY <2>4, <2>5 DEF TypedInv
<1>. QED BY <1>2, <1>3, <1>4, <1>5, <1>6, <1>7 DEF Clicked

\* Rows that move keep their types, and the calendar one schedule of each term.
LEMMA MoveTyped ==
    ASSUME RowsInv, NEW s \in DOMAIN made, place[s] # "absent", NEW t,
           NEW kind \in {"delete", "toCalendar", "toDrafts"}, apply(kind, s, t),
           left' \subseteq left, UNCHANGED unreadable
    PROVE  RowsInv'
<1>1. /\ made' = made /\ place' \in [ScheduleId -> {"absent", "draft", "calendar"}]
      /\ place'[s] = CASE kind = "delete" -> "absent"
                       [] kind = "toCalendar" -> "calendar" [] OTHER -> "draft"
      /\ \A v \in ScheduleId \ {s} : place'[v] =
            IF /\ kind = "toCalendar" /\ place[v] = "calendar"
               /\ v \in DOMAIN made /\ made[v] = made[s]
            THEN "draft" ELSE place[v]
  BY RowMoves
<1>2. \A v \in ScheduleId : place'[v] # "absent" => v \in DOMAIN made
  BY <1>1 DEF RowsInv
<1>3. \A v \in DOMAIN made \ {s} : place'[v] = "calendar" =>
        place[v] = "calendar" /\ (kind = "toCalendar" => made[v] # made[s])
  BY <1>1, TermFacts
<1>4. place'[s] = "calendar" <=> kind = "toCalendar"
  BY <1>1
<1>5. ASSUME NEW v \in DOMAIN made, NEW w \in DOMAIN made,
             place'[v] = "calendar", place'[w] = "calendar", made[v] = made[w]
      PROVE  v = w
  <2>1. CASE v # s /\ w # s
    BY <1>3, <1>5, <2>1 DEF RowsInv
  <2>2. CASE v = s \/ w = s
    BY <1>3, <1>4, <1>5, <2>2
  <2>. QED BY <2>1, <2>2
<1>6. LeftInv'
  BY <1>1 DEF RowsInv, LeftInv
<1>. QED BY <1>1, <1>2, <1>5, <1>6 DEF RowsInv

LEMMA SaveTyped ==
    ASSUME RowsInv, NEW r \in left, r.schedule = NoSchedule, apply(r.kind, r.schedule, r.term),
           left' = left \ {r}, UNCHANGED unreadable
    PROVE  /\ RowsInv' /\ DOMAIN made \subseteq DOMAIN made'
           /\ \A s \in DOMAIN made : made'[s] = made[s]
<1>1. /\ r.kind \in {"saveDraft", "saveCalendar"} /\ Len(made) < MaxSchedules /\ r.term \in Term
      /\ \A q \in left' : q.schedule # NoSchedule
  BY TermFacts DEF RowsInv, LeftInv
<1>0. PICK s : s = r.schedule
  OBVIOUS
<1>2. PICK kind \in {"saveDraft", "saveCalendar"}, t \in Term :
            kind = r.kind /\ t = r.term /\ s = r.schedule
  BY <1>0, <1>1
<1>3. /\ made' = Append(made, t) /\ place' \in [ScheduleId -> {"absent", "draft", "calendar"}]
      /\ \A v \in ScheduleId \ {Len(made) + 1} : place'[v] =
            IF kind = "saveCalendar" /\ v \in DOMAIN made /\ place[v] = "calendar" /\ made[v] = t
            THEN "draft" ELSE place[v]
  BY <1>1, <1>2, RowSaved
<1>4. PICK m \in Seq(Term) : m = made
  BY DEF RowsInv
<1>5. /\ made' \in Seq(Term) /\ Len(made') = Len(made) + 1 /\ made'[Len(made) + 1] = t
      /\ DOMAIN made' = DOMAIN made \cup {Len(made) + 1} /\ DOMAIN made = 1..Len(made)
      /\ \A v \in DOMAIN made : made'[v] = made[v]
      /\ Len(made) + 1 \notin DOMAIN made /\ Len(made) \in Nat
  BY <1>3, <1>4
<1>6. \A v \in DOMAIN made : v \in ScheduleId \ {Len(made) + 1}
  BY <1>5, TermFacts
<1>7. \A v \in ScheduleId : place'[v] # "absent" => v \in DOMAIN made'
  BY <1>3, <1>5 DEF RowsInv
<1>8. ASSUME NEW v \in DOMAIN made', NEW w \in DOMAIN made',
             place'[v] = "calendar", place'[w] = "calendar", made'[v] = made'[w]
      PROVE  v = w
  <2> DEFINE n == Len(made) + 1
  <2>1. CASE v \in DOMAIN made /\ w \in DOMAIN made
    <3>1. place[v] = "calendar" /\ place[w] = "calendar" /\ made[v] = made[w]
      BY <1>3, <1>5, <1>6, <1>8, <2>1
    <3>. QED BY <2>1, <3>1 DEF RowsInv
  <2>2. ASSUME NEW x \in DOMAIN made, place'[x] = "calendar", made[x] = t, place'[n] = "calendar"
        PROVE  FALSE
    <3>1. kind = "saveCalendar"
      <4>1. SUFFICES ASSUME kind = "saveDraft" PROVE place'[n] = "draft"
        BY <2>2
      <4>2. rows!put(n, t, "draft")
        BY <1>2, <4>1 DEF apply, rows!Create
      <4>3. n \in ScheduleId
        BY <1>1, <1>5, PagesAssumption DEF ScheduleId
      <4>. QED BY <4>2, <4>3 DEF rows!put
    <3>. QED BY <1>3, <1>6, <2>2, <3>1
  <2>3. v \in DOMAIN made \/ v = n
    BY <1>5
  <2>4. w \in DOMAIN made \/ w = n
    BY <1>5
  <2>. QED BY <1>5, <1>8, <2>1, <2>2, <2>3, <2>4
<1>9. LeftInv'
  BY <1>1, <1>5 DEF RowsInv, LeftInv
<1>10. Len(made') <= MaxSchedules
  BY <1>1, <1>5, PagesAssumption
<1>. QED BY <1>3, <1>5, <1>7, <1>8, <1>9, <1>10 DEF RowsInv

LEMMA ServeTyped == ASSUME TypedInv, NEW t \in Term, serve(t) PROVE TypedInv'
<1>1. ops[t] # NoOp /\ ops[t].step = "asked" /\ UNCHANGED <<unreadable, viewVars, left>>
  BY OpFacts DEF serve
<1>2. /\ ops[t] \in Operation(t) /\ page # "scheduler"
      /\ ops[t].schedule \in DOMAIN made /\ ops[t].schedule # NoSchedule
      /\ ops[t].kind \in {"delete", "toCalendar", "toDrafts"}
  BY <1>1, TermFacts DEF TypedInv, ViewInv, Operation
<1>3. RowsInv' /\ made' = made
  <2>1. CASE absent(ops[t].schedule)
    BY <1>1, <2>1, RowsStay DEF serve, TypedInv, rowVars
  <2>2. CASE ~absent(ops[t].schedule)
    <3>1. apply(ops[t].kind, ops[t].schedule, t) /\ place[ops[t].schedule] # "absent"
      BY <1>2, <2>2 DEF serve, absent
    <3>. QED BY <1>1, <1>2, <3>1, RowMoves, MoveTyped DEF TypedInv
  <2>. QED BY <2>1, <2>2
<1>4. PICK v \in {"ok", "failed"} : ops' = [ops EXCEPT ![t].step = v]
  BY DEF serve
<1>5. ViewInv'
  <2>1. /\ DOMAIN ops' = Term /\ ops'[t] \in Operation(t)
        /\ \A u \in Term \ {t} : ops'[u] = ops[u]
    BY <1>1, <1>4, OpSteps DEF TypedInv
  <2>. QED BY <1>1, <1>2, <1>3, <2>1 DEF TypedInv, ViewInv, Listing, Operation, ofTerm, viewVars
<1>. QED BY <1>3, <1>5 DEF TypedInv

LEMMA LoseTyped == ASSUME TypedInv, NEW t \in Term, lose(t) PROVE TypedInv'
<1>1. /\ ops[t] # NoOp /\ UNCHANGED <<rowVars, viewVars, left>>
      /\ ops' = [ops EXCEPT ![t].step = "failed"]
  BY OpFacts DEF lose
<1>2. page # "scheduler"
  BY <1>1 DEF TypedInv, ViewInv
<1>3. /\ DOMAIN ops' = Term /\ ops'[t] \in Operation(t)
      /\ \A u \in Term \ {t} : ops'[u] = ops[u]
  BY <1>1, OpSteps DEF TypedInv
<1>4. ViewInv'
  BY <1>1, <1>2, <1>3 DEF TypedInv, ViewInv, Listing, Operation, ofTerm, viewVars, rowVars
<1>. QED BY <1>1, <1>4, RowsStay DEF TypedInv

LEMMA AnswerTyped == ASSUME TypedInv, NEW t \in Term, answered(t) PROVE TypedInv'
<1>1. /\ ops[t] # NoOp /\ ops' = [ops EXCEPT ![t] = NoOp]
      /\ UNCHANGED <<rowVars, page, lists, left>>
  BY OpFacts DEF answered
<1>2. /\ page # "scheduler" /\ ops[t].schedule \in ScheduleId
      /\ ops[t].calSchedule # NoSchedule => ops[t].calSchedule \in DOMAIN made \cap ScheduleId
      /\ ops[t].schedule \in DOMAIN made
  BY <1>1, TermFacts DEF TypedInv, ViewInv, Operation
<1>3. Listing(drafts) /\ Listing(calendarSchedules) /\ scheduleIdx \in [Term -> Int]
  BY DEF TypedInv, ViewInv
<1>4. /\ \A s : Listing(removeDraft(s)) /\ Listing(removeSchedule(s))
  BY <1>3, RemovalFacts DEF Listing, removeDraft, removeSchedule
<1>5. Listing(drafts') /\ Listing(calendarSchedules') /\ scheduleIdx' \in [Term -> Int]
  <2>1. CASE ops[t].step = "failed"
    BY <1>1, <1>3, <2>1 DEF answered, Listing, rowVars
  <2>2. CASE ops[t].step # "failed" /\ page = "calendar"
    BY <1>1, <1>3, <1>4, <2>2 DEF answered, Listing, rowVars
  <2>3. CASE ops[t].step # "failed" /\ page # "calendar"
    <3>1. scheduleIdx' \in [Term -> Int]
      BY <2>3, IndexTyped DEF answered
    <3>2. CASE ops[t].kind # "toCalendar"
      BY <1>1, <1>3, <1>4, <2>3, <3>1, <3>2 DEF answered, Listing, rowVars
    <3>3. CASE ops[t].kind = "toCalendar" /\ ops[t].calSchedule = NoSchedule
      <4>1. calendarSchedules' = Append(calendarSchedules, ops[t].schedule)
            /\ drafts' = removeDraft(ops[t].schedule)
        BY <2>3, <3>3 DEF answered, moveToCalendar
      <4>2. Listing(Append(calendarSchedules, ops[t].schedule))
        BY <1>2, <1>3, AppendFacts DEF Listing
      <4>. QED BY <1>1, <1>4, <3>1, <4>1, <4>2 DEF Listing, rowVars
    <3>4. CASE ops[t].kind = "toCalendar" /\ ops[t].calSchedule # NoSchedule
      <4>1. PICK s, c : s = ops[t].schedule /\ c = ops[t].calSchedule
        OBVIOUS
      <4>2. drafts' = replaced(drafts, s, c) /\ calendarSchedules' = replaced(calendarSchedules, c, s)
        BY <2>3, <3>4, <4>1 DEF answered, moveToCalendar
      <4>3. /\ drafts' \in Seq(ScheduleId) /\ Range(drafts') \subseteq DOMAIN made
            /\ calendarSchedules' \in Seq(ScheduleId) /\ Range(calendarSchedules') \subseteq DOMAIN made
        <5>1. PICK d \in Seq(ScheduleId), k \in Seq(ScheduleId) : d = drafts /\ k = calendarSchedules
          BY <1>3 DEF Listing
        <5>2. s \in ScheduleId /\ c \in ScheduleId
          BY <1>2, <3>4, <4>1
        <5>4. drafts' \in Seq(ScheduleId) /\ Range(drafts') \subseteq Range(d) \cup {c}
          BY <4>2, <5>1, <5>2, ReplacedFacts
        <5>5. calendarSchedules' \in Seq(ScheduleId) /\ Range(calendarSchedules') \subseteq Range(k) \cup {s}
          BY <4>2, <5>1, <5>2, ReplacedFacts
        <5>. QED BY <1>2, <1>3, <3>4, <4>1, <5>1, <5>4, <5>5 DEF Listing
      <4>. QED BY <1>1, <3>1, <4>3 DEF Listing, rowVars
    <3>. QED BY <3>2, <3>3, <3>4
  <2>. QED BY <2>1, <2>2, <2>3
<1>. QED BY <1>1, <1>2, <1>5, OpTyped DEF answered

LEMMA TypedStep == TypedInv /\ [Next]_vars => TypedInv'
<1> SUFFICES ASSUME TypedInv, [Next]_vars PROVE TypedInv'
  OBVIOUS
<1>1. ASSUME NEW p \in {"scheduler", "drafts", "calendar"}, visit(p) PROVE TypedInv'
  BY <1>1, VisitTyped
<1>2. ASSUME NEW l \in {"draft", "calendar"}, getList(l) \/ listArrives(l) \/ listFails(l) PROVE TypedInv'
  <2>1. Listing(<<>>) /\ Listing(getSchedulesByUserUuid(l)) /\ Listing(lists[l].value)
    BY StoredListed DEF TypedInv, ViewInv, Listing, Range
  <2>2. Listing(drafts) /\ Listing(calendarSchedules)
    BY DEF TypedInv, ViewInv
  <2>3. UNCHANGED made
    BY <1>2 DEF getList, listArrives, listFails, rowVars
  <2>4. Listing(drafts') /\ Listing(calendarSchedules')
    BY <1>2, <2>1, <2>2, <2>3 DEF getList, listArrives, listFails, Listing
  <2>5. CASE getList(l)
    BY <2>1, <2>4, <2>5, ListTyped DEF getList
  <2>6. CASE listArrives(l)
    BY <2>1, <2>4, <2>6, ListTyped DEF listArrives
  <2>7. CASE listFails(l)
    BY <2>1, <2>4, <2>7, ListTyped DEF listFails
  <2>. QED BY <1>2, <2>5, <2>6, <2>7
<1>3. ASSUME NEW t \in Term, Clicked(t) PROVE TypedInv'
  BY <1>3, ClickTyped
<1>4. ASSUME NEW t \in Term, serve(t) \/ lose(t) \/ answered(t) PROVE TypedInv'
  BY <1>4, ServeTyped, LoseTyped, AnswerTyped
<1>5. ASSUME NEW s \in ScheduleId, handleDelete(s) \/ handleMoveToDrafts(s) PROVE TypedInv'
  <2>1. PICK kind \in {"delete", "toDrafts"} : changeCalendar(s, kind)
    BY <1>5 DEF handleDelete, handleMoveToDrafts
  <2>2. s \in DOMAIN made /\ made[s] \in Term /\ s \in ofTerm(made[s]) /\ page # "scheduler"
    BY <2>1, TermFacts DEF changeCalendar, TypedInv, ViewInv, Listing
  <2>3. PICK t \in Term : t = made[s]
    BY <2>2
  <2>4. PICK op \in Operation(t) : op = [kind |-> kind, schedule |-> s, calSchedule |-> NoSchedule, idx |-> -1,
                                           step |-> "asked"]
    <3>1. PICK i \in Int : i = -1
      OBVIOUS
    <3>2. PICK op \in Operation(t) : op = [kind |-> kind, schedule |-> s, calSchedule |-> NoSchedule,
                                           idx |-> i, step |-> "asked"]
      BY <2>2, <2>3 DEF Operation
    <3>. QED BY <3>1, <3>2
  <2>5. ask(t, op)
    BY <2>1, <2>3, <2>4 DEF changeCalendar
  <2>. QED BY <2>2, <2>5, AskTyped
<1>6. ASSUME NEW s \in ScheduleId, timetableChanges(s) PROVE TypedInv'
  <2>1. UNCHANGED <<place, made, viewVars, ops, left>> /\ unreadable' \subseteq ScheduleId
    BY <1>6 DEF timetableChanges, TypedInv, RowsInv
  <2>. QED BY <2>1, ViewStays DEF TypedInv, RowsInv, LeftInv
<1>7. ASSUME NEW r \in left, serveLeft(r) PROVE TypedInv'
  <2>1. left' = left \ {r} /\ UNCHANGED <<unreadable, viewVars, ops>>
    BY <1>7 DEF serveLeft
  <2>2. CASE r.schedule = NoSchedule
    <3>1. apply(r.kind, r.schedule, r.term)
      BY <1>7, <2>2 DEF serveLeft, absent
    <3>2. RowsInv' /\ DOMAIN made \subseteq DOMAIN made' /\ \A s \in DOMAIN made : made'[s] = made[s]
      BY <2>1, <2>2, <3>1, SaveTyped DEF TypedInv
    <3>. QED BY <2>1, <3>2, ViewStays DEF TypedInv
  <2>3. CASE r.schedule # NoSchedule
    <3>1. r.schedule \in DOMAIN made /\ r.kind \in {"delete", "toCalendar", "toDrafts"}
      BY <2>3 DEF TypedInv, RowsInv, LeftInv
    <3>2. CASE absent(r.schedule)
      <4>1. UNCHANGED <<place, made>>
        BY <1>7, <3>2 DEF serveLeft
      <4>2. LeftInv'
        BY <2>1, <4>1 DEF TypedInv, RowsInv, LeftInv
      <4>. QED BY <2>1, <4>1, <4>2, ViewStays DEF TypedInv, RowsInv
    <3>3. CASE ~absent(r.schedule)
      <4>1. apply(r.kind, r.schedule, r.term) /\ place[r.schedule] # "absent"
        BY <1>7, <2>3, <3>3 DEF serveLeft, absent
      <4>2. RowsInv' /\ made' = made
        BY <2>1, <3>1, <4>1, MoveTyped, RowMoves DEF TypedInv
      <4>. QED BY <2>1, <4>2, ViewStays DEF TypedInv
    <3>. QED BY <3>2, <3>3
  <2>. QED BY <2>2, <2>3
<1>8. CASE elsewhere
  <2>1. PICK s \in 1..Len(made), kind \in {"delete", "toCalendar", "toDrafts"} :
            ~absent(s) /\ apply(kind, s, made[s])
    BY <1>8 DEF elsewhere
  <2>2. s \in DOMAIN made /\ place[s] # "absent" /\ UNCHANGED <<unreadable, viewVars, ops, left>>
    BY <1>8, <2>1, TermFacts DEF elsewhere, absent, TypedInv, RowsInv
  <2>3. RowsInv' /\ made' = made
    BY <2>1, <2>2, MoveTyped, RowMoves DEF TypedInv
  <2>. QED BY <2>2, <2>3, ViewStays DEF TypedInv
<1>9. CASE UNCHANGED pageVars
  BY <1>9, RowsStay, ViewStays DEF TypedInv, pageVars, rowVars
<1>. QED BY <1>1, <1>2, <1>3, <1>4, <1>5, <1>6, <1>7, <1>8, <1>9 DEF Next, vars

-----------------------------------------------------------------------------
(* The lists follow the rows                                               *)

\* The list that the requests of the page take schedules from.
homeList == IF page = "drafts" THEN "draft" ELSE "calendar"

\* Served requests the page has not heard from: the schedule they are about is still in its
\* list, and the one that made room in the calendar.
kept(s) == ops[made[s]].step = "ok" /\ s = ops[made[s]].schedule
taken(s) == ops[made[s]].step = "ok" /\ s = ops[made[s]].calSchedule

\* What a list should hold.
expected(l) == {s \in DOMAIN made \ unreadable :
    IF kept(s) THEN l = homeList ELSE IF taken(s) THEN l = "calendar" ELSE place[s] = l}

Follows(list, l) == Range(list) = expected(l) /\ IsInjective(list)

\* What a request of the drafts page knows is right until its answer.
DraftOpFits(t) ==
    /\ ops[t].kind \in {"delete", "toCalendar"}
    /\ ops[t].schedule \in Range(drafts)
    /\ ops[t].kind = "delete" => ops[t].calSchedule = NoSchedule
    /\ ops[t].kind = "toCalendar" =>
        /\ lists["calendar"].status = "success"
        /\ Range(calendarSchedules) \cap ofTerm(t) = {ops[t].calSchedule} \ {NoSchedule}
    /\ ops[t].idx \in 0..(numSchedules(t) - 1)
    /\ ops[t].calSchedule = NoSchedule /\ numSchedules(t) > 1 => ops[t].idx <= numSchedules(t) - 2

CalendarOpFits(t) ==
    /\ ops[t].kind \in {"delete", "toDrafts"} /\ ops[t].calSchedule = NoSchedule
    /\ ops[t].schedule \in Range(calendarSchedules)

Served(t) == ops[t].step = "ok" =>
    /\ place[ops[t].schedule] = CASE ops[t].kind = "delete" -> "absent"
                                  [] ops[t].kind = "toCalendar" -> "calendar" [] OTHER -> "draft"
    /\ ops[t].calSchedule # NoSchedule => place[ops[t].calSchedule] = "draft"

OpFits(t) == ops[t] # NoOp =>
    /\ lists[homeList].status = "success"
    /\ page = "calendar" => CalendarOpFits(t)
    /\ page = "drafts" => DraftOpFits(t)
    /\ Served(t)

ListsFollow == \A l \in {"draft", "calendar"} :
    lists[l].status = "answered" => Follows(lists[l].value, l)
DraftsFollow ==
    IF lists["draft"].status = "success" THEN Follows(drafts, "draft")
    ELSE drafts = <<>> /\ \A t \in Term : scheduleIdx[t] = 0
CalendarFollows ==
    IF lists["calendar"].status = "success" THEN Follows(calendarSchedules, "calendar")
    ELSE calendarSchedules = <<>>
IndexFits(t) == numSchedules(t) > 0 => scheduleIdx[t] \in -1..(numSchedules(t) - 1)

FollowInv ==
    /\ page # "scheduler" => left = {}
    /\ ListsFollow /\ DraftsFollow /\ CalendarFollows
    /\ \A t \in Term : OpFits(t) /\ IndexFits(t)

Calm == ~disturbed /\ ~early

PagesInv == TypedInv /\ (Calm => FollowInv)

LEMMA EmptyList == Range(<<>>) = {} /\ IsInjective(<<>>) /\ \A T : <<>> \in Seq(T)
BY DEF Range, IsInjective

\* As long as the drafts and the terms of schedules are the same, so are their numbers.
LEMMA NumStays ==
    ASSUME UNCHANGED <<drafts, made>>, NEW t
    PROVE  ofTerm(t)' = ofTerm(t) /\ numSchedules(t)' = numSchedules(t)
<1>1. ofTerm(t)' = ofTerm(t)
  BY DEF ofTerm
<1>. QED BY <1>1 DEF numSchedules, scheduleSetData

LEMMA CountSelected ==
    ASSUME NEW list \in Seq(ScheduleId), IsInjective(list), NEW S
    PROVE  Len(selected(list, S)) = Cardinality(Range(list) \cap S)
<1>1. /\ selected(list, S) \in Seq(ScheduleId) /\ Range(selected(list, S)) = Range(list) \cap S
      /\ IsInjective(selected(list, S))
  BY SelectedFacts
<1>2. PICK r \in Seq(ScheduleId) : r = selected(list, S)
  BY <1>1
<1>3. Cardinality(Range(r)) = Len(r)
  BY <1>1, <1>2, InjectiveLength
<1>. QED BY <1>1, <1>2, <1>3

LEMMA NothingSelected == ASSUME NEW S PROVE Len(selected(<<>>, S)) = 0
<1>1. PICK list \in Seq(ScheduleId) : list = <<>> /\ Range(list) = {} /\ IsInjective(list)
  BY EmptyList
<1>2. Range(list) \cap S = {}
  BY <1>1
<1>. QED BY <1>1, <1>2, CountSelected, FS_EmptySet

LEMMA ExpectedStays ==
    ASSUME UNCHANGED <<place, made, unreadable, page, ops>>, NEW l
    PROVE  expected(l)' = expected(l)
BY DEF expected, kept, taken, homeList

\* Without a list on the page the rows may change as they like.
LEMMA NothingListed ==
    ASSUME TypedInv, FollowInv, TypedInv', listed = {}, UNCHANGED <<viewVars, ops>>,
           page # "scheduler" => left' = {}
    PROVE  FollowInv'
<1>1. \A l \in {"draft", "calendar"} : lists[l].status \notin {"answered", "success"}
  BY DEF listed, TypedInv, ViewInv
<1>2. homeList \in {"draft", "calendar"}
  BY DEF homeList
<1>3. \A t \in Term : ops[t] = NoOp
  BY <1>1, <1>2 DEF FollowInv, OpFits
<1>4. drafts = <<>> /\ calendarSchedules = <<>> /\ \A t \in Term : scheduleIdx[t] = 0
  BY <1>1 DEF FollowInv, DraftsFollow, CalendarFollows
<1>5. ListsFollow' /\ DraftsFollow' /\ CalendarFollows'
  BY <1>1, <1>4 DEF ListsFollow, DraftsFollow, CalendarFollows, viewVars
<1>6. \A t \in Term : numSchedules(t)' = 0
  <2> SUFFICES ASSUME NEW t \in Term PROVE numSchedules(t)' = 0
    OBVIOUS
  <2>1. drafts' = <<>>
    BY <1>4 DEF viewVars
  <2>2. PICK S : S = ofTerm(t)'
    OBVIOUS
  <2>3. numSchedules(t)' = Len(selected(drafts', S))
    BY <2>2 DEF numSchedules, scheduleSetData
  <2>. QED BY <2>1, <2>3, NothingSelected
<1>7. \A t \in Term : OpFits(t)' /\ IndexFits(t)'
  BY <1>3, <1>6 DEF OpFits, IndexFits
<1>. QED BY <1>5, <1>7 DEF FollowInv, viewVars

LEMMA FollowInit == Init => FollowInv
<1> SUFFICES ASSUME Init PROVE FollowInv
  OBVIOUS
<1>1. \A l \in {"draft", "calendar"} : lists[l].status = "off"
  BY DEF Init, noList
<1>2. \A t \in Term : numSchedules(t) = 0
  BY NothingSelected DEF Init, numSchedules, scheduleSetData
<1>3. ListsFollow /\ DraftsFollow /\ CalendarFollows
  BY <1>1 DEF Init, ListsFollow, DraftsFollow, CalendarFollows
<1>4. \A t \in Term : OpFits(t) /\ IndexFits(t)
  BY <1>2 DEF Init, OpFits, IndexFits
<1>. QED BY <1>3, <1>4 DEF FollowInv, Init

LEMMA FollowVisit ==
    ASSUME NEW p \in {"scheduler", "drafts", "calendar"}, visit(p), ~disturbed' PROVE FollowInv'
<1>1. /\ page' = p
      /\ p # "scheduler" => left' = {}
      /\ \A t \in Term : ops'[t] = NoOp /\ scheduleIdx'[t] = 0
      /\ drafts' = <<>> /\ calendarSchedules' = <<>>
  BY DEF visit
<1>2. \A l \in {"draft", "calendar"} : lists'[l].status \in {"asked", "off"}
  BY DEF visit, noList
<1>3. \A t \in Term : numSchedules(t)' = 0
  <2> SUFFICES ASSUME NEW t \in Term PROVE numSchedules(t)' = 0
    OBVIOUS
  <2>1. PICK S : S = ofTerm(t)'
    OBVIOUS
  <2>2. numSchedules(t)' = Len(selected(drafts', S))
    BY <2>1 DEF numSchedules, scheduleSetData
  <2>. QED BY <1>1, <2>2, NothingSelected
<1>4. ListsFollow' /\ DraftsFollow' /\ CalendarFollows'
  BY <1>1, <1>2 DEF ListsFollow, DraftsFollow, CalendarFollows
<1>5. \A t \in Term : OpFits(t)'
  BY <1>1 DEF OpFits
<1>6. \A t \in Term : IndexFits(t)'
  BY <1>3 DEF IndexFits
<1>. QED BY <1>1, <1>4, <1>5, <1>6 DEF FollowInv

\* A request fits as long as its page, its rows and the lists are the same.
LEMMA OpFitsStays ==
    ASSUME NEW t, OpFits(t), ops'[t] = ops[t],
           UNCHANGED <<place, made, page, drafts, calendarSchedules>>,
           \A l \in {"draft", "calendar"} : lists[l].status = "success" => lists'[l].status = "success"
    PROVE  OpFits(t)'
<1>1. ofTerm(t)' = ofTerm(t) /\ numSchedules(t)' = numSchedules(t)
  BY NumStays
<1>2. CASE ops[t] # NoOp
  BY <1>1, <1>2 DEF OpFits, DraftOpFits, CalendarOpFits, Served, homeList
<1>3. CASE ops[t] = NoOp
  BY <1>3 DEF OpFits
<1>. QED BY <1>2, <1>3

LEMMA IndexStays ==
    ASSUME NEW t, IndexFits(t), UNCHANGED <<drafts, made>>, scheduleIdx'[t] = scheduleIdx[t]
    PROVE  IndexFits(t)'
BY NumStays DEF IndexFits

\* The list of the page is answered with what is stored: nothing the page waits for changes it.
LEMMA FollowList ==
    ASSUME TypedInv, FollowInv, NEW l \in {"draft", "calendar"}, getList(l) PROVE FollowInv'
<1>1. /\ lists[l].status = "asked"
      /\ UNCHANGED <<rowVars, page, drafts, calendarSchedules, scheduleIdx, ops, left>>
      /\ lists' = [lists EXCEPT ![l] = [status |-> "answered", value |-> getSchedulesByUserUuid(l)]]
  BY DEF getList
<1>2. /\ lists'[l].status = "answered" /\ lists'[l].value = getSchedulesByUserUuid(l)
      /\ \A k \in {"draft", "calendar"} \ {l} : lists'[k] = lists[k]
  BY <1>1 DEF TypedInv, ViewInv
<1>3. page # "scheduler" /\ (page = "calendar" => l = "calendar")
  BY <1>1 DEF TypedInv, ViewInv
<1>4. expected(l) = stored(l)
  <2>1. ASSUME NEW s \in DOMAIN made, kept(s) \/ taken(s) PROVE l # homeList /\ place[s] # l /\ ~taken(s)
    <3>1. PICK t \in Term : t = made[s] /\ ops[t] # NoOp /\ ops[t].step = "ok"
      BY <2>1, OpFacts, TermFacts DEF kept, taken, TypedInv
    <3>2. OpFits(t)
      BY DEF FollowInv
    <3>3. l # homeList /\ page = "drafts" /\ l = "calendar"
      BY <1>1, <1>3, <3>1, <3>2 DEF OpFits, homeList, TypedInv, ViewInv
    <3>4. ops[t].kind = "delete" /\ ops[t].calSchedule = NoSchedule
      BY <1>1, <3>1, <3>2, <3>3 DEF OpFits, DraftOpFits
    <3>5. s # NoSchedule
      BY TermFacts DEF TypedInv
    <3>6. s = ops[t].schedule /\ place[s] = "absent"
      BY <2>1, <3>1, <3>2, <3>4, <3>5 DEF OpFits, Served, kept, taken
    <3>. QED BY <2>1, <3>1, <3>3, <3>4, <3>5, <3>6 DEF taken
  <2>2. stored(l) \subseteq DOMAIN made \ unreadable
    BY DEF stored, TypedInv, RowsInv
  <2>3. DOMAIN made \subseteq ScheduleId
    BY TermFacts DEF TypedInv
  <2>. QED BY <2>1, <2>2, <2>3 DEF expected, stored
<1>5. \A k : expected(k)' = expected(k)
  BY <1>1, ExpectedStays DEF rowVars
<1>6. ListsFollow'
  BY <1>2, <1>4, <1>5, StoredListed DEF FollowInv, ListsFollow, Follows, TypedInv
<1>7. DraftsFollow' /\ CalendarFollows'
  BY <1>1, <1>2, <1>5 DEF FollowInv, DraftsFollow, CalendarFollows, Follows
<1>8. ASSUME NEW t \in Term PROVE OpFits(t)' /\ IndexFits(t)'
  <2>1. OpFits(t)'
    BY <1>1, <1>2, OpFitsStays DEF FollowInv, rowVars
  <2>2. IndexFits(t)'
    BY <1>1, IndexStays DEF FollowInv, rowVars
  <2>. QED BY <2>1, <2>2
<1>. QED BY <1>1, <1>6, <1>7, <1>8 DEF FollowInv

\* The list arrives, or does not, on a page that has not worked with it yet.
LEMMA FollowArrival ==
    ASSUME TypedInv, FollowInv, Calm, TypedInv', NEW l \in {"draft", "calendar"},
           listArrives(l) \/ listFails(l)
    PROVE  FollowInv'
<1>1. /\ lists[l].status \in {"asked", "answered"}
      /\ UNCHANGED <<rowVars, page, scheduleIdx, ops, left>>
  BY DEF listArrives, listFails
<1>2. PICK S \in {"success", "error"} : lists' = [lists EXCEPT ![l] = [status |-> S, value |-> <<>>]]
  BY DEF listArrives, listFails
<1>3. /\ lists'[l].status = S
      /\ \A k \in {"draft", "calendar"} \ {l} : lists'[k] = lists[k]
  BY <1>2 DEF TypedInv, ViewInv
<1>4. IF S = "success"
      THEN /\ lists[l].status = "answered"
           /\ IF l = "draft" THEN drafts' = lists[l].value /\ UNCHANGED calendarSchedules
              ELSE calendarSchedules' = lists[l].value /\ UNCHANGED drafts
      ELSE UNCHANGED <<drafts, calendarSchedules>>
  <2>1. CASE listArrives(l)
    <3>1. lists'[l].status = "success"
      BY <2>1 DEF listArrives, TypedInv, ViewInv
    <3>. QED BY <1>3, <2>1, <3>1 DEF listArrives
  <2>2. CASE listFails(l)
    <3>1. lists'[l].status = "error"
      BY <2>2 DEF listFails, TypedInv, ViewInv
    <3>. QED BY <1>3, <2>2, <3>1 DEF listFails
  <2>. QED BY <2>1, <2>2
<1>5. \A k : expected(k)' = expected(k)
  BY <1>1, ExpectedStays DEF rowVars
<1>6. ListsFollow'
  BY <1>3, <1>5 DEF FollowInv, ListsFollow, Follows
<1>7. DraftsFollow' /\ CalendarFollows'
  BY <1>1, <1>3, <1>4, <1>5 DEF FollowInv, ListsFollow, DraftsFollow, CalendarFollows, Follows
<1>8. ASSUME NEW t \in Term PROVE OpFits(t)'
  <2>1. OpFits(t)
    BY DEF FollowInv
  <2>2. CASE ops[t] = NoOp
    BY <1>1, <2>2 DEF OpFits
  <2>3. CASE ops[t] # NoOp
    <3>1. l # homeList /\ (page = "drafts" => l = "calendar" /\ ops[t].kind # "toCalendar")
      BY <1>1, <2>1, <2>3 DEF OpFits, DraftOpFits, homeList
    <3>2. UNCHANGED drafts /\ page = "drafts"
      BY <1>1, <1>4, <3>1 DEF homeList, TypedInv, ViewInv
    <3>3. ofTerm(t)' = ofTerm(t) /\ numSchedules(t)' = numSchedules(t)
      BY <1>1, <3>2, NumStays DEF rowVars
    <3>4. homeList' = homeList /\ lists'[homeList].status = "success"
      BY <1>1, <1>3, <2>1, <2>3, <3>1 DEF homeList, OpFits
    <3>. QED BY <1>1, <2>1, <2>3, <3>1, <3>2, <3>3, <3>4 DEF OpFits, DraftOpFits, Served, rowVars
  <2>. QED BY <2>2, <2>3
<1>9. ASSUME NEW t \in Term PROVE IndexFits(t)'
  <2>1. CASE UNCHANGED drafts
    BY <1>1, <2>1, IndexStays DEF FollowInv, rowVars
  <2>2. CASE ~UNCHANGED drafts
    <3>1. l = "draft" /\ scheduleIdx[t] = 0
      BY <1>1, <1>4, <2>2 DEF FollowInv, DraftsFollow
    <3>2. numSchedules(t)' \in Nat
      <4>1. PICK list, own : list = drafts' /\ own = ofTerm(t)'
        OBVIOUS
      <4>2. list \in Seq(ScheduleId)
        BY <4>1 DEF TypedInv, ViewInv, Listing
      <4>3. selected(list, own) \in Seq(ScheduleId)
        BY <4>2, SelectedFacts
      <4>4. PICK r \in Seq(ScheduleId) : r = selected(list, own)
        BY <4>3
      <4>. QED BY <4>1, <4>4 DEF numSchedules, scheduleSetData
    <3>. QED BY <1>1, <3>1, <3>2 DEF IndexFits
  <2>. QED BY <2>1, <2>2
<1>. QED BY <1>1, <1>6, <1>7, <1>8, <1>9 DEF FollowInv

LEMMA DraftsThere ==
    ASSUME TypedInv, FollowInv, NEW t, pages(t) PROVE lists["draft"].status = "success"
<1> SUFFICES ASSUME lists["draft"].status # "success" PROVE FALSE
  OBVIOUS
<1>1. drafts = <<>>
  BY DEF FollowInv, DraftsFollow
<1>2. numSchedules(t) = 0
  BY <1>1, NothingSelected DEF numSchedules, scheduleSetData
<1>. QED BY <1>2 DEF pages

\* Another draft is selected.
LEMMA FollowIndex ==
    ASSUME TypedInv, FollowInv, NEW t \in Term, NEW i, pages(t), updateScheduleIdx(t, i),
           UNCHANGED <<rowVars, page, lists, drafts, calendarSchedules, ops, left>>
    PROVE  FollowInv'
<1>1. lists["draft"].status = "success"
  BY DraftsThere
<1>2. \A k : expected(k)' = expected(k)
  BY ExpectedStays DEF rowVars
<1>3. ListsFollow' /\ DraftsFollow' /\ CalendarFollows'
  BY <1>1, <1>2 DEF FollowInv, ListsFollow, DraftsFollow, CalendarFollows, Follows
<1>4. ASSUME NEW u \in Term PROVE OpFits(u)'
  BY OpFitsStays DEF FollowInv, rowVars
<1>5. ASSUME NEW u \in Term PROVE IndexFits(u)'
  <2>1. CASE u = t
    <3>1. numSchedules(t)' = numSchedules(t)
      BY NumStays DEF rowVars
    <3>2. scheduleIdx'[t] = IF isValidIndex(t, i) THEN i ELSE emptyScheduleIdx
      BY DEF updateScheduleIdx, TypedInv, ViewInv
    <3>3. numSchedules(t) \in Nat
      BY DraftsOfTerm DEF TypedInv
    <3>. QED BY <2>1, <3>1, <3>2, <3>3 DEF IndexFits, isValidIndex, emptyScheduleIdx
  <2>2. CASE u # t
    <3>1. scheduleIdx'[u] = scheduleIdx[u]
      BY <2>2 DEF updateScheduleIdx, TypedInv, ViewInv
    <3>. QED BY <3>1, IndexStays DEF FollowInv, rowVars
  <2>. QED BY <2>1, <2>2
<1>. QED BY <1>3, <1>4, <1>5 DEF FollowInv, rowVars

\* A click that asks for something the page knows.
LEMMA FollowAsk ==
    ASSUME TypedInv, FollowInv, NEW t \in Term, ops[t] = NoOp, NEW op \in Operation(t),
           op.step = "asked", ask(t, op), OpFits(t)'
    PROVE  FollowInv'
<1>1. /\ ops'[t] = op /\ (\A u \in Term \ {t} : ops'[u] = ops[u])
      /\ UNCHANGED <<rowVars, page, lists, drafts, calendarSchedules, scheduleIdx, left>>
  BY DEF ask, viewVars, TypedInv, ViewInv
<1>2. ASSUME NEW l PROVE expected(l)' = expected(l)
  <2>1. ASSUME NEW s \in DOMAIN made PROVE kept(s)' = kept(s) /\ taken(s)' = taken(s)
    <3>1. made[s] \in Term
      BY TermFacts DEF TypedInv
    <3>2. CASE made[s] = t
      <4>1. ops[t].step # "ok" /\ ops'[t].step # "ok"
        BY <1>1, OpFacts
      <4>. QED BY <1>1, <3>2, <4>1 DEF kept, taken, rowVars
    <3>3. CASE made[s] # t
      BY <1>1, <3>1, <3>3 DEF kept, taken, rowVars
    <3>. QED BY <3>2, <3>3
  <2>. QED BY <1>1, <2>1 DEF expected, homeList, rowVars
<1>3. ListsFollow' /\ DraftsFollow' /\ CalendarFollows'
  BY <1>1, <1>2 DEF FollowInv, ListsFollow, DraftsFollow, CalendarFollows, Follows
<1>4. ASSUME NEW u \in Term PROVE OpFits(u)'
  BY <1>1, OpFitsStays DEF FollowInv, rowVars
<1>5. ASSUME NEW u \in Term PROVE IndexFits(u)'
  BY <1>1, IndexStays DEF FollowInv, rowVars
<1>. QED BY <1>1, <1>3, <1>4, <1>5 DEF FollowInv, rowVars

\* The calendar the page has holds one schedule of a term at most.
LEMMA OneInCalendar ==
    ASSUME TypedInv, FollowInv, lists["calendar"].status = "success", NEW t \in Term,
           ops[t] = NoOp
    PROVE  Range(calendarSchedules) \cap ofTerm(t) = {calendarSchedulesByTerm(t)} \ {NoSchedule}
<1>1. Range(calendarSchedules) = expected("calendar")
  BY DEF FollowInv, CalendarFollows, Follows
<1>2. \A s \in expected("calendar") \cap ofTerm(t) : place[s] = "calendar"
  BY OpFacts DEF expected, kept, taken, ofTerm
<1>3. \A s, v \in Range(calendarSchedules) \cap ofTerm(t) : s = v
  BY <1>1, <1>2 DEF TypedInv, RowsInv, ofTerm
<1>4. NoSchedule \notin ofTerm(t)
  BY TermFacts DEF TypedInv
<1>. QED BY <1>3, <1>4, CalendarOfTerm DEF TypedInv

LEMMA FollowClick ==
    ASSUME TypedInv, FollowInv, TypedInv', NEW t \in Term, Clicked(t), Calm' PROVE FollowInv'
<1>1. ASSUME NEW n, handleScheduleNumChange(t, n) PROVE FollowInv'
  BY <1>1, FollowIndex DEF handleScheduleNumChange
<1>2. CASE decrementScheduleIdx(t)
  BY <1>2, FollowIndex DEF decrementScheduleIdx
<1>3. CASE incrementScheduleIdx(t)
  BY <1>3, FollowIndex DEF incrementScheduleIdx
<1>4. CASE handleDeleteSchedule(t)
  <2>1. /\ page = "drafts" /\ ops[t] = NoOp /\ lists["draft"].status = "success"
        /\ scheduleIdx[t] \in 0..(numSchedules(t) - 1) /\ numSchedules(t) \in Nat \ {0}
    BY <1>4, DraftShown, DraftsThere DEF handleDeleteSchedule, pages
  <2>2. PICK s \in Range(drafts) \cap ofTerm(t), i \in 0..(numSchedules(t) - 1) :
            /\ s = scheduleSetData(t)[scheduleIdx[t] + 1]
            /\ i = IF scheduleIdx[t] > 0 THEN decremented(t) ELSE 0
            /\ numSchedules(t) > 1 => i <= numSchedules(t) - 2
    BY <1>4, <2>1, DraftShown DEF handleDeleteSchedule
  <2>3. PICK op \in Operation(t) :
            op = [kind |-> "delete", schedule |-> s, calSchedule |-> NoSchedule, step |-> "asked", idx |-> i]
    <3>1. s \in ofTerm(t) /\ i \in Int
      BY <2>1
    <3>. QED BY <3>1 DEF Operation
  <2>4. ask(t, op)
    BY <1>4, <2>2, <2>3 DEF handleDeleteSchedule
  <2>5. ops'[t] = op /\ UNCHANGED <<drafts, made, page, lists>>
    BY <2>4 DEF ask, viewVars, rowVars, TypedInv, ViewInv
  <2>6. numSchedules(t)' = numSchedules(t)
    BY <2>5, NumStays
  <2>7. /\ op.kind = "delete" /\ op.schedule = s /\ op.calSchedule = NoSchedule
        /\ op.step = "asked" /\ op.idx = i
    BY <2>3
  <2>8. DraftOpFits(t)'
    BY <2>1, <2>2, <2>5, <2>6, <2>7 DEF DraftOpFits
  <2>9. OpFits(t)'
    BY <2>1, <2>5, <2>7, <2>8 DEF OpFits, Served, homeList
  <2>. QED BY <2>1, <2>4, <2>7, <2>9, FollowAsk
<1>5. CASE handleMoveToCalendar(t)
  <2>1. /\ page = "drafts" /\ ops[t] = NoOp /\ lists["draft"].status = "success"
        /\ scheduleIdx[t] \in 0..(numSchedules(t) - 1) /\ numSchedules(t) \in Nat \ {0}
        /\ lists["calendar"].status = "success"
    BY <1>5, DraftShown, DraftsThere DEF handleMoveToCalendar, pages, Calm
  <2>2. PICK c \in ofTerm(t) \cup {NoSchedule} : c = calendarSchedulesByTerm(t)
    BY CalendarOfTerm DEF TypedInv
  <2>3. PICK s \in Range(drafts) \cap ofTerm(t), i \in 0..(numSchedules(t) - 1) :
            /\ s = scheduleSetData(t)[scheduleIdx[t] + 1]
            /\ i = IF c = NoSchedule /\ scheduleIdx[t] = numSchedules(t) - 1
                   THEN decremented(t) ELSE scheduleIdx[t]
            /\ c = NoSchedule /\ numSchedules(t) > 1 => i <= numSchedules(t) - 2
    BY <1>5, <2>1, DraftShown DEF handleMoveToCalendar
  <2>4. PICK op \in Operation(t) :
            op = [kind |-> "toCalendar", schedule |-> s, calSchedule |-> c, step |-> "asked", idx |-> i]
    <3>1. s \in ofTerm(t) /\ i \in Int
      BY <2>1
    <3>. QED BY <3>1 DEF Operation
  <2>5. ask(t, op)
    BY <1>5, <2>2, <2>3, <2>4 DEF handleMoveToCalendar
  <2>6. ops'[t] = op /\ UNCHANGED <<drafts, made, page, lists, calendarSchedules>>
    BY <2>5 DEF ask, viewVars, rowVars, TypedInv, ViewInv
  <2>7. numSchedules(t)' = numSchedules(t) /\ ofTerm(t)' = ofTerm(t)
    BY <2>6, NumStays
  <2>8. /\ op.kind = "toCalendar" /\ op.schedule = s /\ op.calSchedule = c
        /\ op.step = "asked" /\ op.idx = i
    BY <2>4
  <2>9. Range(calendarSchedules) \cap ofTerm(t) = {c} \ {NoSchedule}
    BY <2>1, <2>2, OneInCalendar
  <2>10. DraftOpFits(t)'
    BY <2>1, <2>3, <2>6, <2>7, <2>8, <2>9 DEF DraftOpFits
  <2>11. OpFits(t)'
    BY <2>1, <2>6, <2>8, <2>10 DEF OpFits, Served, homeList
  <2>. QED BY <2>1, <2>5, <2>8, <2>11, FollowAsk
<1>6. ASSUME NEW kind \in {"saveDraft", "saveCalendar"}, saveSchedule(t, kind) PROVE FollowInv'
  <2>1. page = "scheduler" /\ UNCHANGED <<viewVars, ops>>
    BY <1>6 DEF saveSchedule, Calm
  <2>2. listed = {}
    BY <2>1 DEF listed, TypedInv, ViewInv
  <2>. QED BY <2>1, <2>2, NothingListed
<1>. QED BY <1>1, <1>2, <1>3, <1>4, <1>5, <1>6 DEF Clicked

LEMMA FollowCalendarClick ==
    ASSUME TypedInv, FollowInv, NEW s, NEW kind \in {"delete", "toDrafts"}, changeCalendar(s, kind)
    PROVE  FollowInv'
<1>1. s \in DOMAIN made /\ made[s] \in Term /\ s \in ofTerm(made[s]) /\ s \in Range(calendarSchedules)
  BY TermFacts DEF changeCalendar, TypedInv, ViewInv, Listing
<1>2. PICK t \in Term : t = made[s]
  BY <1>1
<1>3. page = "calendar" /\ ops[t] = NoOp
  BY <1>2 DEF changeCalendar
<1>4. lists["calendar"].status = "success"
  BY <1>1, EmptyList DEF FollowInv, CalendarFollows
<1>5. PICK op \in Operation(t) : op = [kind |-> kind, schedule |-> s, calSchedule |-> NoSchedule,
                                      idx |-> -1, step |-> "asked"]
  <2>1. PICK i \in Int : i = -1
    OBVIOUS
  <2>2. PICK op \in Operation(t) : op = [kind |-> kind, schedule |-> s, calSchedule |-> NoSchedule,
                                         idx |-> i, step |-> "asked"]
    BY <1>1, <1>2 DEF Operation
  <2>. QED BY <2>1, <2>2
<1>6. ask(t, op) /\ op.kind = kind /\ op.schedule = s /\ op.calSchedule = NoSchedule /\ op.step = "asked"
  BY <1>2, <1>5 DEF changeCalendar
<1>7. ops'[t] = op /\ UNCHANGED <<page, lists, calendarSchedules>>
  BY <1>6 DEF ask, viewVars, TypedInv, ViewInv
<1>8. OpFits(t)'
  BY <1>1, <1>3, <1>4, <1>6, <1>7 DEF OpFits, CalendarOpFits, Served, homeList
<1>. QED BY <1>3, <1>6, <1>8, FollowAsk

\* The request of a term fails: nothing it was about has changed.
LEMMA FollowFailure ==
    ASSUME TypedInv, FollowInv, NEW t \in Term, ops[t] # NoOp, ops[t].step = "asked",
           ops' = [ops EXCEPT ![t].step = "failed"], UNCHANGED <<rowVars, viewVars, left>>
    PROVE  FollowInv'
<1>1. /\ \A u \in Term \ {t} : ops'[u] = ops[u]
      /\ ops'[t].step = "failed" /\ ops'[t].kind = ops[t].kind /\ ops'[t].schedule = ops[t].schedule
      /\ ops'[t].calSchedule = ops[t].calSchedule /\ ops'[t].idx = ops[t].idx
  BY OpSteps DEF TypedInv
<1>2. ASSUME NEW l PROVE expected(l)' = expected(l)
  <2>1. ASSUME NEW s \in DOMAIN made PROVE kept(s)' = kept(s) /\ taken(s)' = taken(s)
    <3>1. made[s] \in Term
      BY TermFacts DEF TypedInv
    <3>2. CASE made[s] = t
      BY <1>1, <3>2 DEF kept, taken, rowVars
    <3>3. CASE made[s] # t
      BY <1>1, <3>1, <3>3 DEF kept, taken, rowVars
    <3>. QED BY <3>2, <3>3
  <2>. QED BY <2>1 DEF expected, homeList, rowVars, viewVars
<1>3. ListsFollow' /\ DraftsFollow' /\ CalendarFollows'
  BY <1>2 DEF FollowInv, ListsFollow, DraftsFollow, CalendarFollows, Follows, viewVars
<1>4. ASSUME NEW u \in Term PROVE OpFits(u)'
  <2>1. CASE u # t
    BY <1>1, <2>1, OpFitsStays DEF FollowInv, rowVars, viewVars
  <2>2. CASE u = t
    <3>1. ofTerm(t)' = ofTerm(t) /\ numSchedules(t)' = numSchedules(t)
      BY NumStays DEF rowVars, viewVars
    <3>2. OpFits(t)
      BY DEF FollowInv
    <3>. QED BY <1>1, <2>2, <3>1, <3>2
         DEF OpFits, DraftOpFits, CalendarOpFits, Served, homeList, viewVars
  <2>. QED BY <2>1, <2>2
<1>5. ASSUME NEW u \in Term PROVE IndexFits(u)'
  BY IndexStays DEF FollowInv, rowVars, viewVars
<1>. QED BY <1>3, <1>4, <1>5 DEF FollowInv, rowVars, viewVars

\* What a request of the page that was not served is about.
LEMMA OpKnows ==
    ASSUME TypedInv, FollowInv, NEW t \in Term, ops[t] # NoOp
    PROVE  /\ ops[t] \in Operation(t) /\ OpFits(t)
           /\ page \in {"drafts", "calendar"} /\ lists[homeList].status = "success"
           /\ ops[t].schedule \in ofTerm(t) /\ ops[t].schedule \in ScheduleId
           /\ ops[t].schedule \in expected(homeList) /\ ops[t].schedule # NoSchedule
           /\ ops[t].schedule \in DOMAIN made /\ made[ops[t].schedule] = t
           /\ ops[t].calSchedule # NoSchedule =>
                /\ page = "drafts" /\ ops[t].kind = "toCalendar"
                /\ ops[t].calSchedule \in ofTerm(t) /\ ops[t].calSchedule \in ScheduleId
                /\ ops[t].calSchedule \in DOMAIN made /\ made[ops[t].calSchedule] = t
                /\ ops[t].calSchedule \in Range(calendarSchedules)
           /\ ops[t].kind = "toCalendar" =>
                /\ page = "drafts" /\ lists["calendar"].status = "success"
                /\ Range(calendarSchedules) = expected("calendar")
                /\ Range(calendarSchedules) \cap ofTerm(t) = {ops[t].calSchedule} \ {NoSchedule}
<1>1. ops[t] \in Operation(t) /\ OpFits(t)
  BY DEF TypedInv, ViewInv, FollowInv
<1>2. page \in {"drafts", "calendar"}
  BY DEF TypedInv, ViewInv
<1>3. /\ ops[t].schedule \in ofTerm(t)
      /\ ops[t].calSchedule # NoSchedule => ops[t].calSchedule \in ofTerm(t)
  BY <1>1 DEF Operation
<1>4. ofTerm(t) \subseteq DOMAIN made /\ ofTerm(t) \subseteq ScheduleId /\ NoSchedule \notin ofTerm(t)
  BY TermFacts DEF TypedInv
<1>5. \A s \in ofTerm(t) : made[s] = t
  BY DEF ofTerm
<1>6. lists[homeList].status = "success"
  BY <1>1 DEF OpFits
<1>7. ops[t].schedule \in expected(homeList)
  <2>1. CASE page = "drafts"
    BY <1>1, <1>6, <2>1 DEF OpFits, DraftOpFits, homeList, FollowInv, DraftsFollow, Follows
  <2>2. CASE page = "calendar"
    BY <1>1, <1>6, <2>2 DEF OpFits, CalendarOpFits, homeList, FollowInv, CalendarFollows, Follows
  <2>. QED BY <1>2, <2>1, <2>2
<1>8. ops[t].kind = "toCalendar" =>
        /\ page = "drafts" /\ lists["calendar"].status = "success"
        /\ Range(calendarSchedules) = expected("calendar")
        /\ Range(calendarSchedules) \cap ofTerm(t) = {ops[t].calSchedule} \ {NoSchedule}
  BY <1>1, <1>2 DEF OpFits, DraftOpFits, CalendarOpFits, FollowInv, CalendarFollows, Follows
<1>9. ops[t].calSchedule # NoSchedule => page = "drafts" /\ ops[t].kind = "toCalendar"
  BY <1>1, <1>2 DEF OpFits, DraftOpFits, CalendarOpFits
<1>10. ops[t].calSchedule # NoSchedule => ops[t].calSchedule \in Range(calendarSchedules)
  BY <1>8, <1>9
<1>. QED BY <1>1, <1>2, <1>3, <1>4, <1>5, <1>6, <1>7, <1>8, <1>9, <1>10

\* The rows change as the page will change its lists when it hears of it.
LEMMA FollowServe ==
    ASSUME TypedInv, FollowInv, NEW t \in Term, serve(t), ~disturbed' PROVE FollowInv'
<1>1. ops[t] # NoOp /\ ops[t].step = "asked" /\ UNCHANGED <<unreadable, viewVars, left>>
  BY OpFacts DEF serve
<1>2. CASE absent(ops[t].schedule)
  <2>1. ops' = [ops EXCEPT ![t].step = "failed"] /\ UNCHANGED rowVars
    BY <1>1, <1>2 DEF serve, rowVars
  <2>. QED BY <1>1, <2>1, FollowFailure
<1>3. CASE ~absent(ops[t].schedule)
  <2>0. PICK c : c = ops[t].calSchedule
    OBVIOUS
  <2>1. PICK s \in ScheduleId, kind \in {"delete", "toCalendar", "toDrafts"} :
            s = ops[t].schedule /\ c = ops[t].calSchedule /\ kind = ops[t].kind
    BY <1>1, <2>0, OpKnows DEF Operation
  <2>2. /\ page \in {"drafts", "calendar"} /\ s \in DOMAIN made /\ made[s] = t /\ s # NoSchedule
        /\ s \in expected(homeList)
        /\ c # NoSchedule => /\ page = "drafts" /\ kind = "toCalendar"
                             /\ c \in DOMAIN made /\ c \in ScheduleId /\ made[c] = t
                             /\ c \in expected("calendar")
        /\ kind = "toCalendar" =>
                /\ page = "drafts" /\ expected("calendar") \cap ofTerm(t) = {c} \ {NoSchedule}
    BY <1>1, <2>1, OpKnows
  <2>3. /\ apply(kind, s, t) /\ place[s] # "absent" /\ ops' = [ops EXCEPT ![t].step = "ok"]
    BY <1>3, <2>1, <2>2 DEF serve, absent
  <2>4. /\ made' = made
        /\ place'[s] = CASE kind = "delete" -> "absent"
                         [] kind = "toCalendar" -> "calendar" [] OTHER -> "draft"
        /\ \A v \in ScheduleId \ {s} : place'[v] =
                IF /\ kind = "toCalendar" /\ place[v] = "calendar"
                   /\ v \in DOMAIN made /\ made[v] = made[s]
                THEN "draft" ELSE place[v]
    BY <2>2, <2>3, RowMoves DEF TypedInv
  <2>5. /\ \A u \in Term \ {t} : ops'[u] = ops[u]
        /\ ops'[t].step = "ok" /\ ops'[t].kind = kind /\ ops'[t].schedule = s
        /\ ops'[t].calSchedule = c /\ ops'[t].idx = ops[t].idx
    BY <1>1, <2>1, <2>3, OpSteps DEF TypedInv
  <2>6. /\ place[s] = homeList
        /\ c # NoSchedule => place[c] = "calendar" /\ c # s
    <3>1. place[s] = homeList
      BY <1>1, <2>2 DEF expected, kept, taken
    <3>2. c # NoSchedule => place[c] = "calendar"
      BY <1>1, <2>2 DEF expected, kept, taken
    <3>. QED BY <2>2, <3>1, <3>2 DEF homeList
  <2>7. ASSUME NEW l \in {"draft", "calendar"} PROVE expected(l)' = expected(l)
    <3>1. ASSUME NEW v \in DOMAIN made \ unreadable
          PROVE  (IF kept(v) THEN l = homeList ELSE IF taken(v) THEN l = "calendar" ELSE place[v] = l)
                 <=> (IF kept(v) THEN l = homeList ELSE IF taken(v) THEN l = "calendar" ELSE place[v] = l)'
      <4>1. v \in ScheduleId /\ made[v] \in Term /\ v # NoSchedule
        BY TermFacts DEF TypedInv
      <4>2. CASE v = s
        <5>1. ~kept(v) /\ ~taken(v) /\ kept(v)'
          BY <1>1, <2>2, <2>4, <2>5, <4>2 DEF kept, taken
        <5>. QED BY <1>1, <2>6, <4>2, <5>1 DEF viewVars, homeList
      <4>3. CASE v # s /\ v = c
        <5>1. ~kept(v) /\ ~taken(v) /\ ~kept(v)' /\ taken(v)' /\ place[v] = "calendar"
          BY <1>1, <2>2, <2>4, <2>5, <2>6, <4>1, <4>3 DEF kept, taken
        <5>. QED BY <5>1
      <4>4. CASE v # s /\ v # c /\ made[v] = t
        <5>1. ~kept(v) /\ ~taken(v) /\ ~kept(v)' /\ ~taken(v)'
          BY <1>1, <2>4, <2>5, <4>4 DEF kept, taken
        <5>2. kind = "toCalendar" => place[v] # "calendar"
          <6> SUFFICES ASSUME kind = "toCalendar", place[v] = "calendar" PROVE FALSE
            OBVIOUS
          <6>1. v \in expected("calendar") /\ v \in ofTerm(t)
            BY <3>1, <4>4, <5>1 DEF expected, ofTerm
          <6>. QED BY <2>2, <4>4, <6>1
        <5>3. place'[v] = place[v]
          BY <2>4, <4>1, <4>4, <5>2
        <5>. QED BY <5>1, <5>3
      <4>5. CASE made[v] # t
        <5>1. kept(v)' = kept(v) /\ taken(v)' = taken(v)
          BY <2>4, <2>5, <4>1, <4>5 DEF kept, taken
        <5>2. place'[v] = place[v]
          BY <2>2, <2>4, <4>1, <4>5
        <5>. QED BY <1>1, <5>1, <5>2 DEF homeList, viewVars
      <4>. QED BY <4>2, <4>3, <4>4, <4>5
    <3>. QED BY <1>1, <2>4, <3>1 DEF expected
  <2>8. ListsFollow' /\ DraftsFollow' /\ CalendarFollows'
    BY <1>1, <2>7 DEF FollowInv, ListsFollow, DraftsFollow, CalendarFollows, Follows, viewVars
  <2>9. ASSUME NEW u \in Term PROVE OpFits(u)'
    <3>1. OpFits(u)
      BY DEF FollowInv
    <3>2. ofTerm(u)' = ofTerm(u) /\ numSchedules(u)' = numSchedules(u)
      BY <1>1, <2>4, NumStays DEF viewVars
    <3>3. CASE u = t
      <4>1. Served(t)'
        BY <2>2, <2>4, <2>5, <2>6 DEF Served
      <4>. QED BY <1>1, <2>1, <2>5, <3>1, <3>2, <3>3, <4>1
           DEF OpFits, DraftOpFits, CalendarOpFits, homeList, viewVars
    <3>4. CASE u # t /\ ops[u] = NoOp
      BY <2>5, <3>4 DEF OpFits
    <3>5. CASE u # t /\ ops[u] # NoOp
      <4>1. /\ place'[ops[u].schedule] = place[ops[u].schedule]
            /\ ops[u].calSchedule # NoSchedule => place'[ops[u].calSchedule] = place[ops[u].calSchedule]
        BY <2>2, <2>4, <3>5, OpKnows
      <4>2. Served(u)'
        BY <2>5, <3>1, <3>5, <4>1 DEF OpFits, Served
      <4>. QED BY <1>1, <2>5, <3>1, <3>2, <3>5, <4>2
           DEF OpFits, DraftOpFits, CalendarOpFits, homeList, viewVars
    <3>. QED BY <3>3, <3>4, <3>5
  <2>10. ASSUME NEW u \in Term PROVE IndexFits(u)'
    BY <1>1, <2>4, IndexStays DEF FollowInv, viewVars
  <2>. QED BY <1>1, <2>8, <2>9, <2>10 DEF FollowInv, viewVars
<1>. QED BY <1>2, <1>3

LEMMA CountRemoved ==
    ASSUME NEW d \in Seq(ScheduleId), IsInjective(d), NEW e \in Seq(ScheduleId), IsInjective(e),
           NEW S, NEW s \in Range(d) \cap S, Range(e) \cap S = (Range(d) \cap S) \ {s}
    PROVE  Len(selected(e, S)) = Len(selected(d, S)) - 1
<1>1. PICK R : R = Range(d) \cap S
  OBVIOUS
<1>2. IsFiniteSet(R)
  BY <1>1, InjectiveLength, FS_Subset
<1>3. Cardinality(R \ {s}) = Cardinality(R) - 1
  BY <1>1, <1>2, FS_RemoveElement
<1>. QED BY <1>1, <1>3, CountSelected

LEMMA CountReplaced ==
    ASSUME NEW d \in Seq(ScheduleId), IsInjective(d), NEW e \in Seq(ScheduleId), IsInjective(e),
           NEW S, NEW s \in Range(d) \cap S, NEW c, c \notin Range(d),
           Range(e) \cap S = ((Range(d) \cap S) \ {s}) \cup {c}
    PROVE  Len(selected(e, S)) = Len(selected(d, S))
<1>1. PICK R : R = Range(d) \cap S
  OBVIOUS
<1>2. IsFiniteSet(R)
  BY <1>1, InjectiveLength, FS_Subset
<1>3. Cardinality(R \ {s}) = Cardinality(R) - 1 /\ IsFiniteSet(R \ {s})
  BY <1>1, <1>2, FS_RemoveElement
<1>4. Cardinality((R \ {s}) \cup {c}) = Cardinality(R \ {s}) + 1
  BY <1>1, <1>3, FS_AddElement
<1>5. Cardinality(R) \in Nat
  BY <1>2, FS_CardinalityType
<1>. QED BY <1>1, <1>3, <1>4, <1>5, CountSelected

LEMMA CountSame ==
    ASSUME NEW d \in Seq(ScheduleId), IsInjective(d), NEW e \in Seq(ScheduleId), IsInjective(e),
           NEW S, Range(e) \cap S = Range(d) \cap S
    PROVE  Len(selected(e, S)) = Len(selected(d, S))
BY CountSelected

\* What the lists should hold once the page has heard of its request.
LEMMA ExpectedAnswered ==
    ASSUME TypedInv, FollowInv, NEW t \in Term, ops[t] # NoOp, ops' = [ops EXCEPT ![t] = NoOp],
           UNCHANGED <<rowVars, page>>, NEW l \in {"draft", "calendar"}
    PROVE  expected(l)' = IF ops[t].step # "ok" THEN expected(l)
                          ELSE {v \in expected(l) : v # ops[t].schedule /\ v # ops[t].calSchedule}
                            \cup {v \in DOMAIN made \ unreadable :
                                    /\ v = ops[t].schedule \/ v = ops[t].calSchedule
                                    /\ place[v] = l}
<1>1. ops'[t] = NoOp /\ \A u \in Term \ {t} : ops'[u] = ops[u]
  BY DEF TypedInv, ViewInv
<1>2. \A v \in DOMAIN made : made[v] \in Term
  BY TermFacts DEF TypedInv
<1>3. \A v \in DOMAIN made : v # NoSchedule
  BY TermFacts DEF TypedInv
<1>4. /\ ops[t].schedule \in DOMAIN made => made[ops[t].schedule] = t
      /\ ops[t].calSchedule # NoSchedule => made[ops[t].calSchedule] = t
  BY OpKnows
<1>5. \A v \in DOMAIN made : ~(made[v] = t /\ (kept(v)' \/ taken(v)'))
  BY <1>1, OpFacts DEF kept, taken, rowVars
<1>6. \A v \in DOMAIN made : made[v] # t => kept(v)' = kept(v) /\ taken(v)' = taken(v)
  BY <1>1, <1>2 DEF kept, taken, rowVars
<1>7. \A v \in DOMAIN made : made[v] = t =>
        /\ kept(v) <=> ops[t].step = "ok" /\ v = ops[t].schedule
        /\ taken(v) <=> ops[t].step = "ok" /\ v = ops[t].calSchedule
  BY DEF kept, taken
<1>8. homeList' = homeList /\ UNCHANGED <<made, place, unreadable>>
  BY DEF homeList, rowVars
<1>9. CASE ops[t].step # "ok"
  <2>1. ASSUME NEW v \in DOMAIN made \ unreadable PROVE v \in expected(l)' <=> v \in expected(l)
    BY <1>5, <1>6, <1>7, <1>8, <1>9 DEF expected
  <2>. QED BY <1>8, <1>9, <2>1 DEF expected
<1>10. CASE ops[t].step = "ok"
  <2>1. ASSUME NEW v \in DOMAIN made \ unreadable
        PROVE  v \in expected(l)' <=>
                IF v = ops[t].schedule \/ v = ops[t].calSchedule THEN place[v] = l ELSE v \in expected(l)
    <3>1. CASE made[v] = t
      BY <1>5, <1>7, <1>8, <1>10, <3>1 DEF expected
    <3>2. CASE made[v] # t
      BY <1>3, <1>4, <1>6, <1>8, <3>2 DEF expected
    <3>. QED BY <3>1, <3>2
  <2>2. expected(l) \subseteq DOMAIN made \ unreadable /\ expected(l)' \subseteq DOMAIN made \ unreadable
    BY <1>8 DEF expected
  <2>. QED BY <1>10, <2>1, <2>2
<1>. QED BY <1>9, <1>10

\* The lists change in the term of the request only.
LEMMA OthersFit ==
    ASSUME NEW u, OpFits(u), ops[u] # NoOp => ops[u].schedule \in ofTerm(u), ops'[u] = ops[u],
           UNCHANGED <<place, made, page, lists>>, numSchedules(u)' = numSchedules(u),
           Range(drafts') \cap ofTerm(u) = Range(drafts) \cap ofTerm(u),
           Range(calendarSchedules') \cap ofTerm(u) = Range(calendarSchedules) \cap ofTerm(u)
    PROVE  OpFits(u)'
<1>1. ofTerm(u)' = ofTerm(u)
  BY DEF ofTerm
<1>2. CASE ops[u] = NoOp
  BY <1>2 DEF OpFits
<1>3. CASE ops[u] # NoOp
  <2>1. page = "drafts" => DraftOpFits(u)'
    BY <1>1, <1>3 DEF OpFits, DraftOpFits
  <2>2. page = "calendar" => CalendarOpFits(u)'
    BY <1>3 DEF OpFits, CalendarOpFits
  <2>. QED BY <1>3, <2>1, <2>2 DEF OpFits, Served, homeList
<1>. QED BY <1>2, <1>3

\* What the lists should hold once the page has heard of a request that was served.
LEMMA ServedAnswered ==
    ASSUME TypedInv, FollowInv, NEW t \in Term, ops[t].step = "ok", ops' = [ops EXCEPT ![t] = NoOp],
           UNCHANGED <<rowVars, page>>,
           NEW s, s = ops[t].schedule, NEW c, c = ops[t].calSchedule
    PROVE  /\ page = "calendar" =>
                /\ s \in Range(calendarSchedules)
                /\ expected("calendar")' = Range(calendarSchedules) \ {s}
           /\ page = "drafts" =>
                /\ s \in Range(drafts) /\ Range(drafts) = expected("draft")
                /\ c = NoSchedule => expected("draft")' = Range(drafts) \ {s}
                /\ c # NoSchedule => expected("draft")' = (Range(drafts) \ {s}) \cup {c}
           /\ ops[t].kind = "toCalendar" =>
                /\ s \notin Range(calendarSchedules)
                /\ c = NoSchedule => expected("calendar")' = Range(calendarSchedules) \cup {s}
                /\ c # NoSchedule =>
                    /\ c \notin Range(drafts) /\ c \in Range(calendarSchedules)
                    /\ expected("calendar")' = (Range(calendarSchedules) \ {c}) \cup {s}
           /\ page = "drafts" /\ ops[t].kind # "toCalendar" =>
                /\ c = NoSchedule
                /\ expected("calendar")' = expected("calendar")
<1>1. ops[t] # NoOp
  BY OpFacts
<1>2. /\ page \in {"drafts", "calendar"} /\ lists[homeList].status = "success" /\ OpFits(t)
      /\ s \in expected(homeList) /\ s # NoSchedule /\ s \in DOMAIN made /\ made[s] = t
      /\ c # NoSchedule => /\ page = "drafts" /\ ops[t].kind = "toCalendar"
                           /\ c \in DOMAIN made /\ made[c] = t /\ c \in Range(calendarSchedules)
      /\ ops[t].kind = "toCalendar" =>
            page = "drafts" /\ Range(calendarSchedules) = expected("calendar")
  BY <1>1, OpKnows
<1>3. /\ place[s] = CASE ops[t].kind = "delete" -> "absent"
                      [] ops[t].kind = "toCalendar" -> "calendar" [] OTHER -> "draft"
      /\ c # NoSchedule => place[c] = "draft"
  BY <1>1, <1>2 DEF OpFits, Served
<1>4. s \notin unreadable /\ kept(s) /\ (c # NoSchedule => c # s /\ taken(c) /\ ~kept(c))
  BY <1>1, <1>2, <1>3 DEF expected, kept, taken
<1>5. NoSchedule \notin DOMAIN made
  BY TermFacts DEF TypedInv
<1>6. \A l \in {"draft", "calendar"} :
        expected(l)' = {v \in expected(l) : v # s /\ v # c}
            \cup {v \in DOMAIN made \ unreadable : (v = s \/ v = c) /\ place[v] = l}
  <2> TAKE l \in {"draft", "calendar"}
  <2>1. expected(l)' = IF ops[t].step # "ok" THEN expected(l)
                       ELSE {v \in expected(l) : v # ops[t].schedule /\ v # ops[t].calSchedule}
                         \cup {v \in DOMAIN made \ unreadable :
                                 /\ v = ops[t].schedule \/ v = ops[t].calSchedule
                                 /\ place[v] = l}
    BY <1>1, ExpectedAnswered
  <2>. QED BY <2>1
<1>7. \A l : NoSchedule \notin expected(l)
  BY <1>5 DEF expected
<1>8. CASE page = "calendar"
  <2>1. Range(calendarSchedules) = expected("calendar")
    BY <1>2, <1>8 DEF homeList, FollowInv, CalendarFollows, Follows
  <2>2. c = NoSchedule /\ ops[t].kind # "toCalendar" /\ place[s] # "calendar" /\ s \in Range(calendarSchedules)
    BY <1>2, <1>3, <1>8, <2>1 DEF homeList
  <2>3. expected("calendar")' = Range(calendarSchedules) \ {s}
    BY <1>5, <1>6, <1>7, <2>1, <2>2
  <2>. QED BY <1>8, <2>2, <2>3
<1>9. CASE page = "drafts"
  <2>1. Range(drafts) = expected("draft") /\ s \in Range(drafts)
    BY <1>2, <1>9 DEF homeList, FollowInv, DraftsFollow, Follows
  <2>2. s \notin expected("calendar")
    BY <1>4, <1>9 DEF expected, homeList
  <2>3. ops[t].kind \in {"delete", "toCalendar"}
    BY <1>1, <1>2, <1>9 DEF OpFits, DraftOpFits
  <2>4. c # NoSchedule => c \notin expected("draft") /\ c \notin unreadable
    BY <1>2, <1>4 DEF expected
  <2>5. place[s] # "draft" /\ (ops[t].kind = "toCalendar" <=> place[s] = "calendar")
    BY <1>3, <2>3
  <2>6. CASE c = NoSchedule
    <3>1. expected("draft")' = Range(drafts) \ {s}
      BY <1>5, <1>6, <1>7, <2>1, <2>5, <2>6
    <3>2. expected("calendar")' = expected("calendar") \cup (IF ops[t].kind = "toCalendar" THEN {s} ELSE {})
      BY <1>2, <1>4, <1>5, <1>6, <1>7, <2>2, <2>5, <2>6
    <3>. QED BY <1>2, <1>9, <2>1, <2>2, <2>6, <3>1, <3>2
  <2>7. CASE c # NoSchedule
    <3>1. expected("draft")' = (Range(drafts) \ {s}) \cup {c}
      BY <1>2, <1>3, <1>6, <2>1, <2>4, <2>5, <2>7
    <3>2. expected("calendar")' = (expected("calendar") \ {c}) \cup {s}
      BY <1>2, <1>3, <1>4, <1>6, <2>2, <2>5, <2>7
    <3>. QED BY <1>2, <1>9, <2>1, <2>2, <2>4, <2>7, <3>1, <3>2
  <2>. QED BY <2>6, <2>7
<1>. QED BY <1>2, <1>8, <1>9

\* The page hears of a request and keeps its lists and the selected draft right.
LEMMA AnswerCloses ==
    ASSUME TypedInv, FollowInv, NEW t \in Term, ops' = [ops EXCEPT ![t] = NoOp],
           UNCHANGED <<rowVars, page, lists, left>>,
           ListsFollow' /\ DraftsFollow' /\ CalendarFollows', IndexFits(t)',
           \A u \in Term \ {t} :
                /\ scheduleIdx'[u] = scheduleIdx[u] /\ numSchedules(u)' = numSchedules(u)
                /\ Range(drafts') \cap ofTerm(u) = Range(drafts) \cap ofTerm(u)
                /\ Range(calendarSchedules') \cap ofTerm(u) = Range(calendarSchedules) \cap ofTerm(u)
    PROVE  FollowInv'
<1>1. ops'[t] = NoOp /\ \A u \in Term \ {t} : ops'[u] = ops[u]
  BY DEF TypedInv, ViewInv
<1>2. ASSUME NEW u \in Term PROVE OpFits(u)'
  <2>1. CASE u = t
    BY <1>1, <2>1 DEF OpFits
  <2>2. CASE u # t
    <3>1. OpFits(u) /\ (ops[u] # NoOp => ops[u].schedule \in ofTerm(u))
      BY OpKnows DEF FollowInv
    <3>. QED BY <1>1, <2>2, <3>1, OthersFit DEF rowVars
  <2>. QED BY <2>1, <2>2
<1>3. ASSUME NEW u \in Term PROVE IndexFits(u)'
  BY DEF FollowInv, IndexFits
<1>. QED BY <1>2, <1>3 DEF FollowInv

\* A draft goes: into the calendar, or for good.
LEMMA DraftGone ==
    ASSUME TypedInv, FollowInv, NEW t \in Term, ops[t].step = "ok", page = "drafts",
           ops[t].calSchedule = NoSchedule, drafts' = removeDraft(ops[t].schedule), UNCHANGED made,
           updateScheduleIdx(t, ops[t].idx)
    PROVE  /\ Range(drafts') = Range(drafts) \ {ops[t].schedule} /\ IsInjective(drafts')
           /\ IndexFits(t)'
           /\ \A u \in Term \ {t} : numSchedules(u)' = numSchedules(u)
<1>1. ops[t] # NoOp
  BY OpFacts
<1>0. PICK s : s = ops[t].schedule
  OBVIOUS
<1>2. PICK d \in Seq(ScheduleId) : d = drafts /\ s = ops[t].schedule
  BY <1>0 DEF TypedInv, ViewInv, Listing
<1>3. IsInjective(d) /\ s \in Range(d) /\ s \in ofTerm(t) /\ made[s] = t
  BY <1>1, <1>2, OpKnows DEF OpFits, DraftOpFits, homeList, FollowInv, DraftsFollow, Follows
<1>4. PICK e \in Seq(ScheduleId) : e = drafts' /\ Range(e) = Range(d) \ {s} /\ IsInjective(e)
  BY <1>2, <1>3, RemovalFacts DEF removeDraft
<1>5. ASSUME NEW u PROVE /\ numSchedules(u) = Len(selected(d, ofTerm(u)))
                         /\ numSchedules(u)' = Len(selected(e, ofTerm(u)))
  <2>1. ofTerm(u)' = ofTerm(u)
    BY DEF ofTerm
  <2>. QED BY <1>2, <1>4, <2>1 DEF numSchedules, scheduleSetData
<1>6. ASSUME NEW u \in Term \ {t} PROVE numSchedules(u)' = numSchedules(u)
  <2>1. PICK S : S = ofTerm(u)
    OBVIOUS
  <2>2. s \notin S
    BY <1>3, <2>1 DEF ofTerm
  <2>3. Range(e) \cap S = Range(d) \cap S
    BY <1>4, <2>2
  <2>4. Len(selected(e, S)) = Len(selected(d, S))
    BY <1>3, <1>4, <2>3, CountSame
  <2>. QED BY <1>5, <2>1, <2>4
<1>7. numSchedules(t)' = numSchedules(t) - 1
  <2>1. PICK S : S = ofTerm(t)
    OBVIOUS
  <2>2. Range(e) \cap S = (Range(d) \cap S) \ {s} /\ s \in Range(d) \cap S
    BY <1>3, <1>4, <2>1
  <2>3. Len(selected(e, S)) = Len(selected(d, S)) - 1
    BY <1>3, <1>4, <2>2, CountRemoved
  <2>. QED BY <1>5, <2>1, <2>3
<1>8. /\ ops[t].idx \in 0..(numSchedules(t) - 1) /\ numSchedules(t) \in Nat
      /\ numSchedules(t) > 1 => ops[t].idx <= numSchedules(t) - 2
  BY <1>1, DraftsOfTerm, OpKnows DEF OpFits, DraftOpFits, TypedInv
<1>9. scheduleIdx'[t] = ops[t].idx
  BY <1>8 DEF updateScheduleIdx, isValidIndex, TypedInv, ViewInv
<1>10. IndexFits(t)'
  BY <1>7, <1>8, <1>9 DEF IndexFits
<1>. QED BY <1>2, <1>4, <1>6, <1>10

\* A draft and the schedule in the calendar change places.
LEMMA DraftExchanged ==
    ASSUME TypedInv, FollowInv, NEW t \in Term, ops[t].step = "ok", page = "drafts",
           NEW c \in ScheduleId, c = ops[t].calSchedule, c \notin Range(drafts), c # NoSchedule,
           drafts' = replaced(drafts, ops[t].schedule, c), UNCHANGED made,
           updateScheduleIdx(t, ops[t].idx)
    PROVE  /\ Range(drafts') = (Range(drafts) \ {ops[t].schedule}) \cup {c} /\ IsInjective(drafts')
           /\ IndexFits(t)'
           /\ \A u \in Term \ {t} : numSchedules(u)' = numSchedules(u)
<1>1. ops[t] # NoOp
  BY OpFacts
<1>0. PICK s : s = ops[t].schedule
  OBVIOUS
<1>2. PICK d \in Seq(ScheduleId) : d = drafts /\ s = ops[t].schedule
  BY <1>0 DEF TypedInv, ViewInv, Listing
<1>3. /\ IsInjective(d) /\ s \in Range(d) /\ s \in ofTerm(t) /\ made[s] = t
      /\ c \in ofTerm(t) /\ made[c] = t
  BY <1>1, <1>2, OpKnows DEF OpFits, DraftOpFits, homeList, FollowInv, DraftsFollow, Follows
<1>4. PICK e \in Seq(ScheduleId) : e = drafts' /\ Range(e) = (Range(d) \ {s}) \cup {c} /\ IsInjective(e)
  BY <1>2, <1>3, ReplacedFacts
<1>5. ASSUME NEW u PROVE /\ numSchedules(u) = Len(selected(d, ofTerm(u)))
                         /\ numSchedules(u)' = Len(selected(e, ofTerm(u)))
  <2>1. ofTerm(u)' = ofTerm(u)
    BY DEF ofTerm
  <2>. QED BY <1>2, <1>4, <2>1 DEF numSchedules, scheduleSetData
<1>6. ASSUME NEW u \in Term \ {t} PROVE numSchedules(u)' = numSchedules(u)
  <2>1. PICK S : S = ofTerm(u)
    OBVIOUS
  <2>2. s \notin S /\ c \notin S
    BY <1>3, <2>1 DEF ofTerm
  <2>3. Range(e) \cap S = Range(d) \cap S
    BY <1>4, <2>2
  <2>4. Len(selected(e, S)) = Len(selected(d, S))
    BY <1>3, <1>4, <2>3, CountSame
  <2>. QED BY <1>5, <2>1, <2>4
<1>7. numSchedules(t)' = numSchedules(t)
  <2>1. PICK S : S = ofTerm(t)
    OBVIOUS
  <2>2. Range(e) \cap S = ((Range(d) \cap S) \ {s}) \cup {c} /\ s \in Range(d) \cap S /\ c \notin Range(d)
    BY <1>2, <1>3, <1>4, <2>1
  <2>3. Len(selected(e, S)) = Len(selected(d, S))
    BY <1>3, <1>4, <2>2, CountReplaced
  <2>. QED BY <1>5, <2>1, <2>3
<1>8. ops[t].idx \in 0..(numSchedules(t) - 1) /\ numSchedules(t) \in Nat
  BY <1>1, DraftsOfTerm, OpKnows DEF OpFits, DraftOpFits, TypedInv
<1>9. scheduleIdx'[t] = ops[t].idx
  BY <1>8 DEF updateScheduleIdx, isValidIndex, TypedInv, ViewInv
<1>10. IndexFits(t)'
  BY <1>7, <1>8, <1>9 DEF IndexFits
<1>. QED BY <1>2, <1>4, <1>6, <1>10

LEMMA FollowAnswer ==
    ASSUME TypedInv, FollowInv, NEW t \in Term, answered(t) PROVE FollowInv'
<1>1. /\ ops[t] # NoOp /\ ops' = [ops EXCEPT ![t] = NoOp] /\ ops[t].step \in {"ok", "failed"}
      /\ UNCHANGED <<rowVars, page, lists, left>>
  BY OpFacts DEF answered
<1>2. UNCHANGED made
  BY <1>1 DEF rowVars
<1>3. CASE ops[t].step = "failed"
  <2>1. UNCHANGED <<drafts, calendarSchedules, scheduleIdx>>
    BY <1>3 DEF answered
  <2>2. \A l \in {"draft", "calendar"} : expected(l)' = expected(l)
    BY <1>1, <1>3, ExpectedAnswered
  <2>3. ListsFollow' /\ DraftsFollow' /\ CalendarFollows'
    BY <1>1, <2>1, <2>2 DEF FollowInv, ListsFollow, DraftsFollow, CalendarFollows, Follows
  <2>4. \A u \in Term : numSchedules(u)' = numSchedules(u)
    BY <1>2, <2>1, NumStays
  <2>5. IndexFits(t)'
    BY <2>1, <2>4 DEF FollowInv, IndexFits
  <2>. QED BY <1>1, <2>1, <2>3, <2>4, <2>5, AnswerCloses
<1>4. CASE ops[t].step = "ok"
  <2>0. PICK s, c : s = ops[t].schedule /\ c = ops[t].calSchedule
    OBVIOUS
  <2>1. /\ page \in {"drafts", "calendar"} /\ lists[homeList].status = "success"
        /\ s \in ScheduleId /\ made[s] = t /\ OpFits(t)
        /\ c # NoSchedule => made[c] = t /\ c \in ScheduleId
        /\ ops[t].kind = "toCalendar" => page = "drafts" /\ lists["calendar"].status = "success"
    BY <1>1, <2>0, OpKnows
  <2>2. PICK k \in Seq(ScheduleId) : k = calendarSchedules
    BY DEF TypedInv, ViewInv, Listing
  <2>3. /\ lists["calendar"].status = "success" => Range(k) = expected("calendar") /\ IsInjective(k)
        /\ lists["calendar"].status # "success" => k = <<>>
    BY <2>2 DEF FollowInv, CalendarFollows, Follows
  <2>4. CASE page = "calendar"
    <3>1. calendarSchedules' = removeSchedule(s) /\ UNCHANGED <<drafts, scheduleIdx>>
      BY <1>4, <2>0, <2>4 DEF answered
    <3>2. s \in Range(k) /\ expected("calendar")' = Range(k) \ {s}
      BY <1>1, <1>4, <2>0, <2>2, <2>4, ServedAnswered
    <3>3. lists["calendar"].status = "success" /\ lists["draft"].status = "off"
      BY <2>1, <2>4 DEF homeList, TypedInv, ViewInv
    <3>4. Range(calendarSchedules') = Range(k) \ {s} /\ IsInjective(calendarSchedules')
      BY <2>2, <2>3, <3>1, <3>3, RemovalFacts DEF removeSchedule
    <3>5. ListsFollow' /\ DraftsFollow' /\ CalendarFollows'
      BY <1>1, <3>1, <3>2, <3>3, <3>4 DEF FollowInv, ListsFollow, DraftsFollow, CalendarFollows, Follows
    <3>6. \A u \in Term : numSchedules(u)' = numSchedules(u)
      BY <1>2, <3>1, NumStays
    <3>7. IndexFits(t)'
      BY <3>1, <3>6 DEF FollowInv, IndexFits
    <3>8. \A u \in Term \ {t} : Range(calendarSchedules') \cap ofTerm(u) = Range(calendarSchedules) \cap ofTerm(u)
      BY <2>1, <2>2, <3>4 DEF ofTerm
    <3>. QED BY <1>1, <3>1, <3>5, <3>6, <3>7, <3>8, AnswerCloses
  <2>5. CASE page = "drafts" /\ ops[t].kind # "toCalendar"
    <3>1. drafts' = removeDraft(s) /\ UNCHANGED calendarSchedules /\ updateScheduleIdx(t, ops[t].idx)
      BY <1>4, <2>0, <2>5 DEF answered
    <3>2. /\ c = NoSchedule /\ expected("draft")' = Range(drafts) \ {s}
          /\ expected("calendar")' = expected("calendar")
      <4>1. c = NoSchedule
        BY <1>1, <2>0, <2>5, OpKnows
      <4>3. expected("calendar")' = expected("calendar")
        BY <1>1, <1>4, <2>0, <2>5, ServedAnswered
      <4>2. c = NoSchedule => expected("draft")' = Range(drafts) \ {s}
        BY <1>1, <1>4, <2>0, <2>5, ServedAnswered
      <4>. QED BY <4>1, <4>2, <4>3
    <3>3. /\ Range(drafts') = Range(drafts) \ {s} /\ IsInjective(drafts')
          /\ IndexFits(t)' /\ \A u \in Term \ {t} : numSchedules(u)' = numSchedules(u)
      BY <1>2, <1>4, <2>0, <2>5, <3>1, <3>2, DraftGone
    <3>4. lists["draft"].status = "success"
      BY <2>1, <2>5 DEF homeList
    <3>5. ListsFollow' /\ DraftsFollow' /\ CalendarFollows'
      BY <1>1, <3>1, <3>2, <3>3, <3>4 DEF FollowInv, ListsFollow, DraftsFollow, CalendarFollows, Follows
    <3>6. \A u \in Term \ {t} : /\ scheduleIdx'[u] = scheduleIdx[u]
                                /\ Range(drafts') \cap ofTerm(u) = Range(drafts) \cap ofTerm(u)
      BY <2>1, <3>1, <3>3 DEF ofTerm, updateScheduleIdx, TypedInv, ViewInv
    <3>. QED BY <1>1, <3>1, <3>3, <3>5, <3>6, AnswerCloses
  <2>6. CASE page = "drafts" /\ ops[t].kind = "toCalendar" /\ c = NoSchedule
    <3>1. /\ drafts' = removeDraft(s) /\ calendarSchedules' = Append(k, s)
          /\ updateScheduleIdx(t, ops[t].idx)
      BY <1>4, <2>0, <2>2, <2>6 DEF answered, moveToCalendar
    <3>2. /\ expected("draft")' = Range(drafts) \ {s}
          /\ s \notin Range(k) /\ expected("calendar")' = Range(k) \cup {s}
      BY <1>1, <1>4, <2>0, <2>2, <2>6, ServedAnswered
    <3>3. /\ Range(drafts') = Range(drafts) \ {s} /\ IsInjective(drafts')
          /\ IndexFits(t)' /\ \A u \in Term \ {t} : numSchedules(u)' = numSchedules(u)
      BY <1>2, <1>4, <2>0, <2>6, <3>1, DraftGone
    <3>4. lists["draft"].status = "success" /\ lists["calendar"].status = "success"
      BY <2>1, <2>6 DEF homeList
    <3>5. Range(calendarSchedules') = Range(k) \cup {s} /\ IsInjective(calendarSchedules')
      BY <2>1, <2>3, <3>1, <3>2, <3>4, AppendFacts
    <3>6. ListsFollow' /\ DraftsFollow' /\ CalendarFollows'
      BY <1>1, <3>2, <3>3, <3>4, <3>5 DEF FollowInv, ListsFollow, DraftsFollow, CalendarFollows, Follows
    <3>7. \A u \in Term \ {t} : /\ scheduleIdx'[u] = scheduleIdx[u]
                                /\ Range(drafts') \cap ofTerm(u) = Range(drafts) \cap ofTerm(u)
                                /\ Range(calendarSchedules') \cap ofTerm(u) = Range(k) \cap ofTerm(u)
      BY <2>1, <3>1, <3>3, <3>5 DEF ofTerm, updateScheduleIdx, TypedInv, ViewInv
    <3>. QED BY <1>1, <2>2, <3>3, <3>6, <3>7, AnswerCloses
  <2>7. CASE page = "drafts" /\ ops[t].kind = "toCalendar" /\ c # NoSchedule
    <3>1. /\ drafts' = replaced(drafts, s, c) /\ calendarSchedules' = replaced(k, c, s)
          /\ updateScheduleIdx(t, ops[t].idx)
      BY <1>4, <2>0, <2>2, <2>7 DEF answered, moveToCalendar
    <3>2. /\ expected("draft")' = (Range(drafts) \ {s}) \cup {c} /\ c \notin Range(drafts)
          /\ s \notin Range(k) /\ c \in Range(k) /\ expected("calendar")' = (Range(k) \ {c}) \cup {s}
      BY <1>1, <1>4, <2>0, <2>2, <2>7, ServedAnswered
    <3>3. /\ Range(drafts') = (Range(drafts) \ {s}) \cup {c} /\ IsInjective(drafts')
          /\ IndexFits(t)' /\ \A u \in Term \ {t} : numSchedules(u)' = numSchedules(u)
      BY <1>2, <1>4, <2>0, <2>1, <2>7, <3>1, <3>2, DraftExchanged
    <3>4. lists["draft"].status = "success" /\ lists["calendar"].status = "success"
      BY <2>1, <2>7 DEF homeList
    <3>5. Range(calendarSchedules') = (Range(k) \ {c}) \cup {s} /\ IsInjective(calendarSchedules')
      BY <2>1, <2>3, <3>1, <3>2, <3>4, ReplacedFacts
    <3>6. ListsFollow' /\ DraftsFollow' /\ CalendarFollows'
      BY <1>1, <3>2, <3>3, <3>4, <3>5 DEF FollowInv, ListsFollow, DraftsFollow, CalendarFollows, Follows
    <3>7. \A u \in Term \ {t} : /\ scheduleIdx'[u] = scheduleIdx[u]
                                /\ Range(drafts') \cap ofTerm(u) = Range(drafts) \cap ofTerm(u)
                                /\ Range(calendarSchedules') \cap ofTerm(u) = Range(k) \cap ofTerm(u)
      BY <2>1, <2>7, <3>1, <3>3, <3>5 DEF ofTerm, updateScheduleIdx, TypedInv, ViewInv
    <3>. QED BY <1>1, <2>2, <3>3, <3>6, <3>7, AnswerCloses
  <2>. QED BY <2>1, <2>4, <2>5, <2>6, <2>7
<1>. QED BY <1>1, <1>3, <1>4

\* Nothing happens to the rows, to the page or to its requests.
LEMMA FollowStays ==
    ASSUME TypedInv, FollowInv, UNCHANGED <<rowVars, viewVars, ops, left>> PROVE FollowInv'
<1>1. \A l : expected(l)' = expected(l)
  BY ExpectedStays DEF rowVars, viewVars
<1>2. ListsFollow' /\ DraftsFollow' /\ CalendarFollows'
  BY <1>1 DEF FollowInv, ListsFollow, DraftsFollow, CalendarFollows, Follows, viewVars
<1>3. ASSUME NEW t \in Term PROVE OpFits(t)' /\ IndexFits(t)'
  <2>1. OpFits(t)'
    BY OpFitsStays DEF FollowInv, rowVars, viewVars
  <2>2. IndexFits(t)'
    BY IndexStays DEF FollowInv, rowVars, viewVars
  <2>. QED BY <2>1, <2>2
<1>. QED BY <1>2, <1>3 DEF FollowInv, viewVars

LEMMA PagesStep == PagesInv /\ [Next]_vars => PagesInv'
<1> SUFFICES ASSUME PagesInv, [Next]_vars PROVE PagesInv'
  OBVIOUS
<1>0. TypedInv /\ TypedInv' /\ (Calm => FollowInv)
  BY TypedStep DEF PagesInv
<1> SUFFICES ASSUME Calm' PROVE FollowInv'
  BY <1>0 DEF PagesInv
<1>1. ASSUME NEW p \in {"scheduler", "drafts", "calendar"}, visit(p) PROVE FollowInv'
  BY <1>1, FollowVisit DEF Calm
<1>2. ASSUME NEW l \in {"draft", "calendar"}, getList(l) \/ listArrives(l) \/ listFails(l) PROVE FollowInv'
  <2>1. Calm
    BY <1>2 DEF Calm, getList, listArrives, listFails
  <2>2. CASE getList(l)
    BY <1>0, <2>1, <2>2, FollowList
  <2>3. CASE listArrives(l) \/ listFails(l)
    BY <1>0, <2>1, <2>3, FollowArrival
  <2>. QED BY <1>2, <2>2, <2>3
<1>3. ASSUME NEW t \in Term, Clicked(t) PROVE FollowInv'
  <2>1. ASSUME NEW n, handleScheduleNumChange(t, n) PROVE Calm
    BY <2>1 DEF Calm, handleScheduleNumChange
  <2>2. decrementScheduleIdx(t) \/ incrementScheduleIdx(t) => UNCHANGED <<disturbed, early>>
    BY DEF decrementScheduleIdx, incrementScheduleIdx
  <2>3. handleDeleteSchedule(t) => UNCHANGED <<disturbed, early>>
    BY DEF handleDeleteSchedule, ask
  <2>4. handleMoveToCalendar(t) => UNCHANGED disturbed /\ (early => early')
    BY DEF handleMoveToCalendar, ask
  <2>5. ASSUME NEW kind, saveSchedule(t, kind) PROVE Calm
    BY <2>5 DEF Calm, saveSchedule
  <2>6. Calm
    BY <1>3, <2>1, <2>2, <2>3, <2>4, <2>5 DEF Clicked, Calm
  <2>. QED BY <1>0, <1>3, <2>6, FollowClick
<1>4. ASSUME NEW t \in Term, serve(t) PROVE FollowInv'
  <2>1. Calm
    BY <1>4 DEF Calm, serve
  <2>. QED BY <1>0, <1>4, <2>1, FollowServe DEF Calm
<1>5. ASSUME NEW t \in Term, lose(t) PROVE FollowInv'
  <2>1. Calm /\ ops[t].step = "asked" /\ ops' = [ops EXCEPT ![t].step = "failed"]
        /\ UNCHANGED <<rowVars, viewVars, left>>
    BY <1>5 DEF Calm, lose
  <2>. QED BY <1>0, <2>1, OpFacts, FollowFailure
<1>6. ASSUME NEW t \in Term, answered(t) PROVE FollowInv'
  <2>1. Calm
    BY <1>6 DEF Calm, answered
  <2>. QED BY <1>0, <1>6, <2>1, FollowAnswer
<1>7. ASSUME NEW s \in ScheduleId, handleDelete(s) \/ handleMoveToDrafts(s) PROVE FollowInv'
  <2>1. PICK kind \in {"delete", "toDrafts"} : changeCalendar(s, kind)
    BY <1>7 DEF handleDelete, handleMoveToDrafts
  <2>2. Calm
    BY <2>1 DEF Calm, changeCalendar, ask
  <2>. QED BY <1>0, <2>1, <2>2, FollowCalendarClick
<1>8. ASSUME NEW s \in ScheduleId, timetableChanges(s) PROVE FollowInv'
  <2>1. Calm /\ listed = {} /\ UNCHANGED <<viewVars, ops, left>>
    BY <1>8 DEF Calm, timetableChanges
  <2>2. page # "scheduler" => left' = {}
    BY <1>0, <2>1 DEF FollowInv
  <2>. QED BY <1>0, <2>1, <2>2, NothingListed
<1>9. ASSUME NEW r \in left, serveLeft(r) PROVE FollowInv'
  <2>1. Calm /\ UNCHANGED <<viewVars, ops>>
    BY <1>9 DEF Calm, serveLeft
  <2>2. page = "scheduler"
    BY <1>0, <2>1 DEF FollowInv
  <2>3. listed = {}
    BY <1>0, <2>2 DEF listed, TypedInv, ViewInv
  <2>. QED BY <1>0, <2>1, <2>2, <2>3, NothingListed
<1>10. CASE elsewhere
  <2>1. Calm /\ listed = {} /\ UNCHANGED <<viewVars, ops, left>>
    BY <1>10 DEF Calm, elsewhere
  <2>2. page # "scheduler" => left' = {}
    BY <1>0, <2>1 DEF FollowInv
  <2>. QED BY <1>0, <2>1, <2>2, NothingListed
<1>11. CASE UNCHANGED pageVars
  <2>1. Calm /\ UNCHANGED <<rowVars, viewVars, ops, left>>
    BY <1>11 DEF Calm, pageVars
  <2>. QED BY <1>0, <2>1, FollowStays
<1>. QED BY <1>1, <1>2, <1>3, <1>4, <1>5, <1>6, <1>7, <1>8, <1>9, <1>10, <1>11 DEF Next, vars

LEMMA PagesSafe == Spec => []PagesInv
<1>1. Init => PagesInv
  BY TypedInit, FollowInit DEF PagesInv
<1>. QED BY <1>1, PagesStep, PTL DEF Spec

\* Once a page has heard from all its requests it shows the drafts and the calendar as they
\* are stored, each schedule once, for any number of schedules and terms.
THEOREM PagesShowStored == Spec => []PageShowsStored
<1>1. PagesInv => PageShowsStored
  <2> SUFFICES ASSUME PagesInv, Calm, \A t \in Term : ops[t] = NoOp, NEW l \in {"draft", "calendar"}
               PROVE  expected(l) = stored(l) /\ DraftsFollow /\ CalendarFollows
    BY DEF PageShowsStored, Calm, DraftsFollow, CalendarFollows, Follows, shows
  <2>1. TypedInv /\ FollowInv
    BY DEF PagesInv
  <2>2. \A s \in DOMAIN made : ~kept(s) /\ ~taken(s)
    BY <2>1, TermFacts, OpFacts DEF kept, taken, TypedInv
  <2>3. stored(l) \subseteq DOMAIN made \ unreadable /\ DOMAIN made \subseteq ScheduleId
    BY <2>1, TermFacts DEF stored, TypedInv, RowsInv
  <2>4. expected(l) = stored(l)
    BY <2>2, <2>3 DEF expected, stored
  <2>. QED BY <2>1, <2>4 DEF FollowInv
<1>. QED BY <1>1, PagesSafe, PTL

\* The selected draft of a term is there or none is selected, for any number of drafts and
\* after any moves, deletions and failures.
THEOREM DraftSelected == Spec => []SelectedDraftExists
<1>1. PagesInv => SelectedDraftExists
  BY DEF PagesInv, Calm, FollowInv, IndexFits, SelectedDraftExists
<1>. QED BY <1>1, PagesSafe, PTL
====
