---- MODULE Downloads ----
(***************************************************************************)
(* A schedule downloaded as a calendar: through the scheduler and data     *)
(* access (schedules/download.ts, ScheduleDownloadView), or by the         *)
(* scheduler from its own database (ScheduleDownloadService).              *)
(*                                                                         *)
(* A calendar is a set of events, each with an id and the date of its      *)
(* first occurrence.  A response is a status, whether its body is JSON of  *)
(* the agreed form, and its data.                                          *)
(***************************************************************************)
EXTENDS CourseTimetables, Sequences, FiniteSetsExt

\* The third part of an id, which other components than lectures do not have.
numberOf(id) == IF Len(id) > 2 THEN id[3] ELSE 0

\* ensureNumPartOfId
withNumber(id) == <<id[1], id[2], numberOf(id)>>

\* Adjusts the start date to the first occurrence; a day that is none compares to nothing.
firstOccurrence(start, dayNum) ==
    LET startDay == start % 7
    IN CASE dayNum = NoDay -> start
         [] dayNum < startDay -> start - startDay + 7 + dayNum
         [] dayNum > startDay /\ dayNum # NoDay -> start - startDay + dayNum
         [] OTHER -> start

-----------------------------------------------------------------------------
(* Through data access                                                     *)

\* ScheduleDownloadSerializer: the slot of that number in the group of that type and id.
pickSlot(slots, id) ==
    {s \in slots : s.cid = id[1] /\ s.type = id[2] /\ s.count = numberOf(id)}

\* A number beyond the group is an IndexError, which the view does not catch.
beyondGroup(slots, id) ==
    /\ \E s \in slots : s.cid = id[1] /\ s.type = id[2]
    /\ pickSlot(slots, id) = {}

response(status, data) == [status |-> status, json |-> TRUE, data |-> data]
failure(status) == response(status, {})

\* ScheduleDownloadView: what is found, marked as partial when something is not.
ScheduleDownloadView(slots, ids) ==
    LET found == UNION {pickSlot(slots, id) : id \in ids}
    IN CASE \E id \in ids : beyondGroup(slots, id) -> [failure(500) EXCEPT !.json = FALSE]
         [] found = {} -> failure(404)
         [] OTHER -> response(IF \A id \in ids : pickSlot(slots, id) # {} THEN 200 ELSE 206, found)

isSuccess(status) == status \in 200 .. 299

\* fetcher: what is no success, or cannot be read, is thrown.
fetcher(res) ==
    CASE res.status = 204 -> res
      [] res.json /\ isSuccess(res.status) -> res
      [] ~res.json /\ isSuccess(res.status) -> failure(500)
      [] OTHER -> failure(res.status)

\* generateFileIcal: every slot is an event, one on no weekday too.
generateFileIcal(slots) ==
    {[uid |-> <<s.cid, s.type, s.count>>,
      first |-> firstOccurrence(startDate[s.at], day[s.at])] : s \in slots}

\* DataAccess.getFlattenedScheduleByQuery: the scheduler asks data access.
getFlattenedScheduleByQuery(slots, ids) == fetcher(ScheduleDownloadView(slots, ids))

downloadScheduleByQuery(slots, ids) ==
    LET res == getFlattenedScheduleByQuery(slots, ids)
    IN IF isSuccess(res.status) THEN response(200, generateFileIcal(res.data)) ELSE res

-----------------------------------------------------------------------------
(* From the scheduler's own database                                       *)

\* getStartAndEndDates: other components than lectures start with their earliest slot.
earliestStart(slots, id) ==
    Min({startDate[s.at] : s \in {x \in slots : x.cid = id[1] /\ x.type = id[2]}})

toEntries(slots, ids) ==
    {[id |-> withNumber(c.id), day |-> day[c.at],
      start |-> IF Len(c.id) > 2 THEN startDate[c.at] ELSE earliestStart(slots, c.id)] :
        c \in {x \in reformatTimetable(slots) : x.id \in ids}}

\* IcalScheduleFormatter.format: an event for each entry that has a day.
format(entries) ==
    {[uid |-> e.id, first |-> firstOccurrence(e.start, e.day)] :
        e \in {x \in entries : x.day # NoDay}}

getFileMeta(slots, ids) == response(200, format(toEntries(slots, ids)))

-----------------------------------------------------------------------------
(* The answer                                                              *)

\* schedule_download_result_handler: a file is a success, a partial one as well.
result(path, slots, ids) ==
    IF path = "v1" THEN downloadScheduleByQuery(slots, ids) ELSE getFileMeta(slots, ids)

\* The page saves the file, or nothing when the request failed.
downloadSchedule(path, slots, ids) == result(path, slots, ids).data
====
