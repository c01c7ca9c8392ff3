--------------------------- MODULE ScheduleListing ---------------------------
(***************************************************************************)
(* Listing and stopping schedules by filters.  As in JobListing, a client   *)
(* walks pages that continue after the last row, but its limit is kept in   *)
(* another way.  "ids" stands for the conditions on what never changes of a *)
(* schedule: its id, job type, creation time and labels.                    *)
(***************************************************************************)
EXTENDS Integers, Sequences, FiniteSets, FiniteSetsExt, SequencesExt

CONSTANTS
  Schedules,   \* numbers that order the ids, generated before they are committed
  Filters, Limits, None,
  PAGE_SIZE,   \* 25, in the client
  DEFAULT_PAGE_SIZE, MAX_PAGE_SIZE

VARIABLES
  rows,    \* of each stored schedule, whether it is active or stopped
  unused,  \* the schedules that were not added so far
  stream   \* the client's listing

vars == <<rows, unused, stream>>

Orders == {"CreatedAtAsc", "CreatedAtDesc"}
Statuses == {"Active", "Stopped"}
AllSchedules == [ids |-> None, statuses |-> None]
Has(list, x) == list = None \/ x \in list

\* A repeated field of the wire cannot be absent, so that an empty one is no filter.
Received(f) == [field \in DOMAIN f |-> IF f[field] = {} THEN None ELSE f[field]]

\* select_schedule_ids
SelectScheduleIds(f) == {s \in DOMAIN rows : Has(f.ids, s) /\ Has(f.statuses, rows[s])}

Before(order, a, b) == IF order = "CreatedAtAsc" THEN a < b ELSE a > b

AfterToken(t, s) == t.last = None \/ Before(t.order, t.last, s)

PageSize(requested) ==
  IF requested = 0 THEN DEFAULT_PAGE_SIZE ELSE Min({requested, MAX_PAGE_SIZE})

\* schedule_details: a partial page is the last one.
ScheduleDetails(t, size) ==
  LET found == SetToSortSeq({s \in SelectScheduleIds(t.filter) : AfterToken(t, s)},
                            LAMBDA a, b : Before(t.order, a, b))
      page == SubSeq(found, 1, Min({size, Len(found)}))
  IN  [schedules |-> page,
       next |-> IF page # <<>> /\ Len(page) >= size THEN [t EXCEPT !.last = Last(page)]
                ELSE None]

-----------------------------------------------------------------------------
(* The schedules *)

AddSchedule(s) ==
  /\ s \in unused /\ unused' = unused \ {s}
  /\ rows' = [r \in DOMAIN rows \cup {s} |-> IF r = s THEN "Active" ELSE rows[r]]

\* A schedule that has no next job is stopped by the schedule loop.
Exhaust(s) ==
  /\ s \in DOMAIN rows /\ rows[s] = "Active"
  /\ rows' = [rows EXCEPT ![s] = "Stopped"] /\ UNCHANGED unused

\* The history deletion removes stopped schedules.
DeleteSchedule(s) ==
  /\ s \in DOMAIN rows /\ rows[s] = "Stopped"
  /\ rows' = [r \in DOMAIN rows \ {s} |-> rows[r]] /\ UNCHANGED unused

\* stop_schedules: whatever statuses are asked for, the active ones are stopped.
StopSchedules(f) ==
  /\ rows' = [s \in DOMAIN rows |->
                IF s \in SelectScheduleIds([Received(f) EXCEPT !.statuses = {"Active"}])
                THEN "Stopped" ELSE rows[s]]
  /\ UNCHANGED unused

-----------------------------------------------------------------------------
(* The listing.  "steady" are the schedules that matched the filter all the time. *)

Expected(f) ==
  {s \in DOMAIN rows : (f.ids # None => s \in f.ids) /\ (f.statuses # None => rows[s] \in f.statuses)}

StartStream(f, order, limit) ==
  /\ stream.state = "idle"
  /\ stream' = [state |-> IF limit = 0 THEN "done" ELSE "open",
                filter |-> f, limit |-> limit, seen |-> <<>>, steady |-> Expected(f),
                token |-> [last |-> None, filter |-> Received(f), order |-> order]]
  /\ UNCHANGED <<rows, unused>>

\* list_schedules of the client: the limit is looked at between pages, each of which
\* may be as long as the limit, and every row of a page is handed out.
NextPage ==
  LET size == IF stream.limit = None THEN PAGE_SIZE ELSE Min({PAGE_SIZE, stream.limit})
      page == ScheduleDetails(stream.token, PageSize(size))
      seen == stream.seen \o page.schedules
  IN  /\ stream.state = "open"
      /\ stream' = [stream EXCEPT
           !.seen = seen,
           !.token = IF page.next = None THEN @ ELSE page.next,
           !.state = IF page.next = None \/ (stream.limit # None /\ Len(seen) >= stream.limit)
                     THEN "done" ELSE "open"]
      /\ UNCHANGED <<rows, unused>>

ScheduleStep ==
  \/ \E s \in Schedules : AddSchedule(s) \/ Exhaust(s) \/ DeleteSchedule(s)
  \/ \E f \in Filters : StopSchedules(f)

\* Bound: nothing happens once the listing has ended.
Observe ==
  /\ stream.state # "done"
  /\ \E f \in {stream.filter} :
       stream' = [stream EXCEPT !.steady = @ \cap Expected(f)']

Init ==
  /\ rows = <<>> /\ unused = Schedules
  /\ stream = [state |-> "idle", filter |-> AllSchedules, limit |-> None, seen |-> <<>>,
               steady |-> {}, token |-> [last |-> None, filter |-> AllSchedules, order |-> None]]

Next ==
  \/ ScheduleStep /\ Observe
  \/ \E f \in Filters, order \in Orders, limit \in Limits : StartStream(f, order, limit)
  \/ NextPage

Spec == Init /\ [][Next]_vars

-----------------------------------------------------------------------------
(* Properties *)

\* The pages together are in order, without repetitions (query/schedules.rs:95).
SchedulesInOrder ==
  \A i \in 1..(Len(stream.seen) - 1) :
    Before(stream.token.order, stream.seen[i], stream.seen[i + 1])

\* A listing that ended below its limit has every schedule that matched all the time,
\* while others were added, stopped and deleted between the pages
\* (query/schedules.rs:153).
NoScheduleMissed ==
  stream.state = "done" /\ (stream.limit = None \/ Len(stream.seen) < stream.limit)
    => stream.steady \subseteq ToSet(stream.seen)

\* Stopping by a filter stops the active schedules it is for and changes no other
\* (query/schedules.rs:28).
StopsMatching ==
  \A f \in Filters : StopSchedules(f) =>
    \A s \in DOMAIN rows : rows'[s] # rows[s] <=>
      rows[s] = "Active" /\ s \in Expected([f EXCEPT !.statuses = None])

\* As a property of every step of stop_schedules.
FiltersAreMeant == [][StopsMatching]_vars

\* The pages of a stream of schedules are one listing.
PagesAreOneListing == SchedulesInOrder /\ NoScheduleMissed

\* "Limit the number of schedules returned." (ora-cli/src/commands/schedules.rs:34)
ScheduleLimitKept == stream.limit # None => Len(stream.seen) <= stream.limit
=============================================================================
