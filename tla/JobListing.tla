----------------------------- MODULE JobListing -----------------------------
(***************************************************************************)
(* Listing, counting and cancelling jobs by filters while they change: a    *)
(* client walks the pages of one listing, each of them a query of its own   *)
(* that continues after the last row of the page before.                    *)
(*                                                                         *)
(* Jobs are the numbers that order their ids, which are generated before    *)
(* the jobs are committed, so that they may appear in any order.  What      *)
(* never changes of a job (its target time, priority and label) is given by *)
(* constants.  A filter is a record of optional lists, which are sets here. *)
(* The ranges of times and priorities, the job types and the schedules are  *)
(* conditions on what never changes: "ids" stands for all of these.         *)
(***************************************************************************)
EXTENDS Integers, Sequences, FiniteSets, FiniteSetsExt, SequencesExt

CONSTANTS
  Jobs, TargetOf, PriorityOf, LabelOf,
  Executors,
  Filters,            \* the filters clients list, count and cancel by
  Orders,             \* the orders they list in
  Limits,             \* the limits of their listings
  None,
  PAGE_SIZE,          \* of the client
  DEFAULT_PAGE_SIZE, MAX_PAGE_SIZE, \* of the server
  MaxAttempts,        \* bound: the executions of a job
  MaxTime             \* bound: the clock

VARIABLES
  rows,   \* of each stored job, its executions and its inactive_status
  unused, \* the jobs that were not added so far
  now,
  stream  \* the client's listing

vars == <<rows, unused, now, stream>>

Inactive == {"Succeeded", "Failed", "Cancelled"}
Statuses == Inactive \cup {"Pending", "InProgress"}
Stored == DOMAIN rows
Latest(j) == Last(rows[j].executions)
Ready(e) == e.target <= now

-----------------------------------------------------------------------------
(* Conversions of the filters, from the client to the wire to the server *)

AllJobs == [ids |-> None, executors |-> None, executions |-> None,
            statuses |-> None, reasons |-> None, labels |-> None]

\* A repeated field cannot be absent.
Flat(list) == IF list = None THEN {} ELSE list

\* LabelFilter: the first value is for servers that do not know valueIn.
WireLabel(l) ==
  [l EXCEPT !.value = IF l.valueIn = None THEN @
                      ELSE IF l.valueIn = {} THEN None ELSE CHOOSE v \in l.valueIn : TRUE]

ToWire(f) ==
  [field \in DOMAIN f |->
     IF field = "labels" THEN {WireLabel(l) : l \in Flat(f.labels)} ELSE Flat(f[field])]

\* The server refuses reasons beside statuses that cannot be pending.
Refused(w) == w.reasons # {} /\ w.statuses # {} /\ "Pending" \notin w.statuses

FromWire(w) == [field \in DOMAIN w |-> IF w[field] = {} THEN None ELSE w[field]]

-----------------------------------------------------------------------------
(* The query of a filter *)

Has(list, x) == list = None \/ x \in list

PendingRow(e, scheduled, ready) ==
  /\ e.status = "Pending"
  /\ (scheduled /\ ~Ready(e)) \/ (ready /\ Ready(e))

\* Mutant: reasons apply without the pending status too.
StatusFilter_reasons(j, statuses, reasons) ==
  LET wanted == IF statuses = None THEN Statuses ELSE statuses
      scheduled == "Pending" \in wanted /\ Has(reasons, "Scheduled")
      ready == "Pending" \in wanted /\ Has(reasons, "Ready")
  IN  \/ /\ rows[j].inactive = None
         /\ \E k \in DOMAIN rows[j].executions :
              \/ PendingRow(rows[j].executions[k], scheduled, ready)
              \/ rows[j].executions[k].status = "InProgress" /\ "InProgress" \in wanted
      \/ rows[j].inactive \in wanted

\* status_filter, whose cases for all active and for all inactive statuses only
\* shorten the query: the same jobs are selected.
StatusFilter(j, statuses, reasons) ==
  LET wanted == IF statuses = None THEN {"Pending"} ELSE statuses
      scheduled == "Pending" \in wanted /\ Has(reasons, "Scheduled")
      ready == "Pending" \in wanted /\ Has(reasons, "Ready")
      inProgress == "InProgress" \in wanted
      allActive == scheduled /\ ready /\ inProgress
      active == IF allActive THEN rows[j].inactive = None
                ELSE /\ rows[j].inactive = None
                     /\ \E k \in DOMAIN rows[j].executions :
                          \/ PendingRow(rows[j].executions[k], scheduled, ready)
                          \/ rows[j].executions[k].status = "InProgress" /\ inProgress
  IN  active \/ rows[j].inactive \in wanted \cap Inactive

LabelMatches(j, l) ==
  /\ LabelOf[j] # None
  /\ IF l.valueIn # None THEN LabelOf[j] \in l.valueIn
     ELSE l.value \in {None, LabelOf[j]}

\* What filtered_jobs asks of a job itself.
JobMatches(j, f) ==
  /\ Has(f.ids, j)
  /\ f.statuses # None \/ f.reasons # None => StatusFilter(j, f.statuses, f.reasons)
  /\ \A l \in Flat(f.labels) : LabelMatches(j, l)

ExecutionsJoined(f) == f.executions # None \/ f.executors # None

\* The rows of jobs joined with their executions, where the same one is looked for.
JoinedRows(f) ==
  {<<j, k>> \in Stored \X (1..MaxAttempts) :
     /\ k \in DOMAIN rows[j].executions
     /\ Has(f.executions, <<j, k>>)
     /\ Has(f.executors, rows[j].executions[k].executor)}

\* filtered_jobs: a row for each job, or for each of its matching executions.
FilteredJobs(f) ==
  {r \in IF ExecutionsJoined(f) THEN JoinedRows(f) ELSE Stored \X {0} :
     JobMatches(r[1], f)}

\* Mutant: the rows of the join are not distinct.
SelectJobIds_repeats(f) == FilteredJobs(f)

\* Each job is one row, whatever matched.
SelectJobIds(f) == {<<r[1], 0>> : r \in FilteredJobs(f)}

JobCount(f) == Cardinality({r[1] : r \in FilteredJobs(f)})

-----------------------------------------------------------------------------
(* A page *)

\* ORDER BY: ties are ordered by ascending ids.
Before(order, a, b) ==
  CASE order = "CreatedAtAsc" -> a < b
    [] order = "CreatedAtDesc" -> a > b
    [] order = "TargetAsc" -> TargetOf[a] < TargetOf[b] \/ (TargetOf[a] = TargetOf[b] /\ a < b)
    [] order = "TargetDesc" -> TargetOf[a] > TargetOf[b] \/ (TargetOf[a] = TargetOf[b] /\ a < b)
    [] order = "PriorityAsc" ->
         PriorityOf[a] < PriorityOf[b] \/ (PriorityOf[a] = PriorityOf[b] /\ a < b)
    [] order = "PriorityDesc" ->
         PriorityOf[a] > PriorityOf[b] \/ (PriorityOf[a] = PriorityOf[b] /\ a < b)

\* The condition that continues a listing after the last row of a page.
AfterToken(t, j) ==
  \/ t.job = None
  \/ CASE t.order = "CreatedAtAsc" -> j > t.job
       [] t.order = "CreatedAtDesc" -> j < t.job
       [] t.order = "TargetAsc" -> TargetOf[j] > t.target \/ (TargetOf[j] = t.target /\ j > t.job)
       [] t.order = "TargetDesc" -> TargetOf[j] < t.target \/ (TargetOf[j] = t.target /\ j > t.job)
       [] t.order = "PriorityAsc" ->
            PriorityOf[j] > t.priority \/ (PriorityOf[j] = t.priority /\ j > t.job)
       [] t.order = "PriorityDesc" ->
            PriorityOf[j] < t.priority \/ (PriorityOf[j] = t.priority /\ j > t.job)

FirstToken(f, order) ==
  [job |-> None, target |-> None, priority |-> None, filter |-> f, order |-> order]

PageSize(requested) ==
  IF requested = 0 THEN DEFAULT_PAGE_SIZE ELSE Min({requested, MAX_PAGE_SIZE})

\* job_details: a partial page is the last one, and the token of the next page
\* carries the filters and the order of the first.
JobDetails(t, size) ==
  LET found == SetToSortSeq({r \in SelectJobIds(t.filter) : AfterToken(t, r[1])},
                            LAMBDA a, b : Before(t.order, a[1], b[1]))
      page == [i \in 1..Min({size, Len(found)}) |-> found[i][1]]
  IN  [jobs |-> page,
       next |-> IF page # <<>> /\ Len(page) >= size
                THEN [t EXCEPT !.job = Last(page), !.target = TargetOf[Last(page)],
                               !.priority = PriorityOf[Last(page)]]
                ELSE None]

-----------------------------------------------------------------------------
(* The jobs *)

Add(j) ==
  /\ j \in unused
  /\ unused' = unused \ {j}
  /\ rows' = [k \in Stored \cup {j} |->
                IF k = j
                THEN [inactive |-> None,
                      executions |-> <<[status |-> "Pending", executor |-> None,
                                        target |-> TargetOf[j]]>>]
                ELSE rows[k]]
  /\ UNCHANGED now

SetLatest(j, e) ==
  rows' = [rows EXCEPT ![j].executions[Len(rows[j].executions)] = e,
                       ![j].inactive = IF e.status \in Inactive THEN e.status ELSE None]

Begin(j, x) ==
  /\ j \in Stored /\ Latest(j).status = "Pending" /\ Ready(Latest(j))
  /\ SetLatest(j, [Latest(j) EXCEPT !.status = "InProgress", !.executor = x])
  /\ UNCHANGED <<unused, now>>

Finish(j, status) ==
  /\ j \in Stored /\ Latest(j).status = "InProgress"
  /\ SetLatest(j, [Latest(j) EXCEPT !.status = status])
  /\ UNCHANGED <<unused, now>>

\* The failed execution and the next one are stored in one transaction.
Retry(j, target) ==
  /\ j \in Stored /\ Latest(j).status = "InProgress"
  /\ Len(rows[j].executions) < MaxAttempts
  /\ rows' = [rows EXCEPT ![j].executions =
                Append([@ EXCEPT ![Len(rows[j].executions)].status = "Failed"],
                       [status |-> "Pending", executor |-> None, target |-> target])]
  /\ UNCHANGED <<unused, now>>

\* The history of inactive jobs is deleted.
Delete(j) ==
  /\ j \in Stored /\ rows[j].inactive # None
  /\ rows' = [k \in Stored \ {j} |-> rows[k]]
  /\ UNCHANGED <<unused, now>>

\* The filters of a cancellation are narrowed to active jobs.
Cancellable(f) ==
  [f EXCEPT !.statuses =
     IF @ # None THEN @ \cap {"Pending", "InProgress"}
     ELSE IF f.reasons # None THEN {"Pending"}
     ELSE {"Pending", "InProgress"}]

\* cancel_jobs: the active executions of the jobs that are selected end.
CancelJobs(f) ==
  LET w == ToWire(f)
      g == Cancellable(FromWire(w))
      cancelled == {r[1] : r \in SelectJobIds(g)}
                     \cap {j \in Stored : rows[j].inactive = None}
  IN  /\ ~Refused(w) /\ g.statuses # {}
      /\ rows' = [j \in Stored |->
                    IF j \in cancelled
                    THEN [executions |-> [rows[j].executions EXCEPT
                                            ![Len(rows[j].executions)].status = "Cancelled"],
                          inactive |-> "Cancelled"]
                    ELSE rows[j]]
      /\ UNCHANGED <<unused, now>>

Tick == now < MaxTime /\ now' = now + 1 /\ UNCHANGED <<rows, unused>>

-----------------------------------------------------------------------------
(* The listing.  "steady" are the jobs that a reader of the filter's           *)
(* documentation expects, because they matched it all the time.                *)

\* The documented meaning of a filter: the status is that of the latest execution,
\* reasons only narrow down pending jobs, and match these alone without statuses.
Wanted(f, j) ==
  LET e == Latest(j)
      reason == IF Ready(e) THEN "Ready" ELSE "Scheduled"
  IN  /\ Has(f.ids, j)
      /\ IF e.status = "Pending"
         THEN Has(f.statuses, "Pending") /\ Has(f.reasons, reason)
         ELSE IF f.statuses = None THEN f.reasons = None ELSE e.status \in f.statuses
      /\ \E k \in DOMAIN rows[j].executions :
           Has(f.executions, <<j, k>>) /\ Has(f.executors, rows[j].executions[k].executor)
      /\ \A l \in Flat(f.labels) :
           LabelOf[j] # None /\ (IF l.valueIn # None THEN LabelOf[j] \in l.valueIn
                                 ELSE l.value = None \/ LabelOf[j] = l.value)

Expected(f) == {j \in Stored : Wanted(f, j)}

\* A client begins to list by a filter that the server does not refuse.
StartStream(f, order, limit) ==
  /\ stream.state = "idle" /\ ~Refused(ToWire(f))
  /\ stream' = [state |-> IF limit = 0 THEN "done" ELSE "open",
                filter |-> f, order |-> order, limit |-> limit,
                token |-> FirstToken(FromWire(ToWire(f)), order),
                seen |-> <<>>, steady |-> Expected(f)]
  /\ UNCHANGED <<rows, unused, now>>

Requested(s) ==
  IF s.limit = None THEN PAGE_SIZE ELSE Min({PAGE_SIZE, s.limit - Len(s.seen)})

\* list_jobs of the client: a page is asked for, and its rows are handed out.
NextPage ==
  LET page == JobDetails(stream.token, PageSize(Requested(stream)))
      seen == stream.seen \o page.jobs
      full == stream.limit # None /\ Len(seen) >= stream.limit
  IN  /\ stream.state = "open"
      /\ stream' = [stream EXCEPT
           !.seen = IF full THEN SubSeq(seen, 1, stream.limit) ELSE seen,
           !.token = page.next,
           !.state = IF full \/ page.next = None THEN "done" ELSE "open"]
      /\ UNCHANGED <<rows, unused, now>>

JobStep ==
  \/ \E j \in Jobs : \/ Add(j)
                     \/ \E x \in Executors : Begin(j, x)
                     \/ \E s \in {"Succeeded", "Failed"} : Finish(j, s)
                     \/ \E t \in now..MaxTime : Retry(j, t)
                     \/ Delete(j)
  \/ \E f \in Filters : CancelJobs(f)
  \/ Tick

\* Jobs that stop to match are no longer expected.  Bound: nothing happens once the
\* listing has ended.
Observe ==
  /\ stream.state # "done"
  /\ \E f \in {stream.filter} :
       stream' = [stream EXCEPT !.steady = @ \cap Expected(f)']

Init ==
  /\ rows = <<>> /\ unused = Jobs /\ now = 0
  /\ stream = [state |-> "idle", filter |-> AllJobs, order |-> None, limit |-> None,
               token |-> None, seen |-> <<>>, steady |-> {}]

Next ==
  \/ JobStep /\ Observe
  \/ \E f \in Filters, order \in Orders, limit \in Limits : StartStream(f, order, limit)
  \/ NextPage

Spec == Init /\ [][Next]_vars

-----------------------------------------------------------------------------
(* Properties *)

ExecutionRows ==
  [status : Statuses, executor : Executors \cup {None}, target : 0..MaxTime + 1]

\* Jobs have up to MaxAttempts executions, of which only the last can be active, and
\* the inactive status is that of the last.
ListingTypeOK ==
  /\ Stored \cap unused = {} /\ Stored \cup unused \subseteq Jobs
  /\ \A j \in Stored :
       /\ rows[j].executions \in BoundedSeq(ExecutionRows, MaxAttempts) \ {<<>>}
       /\ rows[j].inactive = IF Latest(j).status \in Inactive THEN Latest(j).status ELSE None
       /\ \A k \in 1..(Len(rows[j].executions) - 1) : rows[j].executions[k].status = "Failed"
  /\ now \in 0..MaxTime
  /\ stream.state \in {"idle", "open", "done"}
  /\ stream.seen \in Seq(Jobs) /\ stream.steady \subseteq Stored

\* No job is listed twice, whatever becomes of it between two pages, and however
\* many of its executions match (query/jobs.rs:446).
NeverTwice == IsInjective(stream.seen)

\* The pages together are in the order that was asked for (query/jobs.rs:144).
InOrder ==
  \A i \in 1..(Len(stream.seen) - 1) :
    Before(stream.order, stream.seen[i], stream.seen[i + 1])

\* A listing without a limit that has ended contains every job that matched its
\* filter all the time (query/jobs.rs:301).
NoneMissed ==
  stream.state = "done" /\ stream.limit = None => stream.steady \subseteq ToSet(stream.seen)

\* A limited listing stops at its limit, and is shorter only when nothing is left
\* (ora/src/admin/jobs.rs:300).
LimitKept ==
  stream.limit # None =>
    /\ Len(stream.seen) <= stream.limit
    /\ stream.state = "done" /\ Len(stream.seen) < stream.limit =>
         stream.steady \subseteq ToSet(stream.seen)

\* The condition on statuses and pending reasons selects the jobs whose latest
\* execution has the status, for every combination (query/jobs.rs:641).
StatusesAreLatest ==
  \A j \in Stored, reasons \in SUBSET {"Scheduled", "Ready"} \cup {None},
     statuses \in SUBSET Statuses \cup {None} :
    (statuses # None \/ reasons # None)
      => StatusFilter(j, statuses, reasons)
           = Wanted([AllJobs EXCEPT !.statuses = statuses, !.reasons = reasons], j)

\* A count by a filter is the number of the jobs that a client means by it, across
\* the wire (query/jobs.rs:419).
CountsAgree ==
  \A f \in Filters : ~Refused(ToWire(f)) => JobCount(FromWire(ToWire(f))) = Cardinality(Expected(f))

\* A cancellation ends all the active jobs that its filter matches, and touches no
\* others (query/jobs.rs:32).
CancelsMatching ==
  \A f \in Filters : CancelJobs(f) =>
    \A j \in Stored : rows'[j] # rows[j] <=> j \in Expected(f) /\ rows[j].inactive = None

\* The pages that a stream fetches one by one, each in a transaction of its own,
\* are one listing (stream_jobs).
PagesAreOneListing == ListingTypeOK /\ NeverTwice /\ InOrder /\ NoneMissed /\ LimitKept

\* A filter selects, counts and cancels what the client that wrote it means.
FiltersAreMeant == [](StatusesAreLatest /\ CountsAgree) /\ [][CancelsMatching]_vars
=============================================================================
