------------------------------ MODULE TuiTables ------------------------------
(***************************************************************************)
(* The jobs and schedules tables of the terminal user interface: what is   *)
(* asked of the server, and which answers are shown.  Every method of App   *)
(* below is an operator from the App before it to the App after it, so that *)
(* a handler is the composition of the methods it calls.                    *)
(*                                                                         *)
(* A request carries the token of its Counter.  Tokens only grow, and all   *)
(* that is ever asked is whether an answer has the latest: a request is     *)
(* "live" until a later one of its kind is made or it is cancelled.  Then   *)
(* its task is aborted, which may come too late to stop the answer.         *)
(*                                                                         *)
(* Executors, details, forms and rendering are not here.                   *)
(***************************************************************************)
EXTENDS Naturals, Sequences, SequencesExt, FiniteSets

CONSTANTS
  TypeLists,    \* the lists of job types the server may answer with
  Filters,      \* what the status, order and label filters of a tab can be
  NoFilter,
  Schedules,    \* the schedules the jobs can be narrowed to
  None,
  AutoPages,    \* AUTO_PAGES
  MaxPages,     \* bound: the pages of a listing
  MaxKeys       \* bound: the keys that are pressed

\* No type and no key owner is None.
ASSUME TablesAssumption ==
  /\ \A types \in TypeLists : types \in Seq(Range(types) \ {None})
  /\ NoFilter \in Filters /\ None \notin {"labels", "schedule"}
  /\ AutoPages \in Nat /\ MaxPages \in Nat \ {0}

VARIABLES
  app,  \* the App, with the requests that may still be answered
  keys  \* how many keys were pressed

tableVars == <<app, keys>>

Tables == {"jobs", "schedules"}
Tabs == Tables \cup {"executors"}
Kinds == Tables \cup {"job_types", "counts"}

\* selected_job_type: None is all job types.
SelectedType(u) == IF u.selected = 0 THEN None ELSE u.types[u.selected]

\* What the rows of a table are to match.
Question(u, k) ==
  [type |-> SelectedType(u), filter |-> u.filter[k],
   schedule |-> IF k = "jobs" THEN u.schedule ELSE None]

EmptyTable ==
  [rows |-> <<>>, incoming |-> <<>>, next |-> None, pages |-> 0,
   extending |-> FALSE, shownNext |-> None, shownPages |-> 0]

-----------------------------------------------------------------------------
(* Counter *)

\* Only the last request that was superseded may still be answered.
Superseded(requests, kind) ==
  {r \in requests : r.kind # kind}
    \cup {[r EXCEPT !.live = FALSE] : r \in {s \in requests : s.kind = kind /\ s.live}}

Start(u, kind, question, page) ==
  [u EXCEPT !.waiting = @ \cup {kind},
            !.requests = Superseded(@, kind) \cup
              {[kind |-> kind, question |-> question, page |-> page, live |-> TRUE]}]

Cancel(u, kind) ==
  [u EXCEPT !.waiting = @ \ {kind}, !.requests = Superseded(@, kind)]

\* Mutant: any answer is taken.
Accepts_any(r) == TRUE

\* Counter::accepts.  Requests for the job types carry no token.
Accepts(r) == r.live \/ r.kind = "job_types"

-----------------------------------------------------------------------------
(* Methods of App *)

\* The first page of a table, unless one is on its way or pages that were scrolled
\* to would be dropped.
FetchTable(u, k, force) ==
  IF force \/ (k \notin u.waiting /\ u.table[k].pages <= AutoPages)
  THEN Start([u EXCEPT !.table[k].extending = FALSE], k, Question(u, k), 1)
  ELSE u

FetchJobCounts(u) ==
  IF u.counted \/ "counts" \in u.waiting THEN u
  ELSE Start([u EXCEPT !.counted = TRUE], "counts", Question(u, "jobs"), 1)

Fetch(u, force) ==
  LET v == IF "job_types" \in u.waiting THEN u ELSE Start(u, "job_types", None, 1)
  IN  CASE u.settling \/ u.tab = "executors" -> v
        [] ~u.settling /\ u.tab = "schedules" -> FetchTable(v, "schedules", force)
        [] ~u.settling /\ u.tab = "jobs" ->
             FetchJobCounts([FetchTable(v, "jobs", force) EXCEPT !.counted = @ /\ ~force])

Invalidate(u) ==
  [Cancel(Cancel(Cancel(u, "jobs"), "schedules"), "counts") EXCEPT
     !.counts = None, !.counted = FALSE]

ClearRows(u, tab) ==
  IF tab = "executors" THEN u
  ELSE [u EXCEPT !.table[tab] = [EmptyTable EXCEPT !.extending = u.table[tab].extending]]

Reload(u) == Fetch(ClearRows(Invalidate(u), u.tab), TRUE)

ReloadJobType(u) ==
  [ClearRows(ClearRows(Invalidate(u), "jobs"), "schedules") EXCEPT !.settling = TRUE]

JobTypeSelected(u) == ReloadJobType([u EXCEPT !.schedule = None, !.input = ""])

\* A refresh in flight gives way to the page after the rows that are shown.
ToShownRows(u) ==
  IF "jobs" \in u.waiting /\ ~u.table["jobs"].extending
  THEN [Cancel(u, "jobs") EXCEPT
          !.table["jobs"] = [@ EXCEPT !.incoming = u.table["jobs"].rows,
                                      !.next = u.table["jobs"].shownNext,
                                      !.pages = u.table["jobs"].shownPages,
                                      !.extending = TRUE]]
  ELSE u

\* load_more_jobs and load_more_schedules.  The page token carries the filters
\* and the order of the first page.
LoadMore(u, k) ==
  LET v == IF k = "jobs" THEN ToShownRows(u) ELSE u
      next == v.table[k].next
  IN  IF next = None \/ k \in v.waiting THEN v
      ELSE Start(v, k, next.question, next.page)

-----------------------------------------------------------------------------
(* Answers *)

\* JobsUpdated and SchedulesUpdated: a page and whether there is another.
PageArrives(u, r, page, next) ==
  LET k == r.kind
      t == u.table[k]
      incoming == IF r.page = 1 THEN page ELSE t.incoming \o page
      pages == IF r.page = 1 THEN 1 ELSE t.pages + 1
      more == pages < AutoPages /\ next # None
      shown == ~more \/ IF k = "jobs" THEN Len(t.rows) <= Len(incoming) ELSE t.rows = <<>>
      arrived == [t EXCEPT !.incoming = incoming, !.pages = pages, !.next = next]
      after == IF shown
               THEN [arrived EXCEPT !.rows = incoming, !.extending = TRUE,
                                    !.shownNext = next, !.shownPages = pages]
               ELSE arrived
      v == [u EXCEPT !.waiting = @ \ {k}, !.table[k] = after]
  IN  IF more THEN LoadMore(v, k) ELSE v

\* JobTypesUpdated: the selection follows its job type, or falls back to all.
JobTypesArrive(u, types) ==
  LET v == [u EXCEPT !.waiting = @ \ {"job_types"}, !.types = types]
      type == SelectedType(u)
  IN  IF type = None THEN v
      ELSE IF type \in Range(types)
      THEN [v EXCEPT !.selected = CHOOSE i \in 1..Len(types) : types[i] = type]
      ELSE JobTypeSelected([v EXCEPT !.selected = 0])

\* The page that r asks for, which may be empty, and the token after a full one.
Pages(r) ==
  {[page |-> <<[question |-> r.question, page |-> r.page]>>,
    next |-> [question |-> r.question, page |-> r.page + 1]] : x \in {r.page} \cap 1..(MaxPages - 1)}
    \cup {[page |-> <<[question |-> r.question, page |-> r.page]>>, next |-> None],
          [page |-> <<>>, next |-> None]}

Answer(r) ==
  /\ r \in app.requests
  /\ LET u == [app EXCEPT !.requests = @ \ {r}]
     IN  CASE ~Accepts(r) -> app' = u
           [] Accepts(r) /\ r.kind \in Tables ->
                \E a \in Pages(r) : app' = PageArrives(u, r, a.page, a.next)
           [] Accepts(r) /\ r.kind = "counts" ->
                app' = [u EXCEPT !.waiting = @ \ {"counts"}, !.counts = r.question]
           [] Accepts(r) /\ r.kind = "job_types" ->
                \E types \in TypeLists : app' = JobTypesArrive(u, types)

Fail(r) ==
  /\ r \in app.requests
  /\ app' = [app EXCEPT !.requests = @ \ {r},
                        !.waiting = IF Accepts(r) THEN @ \ {r.kind} ELSE @]

\* The task of a superseded request is aborted in time.
Abort(r) ==
  /\ r \in app.requests /\ ~r.live
  /\ app' = [app EXCEPT !.requests = @ \ {r}]

-----------------------------------------------------------------------------
(* Timers, and events of other parts *)

Refresh == app' = Fetch(app, FALSE)

Settle == app.settling /\ app' = Fetch([app EXCEPT !.settling = FALSE], TRUE)

CountsAge == app.counted /\ app' = [app EXCEPT !.counted = FALSE]

\* A job or schedule was created from a form.
Created == app' = Reload(app)

-----------------------------------------------------------------------------
(* Keys; those that are not typed into a filter need editing to be None *)

Key == app.editing = None

SwitchTab(tab) == Key /\ tab # app.tab /\ app' = Fetch([app EXCEPT !.tab = tab], FALSE)

RefreshNow == Key /\ app' = Fetch(app, TRUE)

\* The next status or order.
ChangeFilter(f) ==
  /\ Key /\ app.tab \in Tables /\ f # app.filter[app.tab]
  /\ app' = Reload([app EXCEPT !.filter[app.tab] = f])

\* The selection of the job type list moves.
SelectType(i) ==
  /\ Key /\ app.tab \in Tables
  /\ i \in 0..Len(app.types) /\ i \in {app.selected + 1, app.selected - 1}
  /\ app' = JobTypeSelected([app EXCEPT !.selected = i])

\* The selection of the table comes close to its last row.
Scroll == Key /\ app.tab \in Tables /\ app.table[app.tab].rows # <<>> /\ app' = LoadMore(app, app.tab)

\* Show the jobs of a schedule in the table.
ScheduleJobs(s) ==
  /\ Key /\ app.tab = "schedules" /\ app.table["schedules"].rows # <<>>
  /\ app' = Reload([app EXCEPT !.schedule = s, !.input = s, !.tab = "jobs"])

Edit ==
  /\ Key
  /\ \/ app' = [app EXCEPT !.editing = "labels"]
     \/ app.tab = "jobs" /\ app' = [app EXCEPT !.editing = "schedule"]

\* What is typed into the label filter is the label filter, applied or not.
Type ==
  \/ /\ app.editing = "labels"
     /\ \E f \in Filters : app' = [app EXCEPT !.filter[app.tab] = f]
  \/ /\ app.editing = "schedule"
     /\ \E s \in Schedules \cup {"", "invalid"} : app' = [app EXCEPT !.input = s]

ApplyFilter ==
  \/ /\ app.editing = "labels"
     /\ app' = Reload([app EXCEPT !.editing = None])
  \/ /\ app.editing = "schedule" /\ app.input # "invalid"
     /\ app' = Reload([app EXCEPT !.editing = None,
                                  !.schedule = IF app.input = "" THEN None ELSE app.input])

LeaveFilter ==
  \/ /\ app.editing = "labels"
     /\ app' = Reload([app EXCEPT !.editing = None, !.filter[app.tab] = NoFilter])
  \/ /\ app.editing = "schedule"
     /\ app' = Reload([app EXCEPT !.editing = None, !.input = "", !.schedule = None])

-----------------------------------------------------------------------------

TablesInit ==
  /\ keys = 0
  /\ app = Fetch(ReloadJobType(
          [tab |-> "jobs", types |-> <<>>, selected |-> 0, settling |-> FALSE,
           filter |-> [k \in Tabs |-> NoFilter], schedule |-> None, input |-> "",
           editing |-> None, table |-> [k \in Tables |-> EmptyTable],
           counts |-> None, counted |-> FALSE, waiting |-> {}, requests |-> {}]), TRUE)

User ==
  \/ \E tab \in Tabs : SwitchTab(tab)
  \/ RefreshNow \/ Scroll \/ Edit \/ Type \/ ApplyFilter \/ LeaveFilter \/ Created
  \/ \E f \in Filters : ChangeFilter(f)
  \/ \E i \in 0..(Len(app.types) + 1) : SelectType(i)
  \/ \E s \in Schedules : ScheduleJobs(s)

Answered == \E r \in app.requests : Answer(r) \/ Fail(r) \/ Abort(r)

TablesNext ==
  \/ (Answered \/ Refresh \/ Settle \/ CountsAge) /\ UNCHANGED keys
  \/ User /\ keys < MaxKeys /\ keys' = keys + 1

TablesSpec == TablesInit /\ [][TablesNext]_tableVars

-----------------------------------------------------------------------------
(* Properties *)

\* The types, and: at most one live request of each kind, and a selection that
\* exists.
TablesTypeOK ==
  /\ app.tab \in Tabs /\ app.editing \in {None, "labels", "schedule"}
  /\ app.types \in TypeLists \cup {<<>>} /\ app.selected \in 0..Len(app.types)
  /\ app.schedule \in Schedules \cup {None}
  /\ app.waiting \subseteq Kinds
  /\ \A kind \in Kinds : Cardinality({r \in app.requests : r.kind = kind /\ r.live}) <= 1
  /\ \A k \in Tables : app.table[k].pages \in 0..MaxPages

\* Rows, of both tables, and counts match the filters that are shown with them.
\* Only while a label filter is being typed may those of its tab be older.
RowsMatchFilters ==
  \A k \in Tables : ~(app.editing = "labels" /\ app.tab = k) =>
    /\ \A row \in Range(app.table[k].rows \o app.table[k].incoming) :
         row.question = Question(app, k)
    /\ k = "jobs" => app.counts \in {None, Question(app, k)}

\* A table shows the first pages of one listing, none missing and none twice, and
\* goes on after the last of them.
PagesInOrder ==
  \A k \in Tables :
    LET t == app.table[k]
        Consecutive(rows) == \A i \in 1..Len(rows) :
                               rows[i].page = i /\ rows[i].question = rows[1].question
        Continues(rows, next) == next = None \/
          (Len(rows) > 0 /\ next = [question |-> rows[1].question, page |-> Len(rows) + 1])
    IN  /\ Consecutive(t.rows) /\ Consecutive(t.incoming)
        /\ Continues(t.incoming, t.next)
        /\ k = "jobs" => Continues(t.rows, t.shownNext)

\* What a table waits for is on its way: a wait never outlives its request.
WaitsForSomething ==
  \A kind \in app.waiting : \E r \in app.requests : r.kind = kind /\ r.live

\* What a table shows, and waits for, are the answers to what was asked last.
AnswersInPlace == TablesTypeOK /\ RowsMatchFilters /\ PagesInOrder /\ WaitsForSomething
=============================================================================
