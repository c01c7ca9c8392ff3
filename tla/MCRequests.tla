----------------------------- MODULE MCRequests -----------------------------
(***************************************************************************)
(* What becomes of requests: definitions on their way to the backend and   *)
(* back, the transactions that change executions, listings of jobs and     *)
(* schedules while both change, and the next times of a schedule.          *)
(*                                                                         *)
(* These parts share no state.  A behaviour is one of a single part: the   *)
(* schedule of MCScheduleTimes is one of its inputs, no transaction has    *)
(* begun and nothing is written while another part moves, and the          *)
(* variables of the listings have the value None.                          *)
(***************************************************************************)
EXTENDS MCScheduleTimes, PgTransactions, WireFormat

VARIABLES
  part,  \* which part moves
  \* JobListing and ScheduleListing
  rows, unused, clock, stream

timesVars   == <<schedule, last, now>>
listingVars == <<rows, unused, clock, stream>>

In == INSTANCE RequestInputs

\* Of WireFormat.
DefinitionsWritten == In!FromLibrary
DefinitionsSent == In!FromOthers

\* Jobs of which two tie in each order: two of them and every filter, no listing;
Filtering == INSTANCE JobListing WITH
  Jobs <- {1, 2}, TargetOf <- <<1, 0>>, PriorityOf <- <<1, 2>>, LabelOf <- <<"a", None>>,
  Executors <- {"x", "y"}, Filters <- In!JobFilters, Orders <- {}, Limits <- {None, 0, 3},
  PAGE_SIZE <- 2, DEFAULT_PAGE_SIZE <- 2, MAX_PAGE_SIZE <- 3, MaxAttempts <- 2, MaxTime <- 2,
  now <- clock

\* three of them and a listing in each order;
Paging == INSTANCE JobListing WITH
  Jobs <- {1, 2, 3}, TargetOf <- <<1, 0, 0>>, PriorityOf <- <<1, 2, 1>>, LabelOf <- <<"a", None, "b">>,
  Executors <- {"x"}, Filters <- {In!AllJobs, [In!AllJobs EXCEPT !.statuses = {"Pending", "Succeeded"}]},
  Orders <- In!JobOrders, Limits <- {None, 3},
  PAGE_SIZE <- 2, DEFAULT_PAGE_SIZE <- 2, MAX_PAGE_SIZE <- 3, MaxAttempts <- 1, MaxTime <- 1,
  now <- clock

\* and three with executions that repeat them.
Repeating == INSTANCE JobListing WITH
  Jobs <- {1, 2, 3}, TargetOf <- <<1, 0, 0>>, PriorityOf <- <<1, 2, 1>>, LabelOf <- <<"a", None, "b">>,
  Executors <- {"x"}, Filters <- {In!ByExecutor}, Orders <- {"TargetAsc"},
  Limits <- {None, 0},
  PAGE_SIZE <- 2, DEFAULT_PAGE_SIZE <- 2, MAX_PAGE_SIZE <- 3, MaxAttempts <- 2, MaxTime <- 1,
  now <- clock

\* Four schedules, pages of two.
Listing == INSTANCE ScheduleListing WITH
  Schedules <- 1..4, Filters <- In!ScheduleFilters, Limits <- {None, 0, 1, 3, 4},
  PAGE_SIZE <- 2, DEFAULT_PAGE_SIZE <- 2, MAX_PAGE_SIZE <- 3

TimesRest ==
  /\ schedule = [policy |-> [kind |-> "interval", interval |-> 1], immediate |-> FALSE,
                 missed |-> "skip", start |-> NoTime, end |-> NoTime]
  /\ last = NoTime /\ now = 0

ListingRests == rows = None /\ unused = None /\ clock = None /\ stream = None

RequestsInit ==
  /\ PgInit /\ WireInit
  /\ \/ part = "times" /\ Init /\ ListingRests
     \/ /\ TimesRest
        /\ \/ part \in {"wire", "transactions"} /\ ListingRests
           \/ part = "filters" /\ Filtering!Init
           \/ part = "pages" /\ Paging!Init
           \/ part = "repeats" /\ Repeating!Init
           \/ part = "schedules" /\ clock = None /\ Listing!Init

RequestsNext ==
  /\ UNCHANGED part
  /\ \/ part = "times" /\ (Tick \/ End) /\ UNCHANGED <<wireVars, pgVars, listingVars>>
     \/ /\ UNCHANGED timesVars
        /\ \/ part = "wire" /\ WireNext /\ UNCHANGED <<pgVars, listingVars>>
           \/ part = "transactions" /\ PgNext /\ UNCHANGED <<wireVars, listingVars>>
           \/ /\ UNCHANGED <<wireVars, pgVars>>
              /\ \/ part = "filters" /\ Filtering!Next
                 \/ part = "pages" /\ Paging!Next
                 \/ part = "repeats" /\ Repeating!Next
                 \/ part = "schedules" /\ Listing!Next /\ UNCHANGED clock

RequestsSpec == RequestsInit /\ [][RequestsNext]_<<part, timesVars, wireVars, pgVars, listingVars>>

-----------------------------------------------------------------------------
(* The properties of the parts, besides those of MCScheduleTimes, PgTransactions and WireFormat *)

\* JobListing and ScheduleListing: the pages of a listing that changes are one.
PagesAreOneListing ==
  /\ part = "filters" => Filtering!ListingTypeOK
  /\ part = "pages" => Paging!PagesAreOneListing
  /\ part = "repeats" => Repeating!PagesAreOneListing
  /\ part = "schedules" => Listing!PagesAreOneListing

\* JobListing and ScheduleListing: a filter selects, counts, cancels and stops what it
\* describes.
FiltersAreMeant ==
  /\ [](part = "filters" => Filtering!StatusesAreLatest /\ Filtering!CountsAgree)
  /\ [][part = "filters" => Filtering!CancelsMatching]_listingVars
  /\ [][part = "schedules" => Listing!StopsMatching]_listingVars
=============================================================================
