--------------------------- MODULE RequestInputs ---------------------------
(***************************************************************************)
(* What the clients of MCRequests ask for.  Definitions: durations 0 to 4, *)
(* of which 4 cannot be sent and 3 has no first time as an interval, and   *)
(* labels over two keys.  Listings: filters of each kind.                  *)
(***************************************************************************)
EXTENDS Integers, Sequences

CONSTANTS Absent, None  \* of WireFormat, and of the listings

-----------------------------------------------------------------------------
(* Definitions of jobs and schedules *)

Label(k, v) == [key |-> k, value |-> v]
Labels == {<<>>, <<Label("a", "x")>>, <<Label("a", "nul")>>}
Repeated == {<<>>, <<Label("a", "x"), Label("a", "nul")>>, <<Label("a", "x"), Label("b", "x")>>,
             <<Label("b", "y"), Label("a", "y"), Label("b", "x")>>}

AnyJob == [target : {"supported", "unsupported"}, timeout : {0, 1, 4}, base : {"start", "target"},
           backoff : {0, 1, 4}, max : {Absent, 1, 4}, strategy : {"fixed", "exponential"},
           labels : Labels]
Plain == [target |-> "supported", timeout |-> 1, base |-> "target", backoff |-> 1, max |-> Absent,
          strategy |-> "fixed", labels |-> <<Label("a", "y")>>]

Interval(d, m) == [kind |-> "interval", interval |-> d, cron |-> "valid", missed |-> m]
Cron(c, m) == [kind |-> "cron", interval |-> Absent, cron |-> c, missed |-> m]
Policies == {Interval(d, m) : d \in 0..4, m \in {"skip", "create"}}
            \cup {Cron("valid", m) : m \in {"skip", "create"}}
Schedules == [policy : Policies, template : {Plain}, labels : Labels,
              start : {Absent, "supported", "unsupported"}, end : {Absent, "supported"}]

Pairs(S) == {<<p[1], p[2]>> : p \in S \X S}
SomeJobs == {[Plain EXCEPT !.target = t, !.timeout = d] :
               t \in {"supported", "unsupported"}, d \in {0, 4}}
FromLibrary ==
  [kind : {"job"}, items : {<<>>} \cup {<<j>> : j \in AnyJob} \cup Pairs(SomeJobs), unless : BOOLEAN]
  \cup [kind : {"schedule"}, items : {<<s>> : s \in Schedules}, unless : BOOLEAN]

WireTimeouts == {Absent} \cup [duration : {Absent, -1, 1, 3}, base : {"unspecified", "start", "target"}]
WireRetries == {Absent} \cup [backoff : {Absent, -1, 3}, max : {Absent, -1, 1},
                              strategy : {"unspecified", "exponential"}]
WireJob(typed, json, target, labels, timeout, retry) ==
  [typed |-> typed, json |-> json, target |-> target, labels |-> labels,
   timeout |-> timeout, retry |-> retry]
WireJobs ==
  {WireJob(TRUE, TRUE, "supported", <<>>, t, r) : t \in WireTimeouts, r \in WireRetries}
  \cup {WireJob(t, j, at, l, Absent, Absent) :
          t \in BOOLEAN, j \in BOOLEAN, at \in {Absent, "supported", "unsupported", "unreadable"},
          l \in Repeated \cup Labels}
SomeWireJobs == {WireJob(TRUE, j, at, l, Absent, Absent) :
                   j \in BOOLEAN, at \in {Absent, "unsupported"}, l \in Repeated \cup Labels}
WirePolicies == {Absent, Interval(Absent, "unspecified"), Interval(-1, "skip"), Interval(1, "unspecified"),
                 Cron("valid", "unspecified"), Cron("invalid", "create")}
WireSchedules ==
  [policy : WirePolicies, template : {Absent} \cup SomeWireJobs, labels : Repeated,
   start : {Absent, "unreadable"}, end : {Absent}]
FromOthers ==
  [kind : {"job"}, items : {<<>>} \cup {<<w>> : w \in WireJobs}, inherit : {Absent}, unless : BOOLEAN]
  \cup [kind : {"schedule"}, items : {<<w>> : w \in WireSchedules},
        inherit : BOOLEAN \cup {Absent}, unless : {FALSE}]

-----------------------------------------------------------------------------
(* Filters of jobs and schedules *)

AllJobs == [ids |-> None, executors |-> None, executions |-> None,
            statuses |-> None, reasons |-> None, labels |-> None]
ByExecutor == [AllJobs EXCEPT !.executors = {"x"}]
ByExecution == [AllJobs EXCEPT !.executors = {"x"}, !.executions = {<<1, 1>>, <<2, 2>>}]
ByStatus == [AllJobs EXCEPT !.statuses = {"Pending", "Failed"}, !.reasons = {"Ready"}]
ByReason == [AllJobs EXCEPT !.reasons = {"Scheduled"}]
ByLabel(value, valueIn) == [AllJobs EXCEPT !.labels = {[value |-> value, valueIn |-> valueIn]}]
JobFilters ==
  {AllJobs, ByExecutor, ByExecution, ByStatus, ByReason, ByLabel("b", {"a"}), ByLabel(None, {}),
   [AllJobs EXCEPT !.statuses = {"InProgress"}, !.reasons = {"Ready"}],
   [AllJobs EXCEPT !.statuses = {"Succeeded"}],
   [ByLabel(None, None) EXCEPT !.ids = {1, 2}]}
JobOrders ==
  {"CreatedAtAsc", "CreatedAtDesc", "TargetAsc", "TargetDesc", "PriorityAsc", "PriorityDesc"}

AllSchedules == [ids |-> None, statuses |-> None]
ScheduleFilters ==
  {AllSchedules, [AllSchedules EXCEPT !.statuses = {"Active"}],
   [AllSchedules EXCEPT !.statuses = {"Stopped"}, !.ids = {1, 2, 4}],
   [AllSchedules EXCEPT !.ids = {1, 3, 4}]}
=============================================================================
