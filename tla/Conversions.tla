----------------------------- MODULE Conversions -----------------------------
(***************************************************************************)
(* What becomes of the definition of a job or a schedule on its way: from  *)
(* the client library to the wire (proto/convert.rs), from the wire to the *)
(* backend and back (grpc/conv.rs, util.rs), and from the wire to the      *)
(* library.  Fields of the wire may be absent, enumerations unspecified,   *)
(* durations negative; the two sides fill such gaps differently.           *)
(*                                                                         *)
(* A stored job has the fields of a written one.  Payloads, priorities and *)
(* retry counts are copied as they are and left out.                       *)
(***************************************************************************)
EXTENDS Integers, Sequences

CONSTANTS
  Absent,           \* a field that is not there
  LongestWire,      \* the longest duration the wire can carry (2^63 - 1 s)
  LongestInterval   \* the longest interval whose first time is supported

ASSUME LongestAssumption ==
  LongestWire \in Nat /\ LongestInterval \in Nat /\ LongestInterval < LongestWire

-------------------------------------------------------------------------------
(* What is written and sent. *)

Labels == Seq([key : STRING, value : STRING])

Optional(S) == {Absent} \cup S

Choice(S) == {"unspecified"} \cup S

\* The fields of the wire, some of which are the choice of one.
WireDurations == Optional({d \in Int : d <= LongestWire})
WireTimeouts == [duration : WireDurations, base : Choice({"start", "target"})]
WireRetries ==
  [backoff : WireDurations, max : WireDurations, strategy : Choice({"fixed", "exponential"})]
WireJobs ==
  [typed : BOOLEAN, json : BOOLEAN, target : Optional(STRING), labels : Labels,
   timeout : Optional(WireTimeouts), retry : Optional(WireRetries)]

Policies(durations, missed) ==
  [kind : {"interval"}, interval : durations, cron : {"valid"}, missed : missed]
  \cup [kind : {"cron"}, interval : {Absent}, cron : {"valid", "invalid"}, missed : missed]

WireSchedules ==
  [policy : Optional(Policies(WireDurations, Choice({"skip", "create"}))),
   template : Optional(WireJobs), labels : Labels,
   start : Optional(STRING), end : Optional(STRING)]

JobDefinitions ==
  [target : STRING, labels : Labels, timeout : Nat, base : {"start", "target"}, backoff : Nat,
   max : Optional(Nat), strategy : {"fixed", "exponential"}]
ScheduleDefinitions ==
  [policy : Policies(Nat, {"skip", "create"}), template : JobDefinitions, labels : Labels,
   start : Optional(STRING), end : Optional(STRING)]

ASSUME AbsentAssumption == Absent \notin Int \cup BOOLEAN \cup WireTimeouts \cup WireRetries

-------------------------------------------------------------------------------
(* The library writes. *)

\* prost_types::Duration::try_from(d).ok()
ToWire(d) == IF d # Absent /\ d > LongestWire THEN Absent ELSE d

WriteJob(j) ==
  [typed |-> TRUE, json |-> TRUE, target |-> j.target, labels |-> j.labels,
   timeout |-> [duration |-> ToWire(j.timeout), base |-> j.base],
   retry |-> [backoff |-> ToWire(j.backoff), max |-> ToWire(j.max), strategy |-> j.strategy]]

\* Intervals that do not fit are sent as the longest ones, for the server to refuse.
WritePolicy(p) ==
  [p EXCEPT !.interval = IF @ # Absent /\ @ > LongestWire THEN LongestWire ELSE @]

WriteSchedule(s) ==
  [policy |-> WritePolicy(s.policy), template |-> WriteJob(s.template), labels |-> s.labels,
   start |-> s.start, end |-> s.end]

Write(kind, item) == IF kind = "job" THEN WriteJob(item) ELSE WriteSchedule(item)

-------------------------------------------------------------------------------
(* The server reads. *)

Or(field, default) == IF field = Absent THEN default ELSE field

NoTimeout == [duration |-> Absent, base |-> "unspecified"]
NoRetry == [backoff |-> Absent, max |-> Absent, strategy |-> "unspecified"]

\* unwrap_or_default().try_into().unwrap_or_default()
FromWire(d) == IF d = Absent \/ d < 0 THEN 0 ELSE d

ServerBase(b) == IF b = "target" THEN "target" ELSE "start"

Strategy(s) == IF s = "exponential" THEN "exponential" ELSE "fixed"

AddNew(labels, label) ==
  IF \E i \in DOMAIN labels : labels[i].key = label.key THEN labels ELSE Append(labels, label)

AddAll(labels, more) ==
  LET added[i \in 0..Len(more)] == IF i = 0 THEN labels ELSE AddNew(added[i - 1], more[i])
  IN  added[Len(more)]

\* deduplicate_labels: the first label of a key stays.
Deduplicate(labels) == AddAll(<<>>, labels)

\* inherit_labels
Inherit(parent, child) == AddAll(child, parent)

ReadJob(w) ==
  LET timeout == Or(w.timeout, NoTimeout)
      retry == Or(w.retry, NoRetry)
  IN  [target |-> w.target, labels |-> Deduplicate(w.labels),
       timeout |-> FromWire(timeout.duration), base |-> ServerBase(timeout.base),
       backoff |-> FromWire(retry.backoff),
       max |-> IF retry.max = Absent THEN Absent ELSE FromWire(retry.max),
       strategy |-> Strategy(retry.strategy)]

Missed(m) == IF m = "create" THEN "create" ELSE "skip"

ReadPolicy(p) ==
  [p EXCEPT !.interval = IF p.kind = "interval" THEN FromWire(@) ELSE Absent,
            !.missed = Missed(@)]

ReadSchedule(w, inherit) ==
  LET own == ReadJob(w.template)
      labels == Deduplicate(w.labels)
  IN  [policy |-> ReadPolicy(w.policy), labels |-> labels, start |-> w.start, end |-> w.end,
       template |-> [own EXCEPT !.labels = IF inherit THEN Inherit(labels, @) ELSE @]]

\* validate_labels: no NUL characters.
ValidLabels(labels) ==
  \A i \in DOMAIN Deduplicate(labels) : Deduplicate(labels)[i].value # "nul"

\* Templates need a target time, which nothing else is asked of.
ValidTemplate(w) ==
  w.typed /\ w.target \notin {Absent, "unreadable"} /\ ValidLabels(w.labels) /\ w.json

\* validate_time: the years 1 to 9999.
SupportedTimes == {"past", "supported"}

ValidJob(w) == ValidTemplate(w) /\ w.target \in SupportedTimes

\* validate_schedule, as in ScheduleTimes: there is a first regular time.
ValidPolicy(p) ==
  IF p.kind = "interval" THEN FromWire(p.interval) \in 1..LongestInterval ELSE p.cron = "valid"

ValidSchedule(w) ==
  /\ w.policy # Absent /\ w.template # Absent
  /\ ValidTemplate(w.template) /\ ValidLabels(w.labels)
  /\ {w.start, w.end} \subseteq {Absent} \cup SupportedTimes
  /\ ValidPolicy(w.policy)

ValidItem(kind, w) == IF kind = "job" THEN ValidJob(w) ELSE ValidSchedule(w)

ReadItem(r, w) ==
  IF r.kind = "job" THEN ReadJob(w) ELSE ReadSchedule(w, Or(r.inherit, TRUE))

-------------------------------------------------------------------------------
(* The server lists, the library reads. *)

\* Durations that do not fit would become zero.
List(d) == IF d # Absent /\ d > LongestWire THEN 0 ELSE d

\* Mutant: what is the default of the server is left unspecified.
ListJob_unspecified(j) ==
  [typed |-> TRUE, json |-> TRUE, target |-> j.target, labels |-> j.labels,
   timeout |-> [duration |-> List(j.timeout),
                base |-> IF j.base = "start" THEN "unspecified" ELSE j.base],
   retry |-> [backoff |-> List(j.backoff), max |-> List(j.max), strategy |-> j.strategy]]

ListJob(j) ==
  [typed |-> TRUE, json |-> TRUE, target |-> j.target, labels |-> j.labels,
   timeout |-> [duration |-> List(j.timeout), base |-> j.base],
   retry |-> [backoff |-> List(j.backoff), max |-> List(j.max), strategy |-> j.strategy]]

ListSchedule(s) ==
  [policy |-> [s.policy EXCEPT !.interval = List(@)], template |-> ListJob(s.template),
   labels |-> s.labels, start |-> s.start, end |-> s.end]

\* Job::definition; what the server did not specify has other defaults here.
LibraryJob(w) ==
  [target |-> w.target, labels |-> w.labels,
   timeout |-> FromWire(w.timeout.duration),
   base |-> IF w.timeout.base = "start" THEN "start" ELSE "target",
   backoff |-> FromWire(w.retry.backoff),
   max |-> IF w.retry.max = Absent \/ w.retry.max < 0 THEN Absent ELSE w.retry.max,
   strategy |-> Strategy(w.retry.strategy)]

LibrarySchedule(w) == [policy |-> w.policy, start |-> w.start, end |-> w.end]
===============================================================================
