------------------------------ MODULE WireFormat ------------------------------
(***************************************************************************)
(* How definitions of jobs and schedules travel: a caller of the client    *)
(* library writes them, the library puts them on the wire, the server      *)
(* reads, validates and stores them, lists them, and the library reads     *)
(* them back and may add them again.  Other clients send what they like.   *)
(* Calls are repeated when their answer is lost.                           *)
(***************************************************************************)
EXTENDS Conversions

CONSTANTS
  Written,      \* what callers of the library add, [kind, items, unless]
  Sent,         \* what other clients send, [kind, items, inherit, unless]
  MaxAdditions  \* bound: of requests to add

Answers == [kind : {"added", "existing", "refused"}, ids : SUBSET Nat]

ASSUME RequestsAssumption ==
  /\ MaxAdditions \in Nat /\ Absent \notin Answers
  /\ \A w \in Written :
       /\ w.kind \in {"job", "schedule"} /\ w.unless \in BOOLEAN
       /\ w.items \in Seq(IF w.kind = "job" THEN JobDefinitions ELSE ScheduleDefinitions)
  /\ \A r \in Sent :
       /\ r.kind \in {"job", "schedule"} /\ r.unless \in BOOLEAN /\ r.inherit \in Optional(BOOLEAN)
       /\ r.items \in Seq(IF r.kind = "job" THEN WireJobs ELSE WireSchedules)

VARIABLES
  source,   \* what the caller of the library wrote, Absent for other clients
  request,  \* AddJobsRequest or AddSchedulesRequest, Absent if there is none
  answer,   \* of the request: the kind of the answer and the positions added
  store,    \* the kind and the definitions in the backend
  listed,   \* the definitions of the last list response, Absent before it
  read,     \* what the library made of them
  additions

wireVars == <<source, request, answer, store, listed, read, additions>>

-------------------------------------------------------------------------------
Nothing == [kind |-> "none", items |-> <<>>]

WireInit ==
  /\ source = Absent /\ request = Absent /\ answer = Absent
  /\ store = Nothing /\ listed = Absent /\ read = Absent /\ additions = 0

Send(r) ==
  /\ request' = r /\ answer' = Absent /\ additions' = additions + 1
  /\ additions < MaxAdditions

LibraryRequest(w) ==
  [kind |-> w.kind, inherit |-> TRUE, unless |-> w.unless,
   items |-> [i \in DOMAIN w.items |-> Write(w.kind, w.items[i])]]

\* AdminClient::add_jobs, add_schedules and their if_not_exists variants.
LibraryAdds ==
  /\ request = Absent /\ store.items = <<>>
  /\ \E w \in Written : source' = w /\ Send(LibraryRequest(w))
  /\ UNCHANGED <<store, listed, read>>

ClientAdds ==
  /\ request = Absent /\ store.items = <<>>
  /\ \E r \in Sent : Send(r)
  /\ source' = Absent /\ UNCHANGED <<store, listed, read>>

\* A job is added again from its definition.
LibraryCopies ==
  /\ request = Absent /\ read # Absent /\ store.kind = "job"
  /\ LET w == [kind |-> "job", unless |-> FALSE, items |-> read]
     IN  source' = w /\ Send(LibraryRequest(w))
  /\ UNCHANGED <<store, listed, read>>

\* add_jobs and add_schedules: every definition is read and validated before any is added.
ServerAdds ==
  /\ request # Absent /\ answer = Absent
  /\ IF \E i \in DOMAIN request.items : ~ValidItem(request.kind, request.items[i])
     THEN answer' = [kind |-> "refused", ids |-> {}] /\ UNCHANGED store
     ELSE IF request.unless /\ store.items # <<>>
     THEN answer' = [kind |-> "existing", ids |-> DOMAIN store.items] /\ UNCHANGED store
     ELSE /\ store' = [kind |-> request.kind,
                       items |-> store.items \o [i \in DOMAIN request.items |->
                                                   ReadItem(request, request.items[i])]]
          /\ answer' = [kind |-> "added",
                        ids |-> {Len(store.items) + i : i \in DOMAIN request.items}]
  /\ UNCHANGED <<source, request, listed, read, additions>>

\* The answer is lost and the caller tries again.
AnswerLost ==
  /\ request # Absent /\ answer # Absent /\ answer.kind # "refused" /\ Send(request)
  /\ UNCHANGED <<source, store, listed, read>>

\* The caller has the answer.
AnswerArrives ==
  /\ answer # Absent /\ request # Absent
  /\ request' = Absent /\ UNCHANGED <<source, answer, store, listed, read, additions>>

ServerLists ==
  /\ request = Absent /\ store.items # <<>> /\ listed = Absent
  /\ listed' = [i \in DOMAIN store.items |->
                  IF store.kind = "job" THEN ListJob(store.items[i])
                  ELSE ListSchedule(store.items[i])]
  /\ UNCHANGED <<source, request, answer, store, read, additions>>

LibraryReads ==
  /\ listed # Absent /\ read = Absent
  /\ read' = [i \in DOMAIN listed |-> IF store.kind = "job" THEN LibraryJob(listed[i])
                                      ELSE LibrarySchedule(listed[i])]
  /\ UNCHANGED <<source, request, answer, store, listed, additions>>

WireNext ==
  \/ LibraryAdds \/ ClientAdds \/ LibraryCopies
  \/ ServerAdds \/ AnswerLost \/ AnswerArrives
  \/ ServerLists \/ LibraryReads

WireSpec == WireInit /\ [][WireNext]_wireVars

-------------------------------------------------------------------------------
Value(labels, key) ==
  LET found == {i \in DOMAIN labels : labels[i].key = key}
  IN  IF found = {} THEN Absent ELSE labels[CHOOSE i \in found : \A k \in found : i <= k].value

KeysOf(labels) == {labels[i].key : i \in DOMAIN labels}

UniqueKeys(labels) == \A i, k \in DOMAIN labels : labels[i].key = labels[k].key => i = k

\* The definitions that were added by the request that was answered last.
AddedItems ==
  LET first == Len(store.items) - Len(request.items)
  IN  SubSeq(store.items, first + 1, Len(store.items))

JustAdded == request # Absent /\ answer # Absent /\ answer.kind = "added"

\* The shape of the state.
WireTypeOK ==
  /\ additions \in 0..MaxAdditions
  /\ store.kind \in {"none", "job", "schedule"}
  /\ answer \in Optional(Answers)
  /\ store.kind = "schedule" =>
       \A i \in DOMAIN store.items : store.items[i].policy \in Policies(Nat, {"skip", "create"})

Limit(d) == IF d # Absent /\ d > LongestWire THEN Absent ELSE d

SameJob(w, j) ==
  /\ j.target = w.target /\ j.base = w.base /\ j.strategy = w.strategy
  /\ j.timeout = Or(Limit(w.timeout), 0) /\ j.max = Limit(w.max)
  /\ w.backoff <= LongestWire => j.backoff = w.backoff

\* A definition written with the library (admin/jobs.rs, admin/schedules.rs)
\* is stored by the server with the same meaning: limits that cannot be sent
\* are no limits, and a schedule is refused rather than given another interval.
LibraryIsUnderstood ==
  source # Absent /\ JustAdded =>
    \A i \in DOMAIN source.items :
      LET w == source.items[i]
          d == AddedItems[i]
      IN  IF store.kind = "job"
          THEN SameJob(w, d) /\ \A k \in KeysOf(w.labels \o d.labels) :
                                   Value(w.labels, k) = Value(d.labels, k)
          ELSE SameJob(w.template, d.template) /\ d.policy = w.policy
               /\ d.start = w.start /\ d.end = w.end

\* What the library reads from a list response (Job::definition) is what the
\* server stored, whatever client added it and left unspecified.
ReadAsStored ==
  read # Absent =>
    \A i \in DOMAIN read :
      IF store.kind = "job" THEN read[i] = store.items[i]
      ELSE read[i].policy = store.items[i].policy /\ read[i].start = store.items[i].start
           /\ read[i].end = store.items[i].end

\* Template labels are the template's own, first of each key, and those of the
\* schedule only for other keys and only if they are inherited (AddSchedules).
LabelsInherited ==
  JustAdded /\ store.kind = "schedule" =>
    \A i \in DOMAIN request.items :
      LET w == request.items[i]
          labels == AddedItems[i].template.labels
      IN  /\ UniqueKeys(labels) /\ UniqueKeys(AddedItems[i].labels)
          /\ \A k \in KeysOf(labels \o w.labels \o w.template.labels) :
               Value(labels, k) = IF k \in KeysOf(w.template.labels) THEN Value(w.template.labels, k)
                                  ELSE IF request.inherit = FALSE THEN Absent
                                  ELSE Value(w.labels, k)

\* A request is added as a whole or not at all, and one that asks for it at
\* most once however often it is repeated (AdminService::add_jobs, add_schedules).
WholeRequests ==
  request # Absent =>
    /\ \E n \in 0..MaxAdditions : Len(store.items) = n * Len(request.items)
    /\ request.unless => Len(store.items) <= Len(request.items)

SoundLabels(labels) ==
  UniqueKeys(labels) /\ \A i \in DOMAIN labels : labels[i].value # "nul"

SoundJob(j) ==
  /\ SoundLabels(j.labels)
  /\ {j.timeout, j.backoff} \subseteq 0..LongestWire
  /\ j.max = Absent \/ j.max \in 0..LongestWire

\* What is stored can be run and listed: no duration that becomes zero on the
\* wire, no text the backend cannot hold, no interval without a next time.
StoreIsSound ==
  \A i \in DOMAIN store.items :
    LET d == store.items[i]
    IN  IF store.kind = "job" THEN SoundJob(d) /\ d.target \in SupportedTimes
        ELSE /\ SoundJob(d.template) /\ SoundLabels(d.labels)
             /\ d.policy.kind = "interval" => d.policy.interval \in 1..LongestInterval

\* What a client writes is stored with the meaning its protocol gives it, in whole
\* requests, so that it can be run, listed and read.
MeaningIsKept ==
  /\ WireTypeOK /\ WholeRequests /\ StoreIsSound
  /\ LibraryIsUnderstood /\ ReadAsStored /\ LabelsInherited

Capped(j) == IF j.max # Absent /\ j.max < j.backoff THEN j.max ELSE j.backoff

\* Violated: "If the backoff duration is greater than the maximum backoff
\* duration, the backoff duration is capped at the maximum backoff duration"
\* (job.rs, RetryPolicy); one that cannot be sent is no backoff at all.
BackoffAsWritten ==
  source # Absent /\ JustAdded /\ store.kind = "job" =>
    \A i \in DOMAIN source.items :
      source.items[i].max \in 0..LongestWire => Capped(AddedItems[i]) = Capped(source.items[i])
===============================================================================
