----------------------------- MODULE TuiProofs -----------------------------
(***************************************************************************)
(* Theorems about the tables, the dialogs and the editor of the terminal    *)
(* interface, for any filters, lists of types, numbers of pages, rows,      *)
(* forms, fields and lengths of their texts.                               *)
(*                                                                         *)
(* Argument for TuiTables: a live request asks for the first page of a     *)
(* table, or for the one after those that have come (AsksNext), and what   *)
(* it asks is what the filters of its table say, unless they are being     *)
(* typed (AppFits).  Every method of App keeps this, so that the handlers, *)
(* which are compositions of methods, keep it too.                         *)
(*                                                                         *)
(* Argument for TuiDialogs: while a form waits for the answer to what it   *)
(* has sent, nothing is confirmed and nothing else is sent (PromptInv).    *)
(*                                                                         *)
(* Argument for TuiForm: every method of Form keeps the fields of their     *)
(* kinds and the caret in a text (EditorOK), and changes but the row of     *)
(* the caret (Local).  PopWord is PopChar for each character of the word:   *)
(* after n of them the text lacks n characters before the caret (Cut), and  *)
(* its row is there until the last.                                        *)
(***************************************************************************)
EXTENDS TuiTables, TuiDialogs, TuiForm, FiniteSetTheorems, SequenceTheorems,
        WellFoundedInduction, TLAPS

-----------------------------------------------------------------------------
(* TuiTables *)

AllTypes == UNION {Range(types) : types \in TypeLists}
Questions == [type : AllTypes \cup {None}, filter : Filters, schedule : Schedules \cup {None}]
PageRows == [question : Questions, page : Nat]
TableRecords ==
  [rows : Seq(PageRows), incoming : Seq(PageRows), next : PageRows \cup {None}, pages : Nat,
   extending : BOOLEAN, shownNext : PageRows \cup {None}, shownPages : Nat]
Requests ==
  [kind : Kinds, question : Questions \cup {None}, page : Nat, live : BOOLEAN]
Apps ==
  [tab : Tabs, types : TypeLists \cup {<<>>}, selected : Nat, settling : BOOLEAN,
   filter : [Tabs -> Filters], schedule : Schedules \cup {None},
   input : Schedules \cup {"", "invalid"}, editing : {None, "labels", "schedule"},
   table : [Tables -> TableRecords], counts : Questions \cup {None}, counted : BOOLEAN,
   waiting : SUBSET Kinds, requests : SUBSET Requests]

Live(u, kind) == {r \in u.requests : r.kind = kind /\ r.live}

\* The pages of rows are the first ones of a listing, and page p of q is the next one.
Consecutive(rows) ==
  \A i \in 1..Len(rows) : rows[i].page = i /\ rows[i].question = rows[1].question
Follows(rows, pages, q, p) ==
  /\ Len(rows) > 0 /\ p = Len(rows) + 1 /\ p <= MaxPages
  /\ q = rows[1].question /\ pages = Len(rows)

TableOK(t) ==
  /\ Consecutive(t.rows) /\ Consecutive(t.incoming)
  /\ t.next # None => Follows(t.incoming, t.pages, t.next.question, t.next.page)
  /\ t.shownNext # None => Follows(t.rows, t.shownPages, t.shownNext.question, t.shownNext.page)
  /\ t.pages <= MaxPages /\ t.shownPages <= MaxPages

\* A live request asks for the first page, or for the one after those that have come.
AsksNext(t, q, p) == q \in Questions /\ (p = 1 \/ Follows(t.incoming, t.pages, q, p))

\* What does not depend on the filters.
AppOK(u) ==
  /\ u \in Apps /\ u.selected <= Len(u.types)
  /\ u.editing = "schedule" => u.tab = "jobs"
  /\ \A k \in Tables : /\ TableOK(u.table[k])
                       /\ \A r \in Live(u, k) : AsksNext(u.table[k], r.question, r.page)
  /\ \A kind \in Kinds : \A r, s \in Live(u, kind) : r = s
  /\ \A kind \in u.waiting : Live(u, kind) # {}

\* The rows of a table, and what is asked for it, match its filters.
AllAre(rows, q) == \A i \in 1..Len(rows) : rows[i].question = q
TableMatches(t, q) ==
  /\ AllAre(t.rows, q) /\ AllAre(t.incoming, q)
  /\ t.next # None => t.next.question = q
  /\ t.shownNext # None => t.shownNext.question = q
Matches(u, k) ==
  /\ TableMatches(u.table[k], Question(u, k))
  /\ \A r \in Live(u, k) : r.question = Question(u, k)
CountsMatch(u) ==
  /\ u.counts \in {None, Question(u, "jobs")}
  /\ \A r \in Live(u, "counts") : r.question = Question(u, "jobs")

\* They may not while the label filter of the table is typed.
Typing(u, k) == u.editing = "labels" /\ u.tab = k
AppFits(u) ==
  /\ \A k \in Tables : Typing(u, k) \/ Matches(u, k)
  /\ Typing(u, "jobs") \/ CountsMatch(u)

\* What decides what is asked.
SameFilters(u, v) ==
  /\ v.tab = u.tab /\ v.types = u.types /\ v.selected = u.selected /\ v.filter = u.filter
  /\ v.schedule = u.schedule /\ v.editing = u.editing /\ v.input = u.input
  /\ v.settling = u.settling

LEMMA SameQuestion ==
  ASSUME NEW u, NEW v, SameFilters(u, v), NEW k
  PROVE  /\ Question(v, k) = Question(u, k) /\ SelectedType(v) = SelectedType(u)
         /\ Typing(v, k) <=> Typing(u, k)
BY DEF SameFilters, Question, SelectedType, Typing

\* The elements of the lists of types.
LEMMA TypesAre ==
  ASSUME NEW types \in TypeLists \cup {<<>>}
  PROVE  types \in Seq(AllTypes) /\ \A i \in 1..Len(types) : types[i] # None /\ types[i] \in AllTypes
<1>1. CASE types = <<>>
  BY <1>1
<1>2. CASE types \in TypeLists
  <2>1. types \in Seq(Range(types) \ {None})
    BY <1>2, TablesAssumption
  <2>2. Range(types) \subseteq AllTypes
    BY <1>2 DEF AllTypes
  <2>3. \A i \in 1..Len(types) : types[i] \in Range(types) \ {None}
    BY <2>1
  <2> QED BY <2>1, <2>2, <2>3
<1> QED BY <1>1, <1>2

LEMMA QuestionsAre ==
  ASSUME NEW u \in Apps, u.selected <= Len(u.types), NEW k \in Tables
  PROVE  Question(u, k) \in Questions
<1>1. u.selected = 0 \/ u.selected \in 1..Len(u.types)
  <2>1. u.types \in Seq(AllTypes) /\ u.selected \in Nat
    BY TypesAre DEF Apps
  <2> QED BY <2>1
<1>2. SelectedType(u) \in AllTypes \cup {None}
  BY <1>1, TypesAre DEF SelectedType, Apps
<1>3. u.filter[k] \in Filters /\ u.schedule \in Schedules \cup {None}
  BY DEF Apps, Tables, Tabs
<1> QED BY <1>2, <1>3 DEF Question, Questions

\* Counter.
LEMMA SupersededAre ==
  ASSUME NEW S \in SUBSET Requests, NEW kind \in Kinds
  PROVE  /\ Superseded(S, kind) \in SUBSET Requests
         /\ \A r \in Superseded(S, kind) : r.live => r \in S /\ r.kind # kind
         /\ \A r \in S : r.kind # kind => r \in Superseded(S, kind)
<1>1. ASSUME NEW s \in S, s.kind = kind, s.live
      PROVE  [s EXCEPT !.live = FALSE] \in Requests /\ ~[s EXCEPT !.live = FALSE].live
  BY DEF Requests
<1> QED BY <1>1 DEF Superseded

LEMMA StartIs ==
  ASSUME NEW u \in Apps, NEW kind \in Kinds, NEW q \in Questions \cup {None}, NEW p \in Nat,
         NEW v, v = Start(u, kind, q, p)
  PROVE  /\ v \in Apps /\ SameFilters(u, v)
         /\ v.table = u.table /\ v.counts = u.counts /\ v.counted = u.counted
         /\ v.waiting = u.waiting \cup {kind}
         /\ v.requests = Superseded(u.requests, kind) \cup
              {[kind |-> kind, question |-> q, page |-> p, live |-> TRUE]}
<1>1. Superseded(u.requests, kind) \in SUBSET Requests
  BY SupersededAre DEF Apps
<1>2. [kind |-> kind, question |-> q, page |-> p, live |-> TRUE] \in Requests
  BY DEF Requests
<1> QED BY <1>1, <1>2 DEF Start, Apps, SameFilters

LEMMA StartLive ==
  ASSUME NEW u \in Apps, NEW kind \in Kinds, NEW q \in Questions \cup {None}, NEW p \in Nat
  PROVE  LET v == Start(u, kind, q, p)
         IN  /\ Live(v, kind) = {[kind |-> kind, question |-> q, page |-> p, live |-> TRUE]}
             /\ \A other \in Kinds \ {kind} : Live(v, other) = Live(u, other)
<1> DEFINE v == Start(u, kind, q, p)
           r == [kind |-> kind, question |-> q, page |-> p, live |-> TRUE]
<1>1. v.requests = Superseded(u.requests, kind) \cup {r}
  BY StartIs
<1>2. u.requests \in SUBSET Requests
  BY DEF Apps
<1>3. Live(v, kind) = {r}
  BY <1>1, <1>2, SupersededAre DEF Live
<1>4. \A other \in Kinds \ {kind} : Live(v, other) = Live(u, other)
  BY <1>1, <1>2, SupersededAre DEF Live
<1> QED BY <1>3, <1>4

LEMMA CancelIs ==
  ASSUME NEW u \in Apps, NEW kind \in Kinds, NEW v, v = Cancel(u, kind)
  PROVE  /\ v \in Apps /\ SameFilters(u, v)
         /\ v.table = u.table /\ v.counts = u.counts /\ v.counted = u.counted
         /\ v.waiting = u.waiting \ {kind}
         /\ Live(v, kind) = {}
         /\ \A other \in Kinds \ {kind} : Live(v, other) = Live(u, other)
<1>1. Superseded(u.requests, kind) \in SUBSET Requests /\ u.requests \in SUBSET Requests
  BY SupersededAre DEF Apps
<1>2. /\ v \in Apps /\ SameFilters(u, v)
      /\ v.table = u.table /\ v.counts = u.counts /\ v.counted = u.counted
      /\ v.waiting = u.waiting \ {kind}
      /\ v.requests = Superseded(u.requests, kind)
  BY <1>1 DEF Cancel, Apps, SameFilters
<1>3. Live(v, kind) = {}
  BY <1>1, <1>2, SupersededAre DEF Live
<1>4. \A other \in Kinds \ {kind} : Live(v, other) = Live(u, other)
  BY <1>1, <1>2, SupersededAre DEF Live
<1> QED BY <1>2, <1>3, <1>4

LEMMA StartKeeps ==
  ASSUME NEW u, AppOK(u), NEW kind \in Kinds, NEW q \in Questions \cup {None}, NEW p \in Nat,
         kind \in Tables => AsksNext(u.table[kind], q, p)
  PROVE  AppOK(Start(u, kind, q, p))
<1> DEFINE v == Start(u, kind, q, p)
           r == [kind |-> kind, question |-> q, page |-> p, live |-> TRUE]
<1>1. u \in Apps
  BY DEF AppOK
<1>2. /\ v \in Apps /\ SameFilters(u, v) /\ v.table = u.table
      /\ v.waiting = u.waiting \cup {kind}
  BY <1>1, StartIs
<1>3. /\ Live(v, kind) = {r}
      /\ \A other \in Kinds \ {kind} : Live(v, other) = Live(u, other)
  BY <1>1, StartLive
<1>4. r.question = q /\ r.page = p
  OBVIOUS
<1> HIDE DEF v, r
<1>5. \A k \in Tables : \A s \in Live(v, k) : AsksNext(v.table[k], s.question, s.page)
  BY <1>2, <1>3, <1>4 DEF AppOK, Kinds
<1>6. \A other \in Kinds : \A s, t \in Live(v, other) : s = t
  BY <1>3 DEF AppOK
<1>7. \A other \in v.waiting : Live(v, other) # {}
  BY <1>1, <1>2, <1>3 DEF AppOK, Apps
<1>8. AppOK(v)
  BY <1>2, <1>5, <1>6, <1>7 DEF AppOK, SameFilters
<1> QED BY <1>8 DEF v

LEMMA StartFits ==
  ASSUME NEW u \in Apps, AppFits(u), NEW kind \in Kinds, NEW q \in Questions \cup {None}, NEW p \in Nat,
         kind \in Tables => Typing(u, kind) \/ q = Question(u, kind),
         kind = "counts" => Typing(u, "jobs") \/ q = Question(u, "jobs")
  PROVE  AppFits(Start(u, kind, q, p))
<1> DEFINE v == Start(u, kind, q, p)
           r == [kind |-> kind, question |-> q, page |-> p, live |-> TRUE]
<1>2. v \in Apps /\ SameFilters(u, v) /\ v.table = u.table /\ v.counts = u.counts
  BY StartIs
<1>3. /\ Live(v, kind) = {r}
      /\ \A other \in Kinds \ {kind} : Live(v, other) = Live(u, other)
  BY StartLive
<1>4. r.question = q
  OBVIOUS
<1>5. /\ \A k \in Tables : Question(v, k) = Question(u, k) /\ (Typing(v, k) <=> Typing(u, k))
      /\ "jobs" \in Tables /\ Tables \subseteq Kinds /\ "counts" \in Kinds \ Tables
  BY <1>2, SameQuestion DEF Tables, Kinds
<1> HIDE DEF v, r
<1>6. ASSUME NEW k \in Tables, ~Typing(v, k) PROVE Matches(v, k)
  BY <1>2, <1>3, <1>4, <1>5, <1>6 DEF AppFits, Matches
<1>7. ASSUME ~Typing(v, "jobs") PROVE CountsMatch(v)
  BY <1>2, <1>3, <1>4, <1>5, <1>7 DEF AppFits, CountsMatch
<1>8. AppFits(v)
  BY <1>6, <1>7 DEF AppFits
<1> QED BY <1>8 DEF v

LEMMA CancelKeeps ==
  ASSUME NEW u, AppOK(u), NEW kind \in Kinds
  PROVE  /\ AppOK(Cancel(u, kind))
         /\ AppFits(u) => AppFits(Cancel(u, kind))
<1> DEFINE v == Cancel(u, kind)
<1>1. u \in Apps
  BY DEF AppOK
<1>2. /\ v \in Apps /\ SameFilters(u, v) /\ v.table = u.table /\ v.counts = u.counts
      /\ v.waiting = u.waiting \ {kind} /\ Live(v, kind) = {}
      /\ \A other \in Kinds \ {kind} : Live(v, other) = Live(u, other)
  BY <1>1, CancelIs
<1>3. /\ \A k \in Tables : Question(v, k) = Question(u, k) /\ (Typing(v, k) <=> Typing(u, k))
      /\ "jobs" \in Tables /\ Tables \subseteq Kinds /\ "counts" \in Kinds
  BY <1>2, SameQuestion DEF Tables, Kinds
<1>4. u.waiting \subseteq Kinds
  BY <1>1 DEF Apps
<1> HIDE DEF v
<1>5. AppOK(v)
  <2>1. \A k \in Tables : /\ TableOK(v.table[k])
                          /\ \A r \in Live(v, k) : AsksNext(v.table[k], r.question, r.page)
    BY <1>2, <1>3 DEF AppOK
  <2>2. \A other \in Kinds : \A r, s \in Live(v, other) : r = s
    BY <1>2 DEF AppOK
  <2>3. \A other \in v.waiting : Live(v, other) # {}
    BY <1>2, <1>4 DEF AppOK
  <2> QED BY <1>2, <2>1, <2>2, <2>3 DEF AppOK, SameFilters
<1>6. ASSUME AppFits(u) PROVE AppFits(v)
  <2>1. ASSUME NEW k \in Tables, ~Typing(v, k) PROVE Matches(v, k)
    BY <1>2, <1>3, <1>6, <2>1 DEF AppFits, Matches
  <2>2. ASSUME ~Typing(v, "jobs") PROVE CountsMatch(v)
    BY <1>2, <1>3, <1>6, <2>2 DEF AppFits, CountsMatch
  <2> QED BY <2>1, <2>2 DEF AppFits
<1> QED BY <1>5, <1>6 DEF v

\* A table that replaces another, while nothing else changes.
LEMMA TableChange ==
  ASSUME NEW u, AppOK(u), NEW k \in Tables, NEW t \in TableRecords, TableOK(t),
         \A r \in Live(u, k) : AsksNext(t, r.question, r.page),
         NEW v, v = [u EXCEPT !.table[k] = t]
  PROVE  /\ AppOK(v) /\ SameFilters(u, v) /\ v.waiting = u.waiting /\ v.table[k] = t
         /\ \A kind : Live(v, kind) = Live(u, kind)
         /\ AppFits(u) /\ (Typing(u, k) \/ TableMatches(t, Question(u, k))) => AppFits(v)
<1>1. u \in Apps
  BY DEF AppOK
<1>2. /\ v \in Apps /\ SameFilters(u, v) /\ v.counts = u.counts
      /\ v.waiting = u.waiting /\ v.requests = u.requests
      /\ v.table = [u.table EXCEPT ![k] = t]
  BY <1>1 DEF Apps, SameFilters
<1>3. v.table[k] = t /\ \A o \in Tables \ {k} : v.table[o] = u.table[o]
  BY <1>1, <1>2 DEF Apps
<1>4. \A kind : Live(v, kind) = Live(u, kind)
  BY <1>2 DEF Live
<1>5. AppOK(v)
  BY <1>2, <1>3, <1>4 DEF AppOK, SameFilters
<1>6. ASSUME AppFits(u), Typing(u, k) \/ TableMatches(t, Question(u, k)) PROVE AppFits(v)
  <2>1. \A o \in Tables : Question(v, o) = Question(u, o) /\ (Typing(v, o) <=> Typing(u, o))
    BY <1>2, SameQuestion
  <2>2. ASSUME NEW o \in Tables, ~Typing(v, o) PROVE Matches(v, o)
    BY <1>3, <1>4, <1>6, <2>1, <2>2 DEF AppFits, Matches
  <2>3. ASSUME ~Typing(v, "jobs") PROVE CountsMatch(v)
    BY <1>2, <1>4, <1>6, <2>1, <2>3 DEF AppFits, CountsMatch, Tables
  <2> QED BY <2>2, <2>3 DEF AppFits
<1> QED BY <1>2, <1>3, <1>4, <1>5, <1>6

\* A flag that does not matter here.
LEMMA ExtendKeeps ==
  ASSUME NEW u, AppOK(u), NEW k \in Tables
  PROVE  LET v == [u EXCEPT !.table[k].extending = FALSE]
         IN  /\ AppOK(v) /\ SameFilters(u, v) /\ v.waiting = u.waiting
             /\ AppFits(u) => AppFits(v)
<1> DEFINE t == [u.table[k] EXCEPT !.extending = FALSE]
           v == [u EXCEPT !.table[k] = t]
<1>1. u.table[k] \in TableRecords
  BY DEF AppOK, Apps
<1>2. /\ t \in TableRecords
      /\ t.rows = u.table[k].rows /\ t.incoming = u.table[k].incoming /\ t.next = u.table[k].next
      /\ t.pages = u.table[k].pages /\ t.shownNext = u.table[k].shownNext
      /\ t.shownPages = u.table[k].shownPages
  BY <1>1 DEF TableRecords
<1>3. TableOK(t) /\ \A r \in Live(u, k) : AsksNext(t, r.question, r.page)
  BY <1>2 DEF AppOK, TableOK, AsksNext
<1>4. TableMatches(t, Question(u, k)) <=> TableMatches(u.table[k], Question(u, k))
  BY <1>2 DEF TableMatches
<1>5. AppFits(u) => Typing(u, k) \/ TableMatches(t, Question(u, k))
  BY <1>4 DEF AppFits, Matches
<1>6. [u EXCEPT !.table[k].extending = FALSE] = v
  OBVIOUS
<1> HIDE DEF t
<1>7. /\ AppOK(v) /\ SameFilters(u, v) /\ v.waiting = u.waiting
      /\ AppFits(u) /\ (Typing(u, k) \/ TableMatches(t, Question(u, k))) => AppFits(v)
  BY <1>2, <1>3, TableChange
<1> QED BY <1>5, <1>6, <1>7

LEMMA FetchTableKeeps ==
  ASSUME NEW u, AppOK(u), AppFits(u), NEW k \in Tables, NEW force \in BOOLEAN
  PROVE  LET v == FetchTable(u, k, force)
         IN  AppOK(v) /\ AppFits(v) /\ SameFilters(u, v)
<1>1. CASE force \/ (k \notin u.waiting /\ u.table[k].pages <= AutoPages)
  <2> DEFINE w == [u EXCEPT !.table[k].extending = FALSE]
  <2>1. AppOK(w) /\ SameFilters(u, w) /\ AppFits(w)
    BY ExtendKeeps
  <2> HIDE DEF w
  <2>2. w \in Apps /\ w.selected <= Len(w.types) /\ k \in Kinds /\ k # "counts"
    BY <2>1 DEF AppOK, Kinds, Tables
  <2>3. Question(w, k) \in Questions /\ Question(w, k) = Question(u, k)
    BY <2>1, <2>2, QuestionsAre, SameQuestion
  <2>4. AsksNext(w.table[k], Question(w, k), 1)
    BY <2>3 DEF AsksNext
  <2>5. AppOK(Start(w, k, Question(w, k), 1))
    BY <2>1, <2>2, <2>3, <2>4, StartKeeps
  <2>6. AppFits(Start(w, k, Question(w, k), 1))
    BY <2>1, <2>2, <2>3, StartFits
  <2>7. SameFilters(w, Start(w, k, Question(w, k), 1))
    BY <2>2, <2>3, StartIs
  <2>8. FetchTable(u, k, force) = Start(w, k, Question(w, k), 1)
    BY <1>1, <2>3 DEF FetchTable, w
  <2> QED BY <2>1, <2>5, <2>6, <2>7, <2>8 DEF SameFilters
<1>2. CASE ~(force \/ (k \notin u.waiting /\ u.table[k].pages <= AutoPages))
  BY <1>2 DEF FetchTable, SameFilters
<1> QED BY <1>1, <1>2

\* A change of what is neither a table nor what is asked.
LEMMA OtherChange ==
  ASSUME NEW u, AppOK(u), NEW v \in Apps, v.selected <= Len(v.types),
         v.editing = "schedule" => v.tab = "jobs",
         v.table = u.table, v.waiting = u.waiting, v.requests = u.requests
  PROVE  AppOK(v) /\ \A kind : Live(v, kind) = Live(u, kind)
<1>1. \A kind : Live(v, kind) = Live(u, kind)
  BY DEF Live
<1> QED BY <1>1 DEF AppOK

LEMMA CountedKeeps ==
  ASSUME NEW u, AppOK(u), NEW b \in BOOLEAN
  PROVE  LET v == [u EXCEPT !.counted = b]
         IN  AppOK(v) /\ SameFilters(u, v) /\ (AppFits(u) => AppFits(v))
<1> DEFINE v == [u EXCEPT !.counted = b]
<1>1. u \in Apps
  BY DEF AppOK
<1>2. /\ v \in Apps /\ SameFilters(u, v) /\ v.table = u.table /\ v.waiting = u.waiting
      /\ v.requests = u.requests /\ v.counts = u.counts
  BY <1>1 DEF Apps, SameFilters
<1> HIDE DEF v
<1>3. AppOK(v) /\ \A kind : Live(v, kind) = Live(u, kind)
  BY <1>2, OtherChange DEF AppOK, SameFilters
<1>4. \A k : Question(v, k) = Question(u, k) /\ (Typing(v, k) <=> Typing(u, k))
  BY <1>2, SameQuestion
<1>5. AppFits(u) => AppFits(v)
  BY <1>2, <1>3, <1>4 DEF AppFits, Matches, CountsMatch
<1> QED BY <1>2, <1>3, <1>5 DEF v

LEMMA FetchJobCountsKeeps ==
  ASSUME NEW u, AppOK(u), AppFits(u)
  PROVE  LET v == FetchJobCounts(u)
         IN  AppOK(v) /\ AppFits(v) /\ SameFilters(u, v)
<1>1. CASE u.counted \/ "counts" \in u.waiting
  BY <1>1 DEF FetchJobCounts, SameFilters
<1>2. CASE ~(u.counted \/ "counts" \in u.waiting)
  <2> DEFINE w == [u EXCEPT !.counted = TRUE]
  <2>1. AppOK(w) /\ SameFilters(u, w) /\ AppFits(w)
    BY CountedKeeps
  <2>2. FetchJobCounts(u) = Start(w, "counts", Question(u, "jobs"), 1)
    BY <1>2 DEF FetchJobCounts
  <2> HIDE DEF w
  <2>3. /\ w \in Apps /\ w.selected <= Len(w.types)
        /\ "counts" \in Kinds \ Tables /\ "jobs" \in Tables
    BY <2>1 DEF AppOK, Kinds, Tables
  <2>4. Question(w, "jobs") \in Questions /\ Question(w, "jobs") = Question(u, "jobs")
    BY <2>1, <2>3, QuestionsAre, SameQuestion
  <2>5. AppOK(Start(w, "counts", Question(u, "jobs"), 1))
    BY <2>1, <2>3, <2>4, StartKeeps
  <2>6. AppFits(Start(w, "counts", Question(u, "jobs"), 1))
    BY <2>1, <2>3, <2>4, StartFits
  <2>7. SameFilters(w, Start(w, "counts", Question(u, "jobs"), 1))
    BY <2>3, <2>4, StartIs
  <2> QED BY <2>1, <2>2, <2>5, <2>6, <2>7 DEF SameFilters
<1> QED BY <1>1, <1>2

LEMMA FetchKeeps ==
  ASSUME NEW u, AppOK(u), AppFits(u), NEW force \in BOOLEAN
  PROVE  AppOK(Fetch(u, force)) /\ AppFits(Fetch(u, force))
<1> DEFINE v == IF "job_types" \in u.waiting THEN u ELSE Start(u, "job_types", None, 1)
<1>1. AppOK(v) /\ AppFits(v) /\ SameFilters(u, v)
  <2>1. u \in Apps /\ "job_types" \in Kinds \ Tables /\ "job_types" # "counts"
    BY DEF AppOK, Kinds, Tables
  <2>2. /\ AppOK(Start(u, "job_types", None, 1)) /\ AppFits(Start(u, "job_types", None, 1))
        /\ SameFilters(u, Start(u, "job_types", None, 1))
    BY <2>1, StartKeeps, StartFits, StartIs
  <2> QED BY <2>2 DEF SameFilters
<1>2. Fetch(u, force) =
        CASE u.settling \/ u.tab = "executors" -> v
          [] ~u.settling /\ u.tab = "schedules" -> FetchTable(v, "schedules", force)
          [] ~u.settling /\ u.tab = "jobs" ->
               FetchJobCounts([FetchTable(v, "jobs", force) EXCEPT !.counted = @ /\ ~force])
  BY DEF Fetch
<1>3. u.tab \in {"jobs", "schedules", "executors"} /\ u.settling \in BOOLEAN
  BY DEF AppOK, Apps, Tabs, Tables
<1> HIDE DEF v
<1>4. CASE u.settling \/ u.tab = "executors"
  BY <1>1, <1>2, <1>4
<1>5. CASE ~u.settling /\ u.tab = "schedules"
  <2>1. Fetch(u, force) = FetchTable(v, "schedules", force)
    BY <1>2, <1>5
  <2> QED BY <1>1, <2>1, FetchTableKeeps DEF Tables
<1>6. CASE ~u.settling /\ u.tab = "jobs"
  <2> DEFINE w == FetchTable(v, "jobs", force)
  <2>1. AppOK(w) /\ AppFits(w)
    BY <1>1, FetchTableKeeps DEF Tables
  <2>2. Fetch(u, force) = FetchJobCounts([w EXCEPT !.counted = @ /\ ~force])
    BY <1>2, <1>6
  <2> HIDE DEF w
  <2>3. (w.counted /\ ~force) \in BOOLEAN
    OBVIOUS
  <2>4. [w EXCEPT !.counted = @ /\ ~force] = [w EXCEPT !.counted = w.counted /\ ~force]
    OBVIOUS
  <2>5. AppOK([w EXCEPT !.counted = w.counted /\ ~force])
        /\ AppFits([w EXCEPT !.counted = w.counted /\ ~force])
    BY <2>1, <2>3, CountedKeeps
  <2> QED BY <2>2, <2>4, <2>5, FetchJobCountsKeeps
<1> QED BY <1>3, <1>4, <1>5, <1>6

LEMMA InvalidateIs ==
  ASSUME NEW u, AppOK(u)
  PROVE  LET v == Invalidate(u)
         IN  /\ AppOK(v) /\ SameFilters(u, v) /\ v.table = u.table /\ v.counts = None
             /\ \A kind \in {"jobs", "schedules", "counts"} : Live(v, kind) = {}
<1> DEFINE a == Cancel(u, "jobs")
           b == Cancel(a, "schedules")
           c == Cancel(b, "counts")
           v == [c EXCEPT !.counts = None, !.counted = FALSE]
<1>1. {"jobs", "schedules", "counts"} \subseteq Kinds
  BY DEF Kinds, Tables
<1>2. AppOK(a) /\ AppOK(b) /\ AppOK(c)
  BY <1>1, CancelKeeps
<1>a. a \in Apps /\ b \in Apps /\ {"jobs", "schedules", "counts"} \subseteq Kinds
  BY <1>1, <1>2 DEF AppOK
<1>3. a \in Apps /\ SameFilters(u, a) /\ a.table = u.table /\ Live(a, "jobs") = {}
  BY <1>1, CancelIs DEF AppOK
<1> HIDE DEF a
<1>4. /\ b \in Apps /\ SameFilters(a, b) /\ b.table = a.table /\ Live(b, "schedules") = {}
      /\ Live(b, "jobs") = Live(a, "jobs")
  BY <1>1, <1>a, CancelIs
<1> HIDE DEF b
<1>5. /\ c \in Apps /\ SameFilters(b, c) /\ c.table = b.table /\ Live(c, "counts") = {}
      /\ \A o \in Kinds \ {"counts"} : Live(c, o) = Live(b, o)
  <2>1. "counts" \in Kinds /\ b \in Apps
    BY <1>a
  <2> QED BY <2>1, CancelIs
<1> HIDE DEF c
<1>6. /\ v \in Apps /\ SameFilters(c, v) /\ v.table = c.table /\ v.waiting = c.waiting
      /\ v.requests = c.requests /\ v.counts = None
  BY <1>5 DEF Apps, SameFilters
<1> HIDE DEF v
<1>b. v.selected <= Len(v.types) /\ (v.editing = "schedule" => v.tab = "jobs")
  BY <1>2, <1>6 DEF AppOK, SameFilters
<1>7. AppOK(v) /\ \A kind : Live(v, kind) = Live(c, kind)
  BY <1>2, <1>6, <1>b, OtherChange
<1>8. SameFilters(u, v)
  BY <1>3, <1>4, <1>5, <1>6 DEF SameFilters
<1>9. Invalidate(u) = v
  BY DEF Invalidate, a, b, c, v
<1> QED BY <1>a, <1>3, <1>4, <1>5, <1>6, <1>7, <1>8, <1>9

\* Nothing is left of a table whose requests have been cancelled.
LEMMA ClearRowsIs ==
  ASSUME NEW u, AppOK(u), NEW k \in Tables, Live(u, k) = {}, NEW v, v = ClearRows(u, k)
  PROVE  /\ AppOK(v) /\ SameFilters(u, v) /\ Matches(v, k) /\ v.counts = u.counts
         /\ \A o \in Tables \ {k} : v.table[o] = u.table[o]
         /\ \A kind : Live(v, kind) = Live(u, kind)
<1> DEFINE t == [EmptyTable EXCEPT !.extending = u.table[k].extending]
<1>1. u \in Apps /\ u.table[k].extending \in BOOLEAN
  BY DEF AppOK, Apps, TableRecords
<1>2. /\ t \in TableRecords /\ t.rows = <<>> /\ t.incoming = <<>> /\ t.next = None
      /\ t.pages = 0 /\ t.shownNext = None /\ t.shownPages = 0
  BY <1>1, EmptySeq DEF EmptyTable, TableRecords
<1>3. TableOK(t)
  BY <1>2, TablesAssumption DEF TableOK, Consecutive
<1>4. \A q : TableMatches(t, q)
  BY <1>2 DEF TableMatches, AllAre
<1>5. v = [u EXCEPT !.table[k] = t]
  BY DEF ClearRows, Tables
<1> HIDE DEF t
<1>6. /\ v.counts = u.counts /\ v.table[k] = t
      /\ \A o \in Tables \ {k} : v.table[o] = u.table[o]
  BY <1>1, <1>5 DEF Apps
<1>7. t \in TableRecords /\ \A r \in Live(u, k) : AsksNext(t, r.question, r.page)
  BY <1>2
<1>8. AppOK(v) /\ SameFilters(u, v) /\ \A kind : Live(v, kind) = Live(u, kind)
  BY <1>3, <1>5, <1>7, TableChange
<1>9. Matches(v, k)
  BY <1>4, <1>6, <1>8 DEF Matches
<1> QED BY <1>6, <1>8, <1>9

\* After a reload the table of the tab is new, whatever it was; the other one is to match.
LEMMA ReloadKeeps ==
  ASSUME NEW u, AppOK(u), \A k \in Tables \ {u.tab} : Matches(u, k)
  PROVE  AppOK(Reload(u)) /\ AppFits(Reload(u))
<1> DEFINE v == Invalidate(u)
           w == ClearRows(v, u.tab)
<1>1. /\ AppOK(v) /\ SameFilters(u, v) /\ v.table = u.table /\ v.counts = None
      /\ \A kind \in {"jobs", "schedules", "counts"} : Live(v, kind) = {}
  BY InvalidateIs
<1> HIDE DEF v
<1>2. \A k : Question(v, k) = Question(u, k)
  BY <1>1, SameQuestion
<1>3. \A k \in Tables \ {u.tab} : Matches(v, k)
  BY <1>1, <1>2 DEF Matches, Tables
<1>4. CountsMatch(v)
  BY <1>1 DEF CountsMatch
<1>5. AppOK(w) /\ AppFits(w)
  <2>1. CASE u.tab = "executors"
    <3>1. w = v
      BY <2>1 DEF ClearRows
    <3> QED BY <1>1, <1>3, <1>4, <2>1, <3>1 DEF AppFits, Tables
  <2>2. CASE u.tab \in Tables
    <3>1. /\ AppOK(w) /\ SameFilters(v, w) /\ Matches(w, u.tab) /\ w.counts = v.counts
          /\ \A o \in Tables \ {u.tab} : w.table[o] = v.table[o]
          /\ \A kind : Live(w, kind) = Live(v, kind)
      BY <1>1, <2>2, ClearRowsIs DEF Tables
    <3>2. \A k : Question(w, k) = Question(v, k)
      BY <3>1, SameQuestion
    <3>3. \A k \in Tables : Matches(w, k)
      BY <1>3, <3>1, <3>2 DEF Matches
    <3>4. CountsMatch(w)
      BY <1>4, <3>1, <3>2 DEF CountsMatch
    <3> QED BY <3>1, <3>3, <3>4 DEF AppFits
  <2>3. u.tab \in Tables \cup {"executors"}
    BY DEF AppOK, Apps, Tabs
  <2> QED BY <2>1, <2>2, <2>3
<1>6. Reload(u) = Fetch(w, TRUE)
  <2>1. v.tab = u.tab
    BY <1>1 DEF SameFilters
  <2> QED BY <2>1 DEF Reload, v
<1> QED BY <1>5, <1>6, FetchKeeps

\* With another type nothing is left to match.
LEMMA ReloadJobTypeKeeps ==
  ASSUME NEW u, AppOK(u)
  PROVE  AppOK(ReloadJobType(u)) /\ AppFits(ReloadJobType(u))
<1> DEFINE v == Invalidate(u)
           a == ClearRows(v, "jobs")
           b == ClearRows(a, "schedules")
           w == [b EXCEPT !.settling = TRUE]
<1>1. /\ AppOK(v) /\ v.counts = None
      /\ \A kind \in {"jobs", "schedules", "counts"} : Live(v, kind) = {}
  BY InvalidateIs
<1> HIDE DEF v
<1>2. /\ AppOK(a) /\ Matches(a, "jobs") /\ a.counts = v.counts
      /\ \A kind : Live(a, kind) = Live(v, kind)
  BY <1>1, ClearRowsIs DEF Tables
<1> HIDE DEF a
<1>3. /\ AppOK(b) /\ SameFilters(a, b) /\ Matches(b, "schedules") /\ b.counts = v.counts
      /\ b.table["jobs"] = a.table["jobs"]
      /\ \A kind : Live(b, kind) = Live(v, kind)
  BY <1>1, <1>2, ClearRowsIs DEF Tables
<1> HIDE DEF b
<1>4. Matches(b, "jobs")
  BY <1>2, <1>3, SameQuestion DEF Matches
<1>5. /\ w \in Apps /\ w.table = b.table /\ w.waiting = b.waiting /\ w.requests = b.requests
      /\ w.counts = b.counts /\ w.selected = b.selected /\ w.types = b.types
      /\ w.editing = b.editing /\ w.tab = b.tab /\ w.filter = b.filter /\ w.schedule = b.schedule
  BY <1>3 DEF AppOK, Apps
<1>6. AppOK(w) /\ \A kind : Live(w, kind) = Live(b, kind)
  BY <1>3, <1>5, OtherChange DEF AppOK
<1>7. \A k : Question(w, k) = Question(b, k)
  BY <1>5 DEF Question, SelectedType
<1>8. \A k \in Tables : Matches(w, k)
  BY <1>3, <1>4, <1>5, <1>6, <1>7 DEF Matches, Tables
<1>9. CountsMatch(w)
  BY <1>1, <1>3, <1>5, <1>6 DEF CountsMatch
<1>10. ReloadJobType(u) = w
  BY DEF ReloadJobType, v, a, b
<1> QED BY <1>6, <1>8, <1>9, <1>10 DEF AppFits

LEMMA JobTypeSelectedKeeps ==
  ASSUME NEW u, AppOK(u)
  PROVE  AppOK(JobTypeSelected(u)) /\ AppFits(JobTypeSelected(u))
<1> DEFINE v == [u EXCEPT !.schedule = None, !.input = ""]
<1>1. u \in Apps
  BY DEF AppOK
<1>2. /\ v \in Apps /\ v.table = u.table /\ v.waiting = u.waiting /\ v.requests = u.requests
      /\ v.selected = u.selected /\ v.types = u.types /\ v.editing = u.editing /\ v.tab = u.tab
  BY <1>1 DEF Apps
<1> HIDE DEF v
<1>a. v.selected <= Len(v.types) /\ (v.editing = "schedule" => v.tab = "jobs")
  BY <1>2 DEF AppOK
<1>3. AppOK(v)
  BY <1>2, <1>a, OtherChange
<1> QED BY <1>3, ReloadJobTypeKeeps DEF JobTypeSelected, v

-----------------------------------------------------------------------------
(* Scrolling and answers *)

\* The rows shown become those that are extended; the refresh in flight is given up.
LEMMA ToShownRowsKeeps ==
  ASSUME NEW u, AppOK(u), NEW v, v = ToShownRows(u)
  PROVE  AppOK(v) /\ SameFilters(u, v) /\ (AppFits(u) => AppFits(v))
<1>1. CASE "jobs" \in u.waiting /\ ~u.table["jobs"].extending
  <2> DEFINE w == Cancel(u, "jobs")
             t == [w.table["jobs"] EXCEPT !.incoming = u.table["jobs"].rows,
                                          !.next = u.table["jobs"].shownNext,
                                          !.pages = u.table["jobs"].shownPages,
                                          !.extending = TRUE]
  <2>1. "jobs" \in Kinds /\ "jobs" \in Tables /\ u \in Apps /\ u.table["jobs"] \in TableRecords
    BY DEF Kinds, Tables, AppOK, Apps
  <2>2. AppOK(w) /\ (AppFits(u) => AppFits(w))
    BY <2>1, CancelKeeps
  <2>3. w \in Apps /\ SameFilters(u, w) /\ w.table = u.table /\ Live(w, "jobs") = {}
    BY <2>1, CancelIs
  <2>4. v = [w EXCEPT !.table["jobs"] = t]
    BY <1>1 DEF ToShownRows
  <2> HIDE DEF w
  <2>5. /\ t \in TableRecords /\ t.rows = u.table["jobs"].rows
        /\ t.incoming = u.table["jobs"].rows /\ t.next = u.table["jobs"].shownNext
        /\ t.pages = u.table["jobs"].shownPages
        /\ t.shownNext = u.table["jobs"].shownNext /\ t.shownPages = u.table["jobs"].shownPages
    BY <2>1, <2>3 DEF TableRecords
  <2> HIDE DEF t
  <2>6. TableOK(t)
    BY <2>1, <2>5 DEF AppOK, TableOK
  <2>7. \A q : TableMatches(u.table["jobs"], q) => TableMatches(t, q)
    BY <2>5 DEF TableMatches
  <2>8. AppFits(w) => Typing(w, "jobs") \/ TableMatches(t, Question(w, "jobs"))
    BY <2>1, <2>3, <2>7 DEF AppFits, Matches
  <2>9. \A r \in Live(w, "jobs") : AsksNext(t, r.question, r.page)
    BY <2>3
  <2>10. AppOK(v) /\ SameFilters(w, v) /\ (AppFits(w) => AppFits(v))
    BY <2>1, <2>2, <2>4, <2>5, <2>6, <2>8, <2>9, TableChange
  <2> QED BY <2>2, <2>3, <2>10 DEF SameFilters
<1>2. CASE ~("jobs" \in u.waiting /\ ~u.table["jobs"].extending)
  BY <1>2 DEF ToShownRows, SameFilters
<1> QED BY <1>1, <1>2

LEMMA LoadMoreKeeps ==
  ASSUME NEW u, AppOK(u), NEW k \in Tables, NEW w, w = LoadMore(u, k)
  PROVE  AppOK(w) /\ (AppFits(u) => AppFits(w))
<1> DEFINE v == IF k = "jobs" THEN ToShownRows(u) ELSE u
           next == v.table[k].next
<1>1. AppOK(v) /\ (AppFits(u) => AppFits(v))
  BY ToShownRowsKeeps
<1>2. w = IF next = None \/ k \in v.waiting THEN v ELSE Start(v, k, next.question, next.page)
  BY DEF LoadMore
<1> HIDE DEF v
<1>3. CASE next = None \/ k \in v.waiting
  BY <1>1, <1>2, <1>3
<1>4. CASE ~(next = None \/ k \in v.waiting)
  <2>1. v \in Apps /\ v.table[k] \in TableRecords /\ k \in Kinds /\ k # "counts"
    BY <1>1 DEF AppOK, Apps, Kinds, Tables
  <2>2. next \in PageRows /\ next.question \in Questions /\ next.page \in Nat
    BY <1>4, <2>1 DEF TableRecords, PageRows
  <2>3. AsksNext(v.table[k], next.question, next.page)
    BY <1>1, <1>4, <2>2 DEF AppOK, TableOK, AsksNext
  <2>4. AppFits(v) => Typing(v, k) \/ next.question = Question(v, k)
    BY <1>4 DEF AppFits, Matches, TableMatches
  <2> HIDE DEF next
  <2>5. w = Start(v, k, next.question, next.page)
    BY <1>2, <1>4
  <2>6. AppOK(w)
    BY <1>1, <2>1, <2>2, <2>3, <2>5, StartKeeps
  <2>7. AppFits(v) => AppFits(w)
    BY <2>1, <2>2, <2>4, <2>5, StartFits
  <2> QED BY <1>1, <2>6, <2>7
<1> QED BY <1>3, <1>4

\* A request that is answered, fails or is aborted; who waits for it no longer does.
EndedWith(u, r, W) == [u EXCEPT !.requests = @ \ {r}, !.waiting = W]
Ended(u, r) == EndedWith(u, r, u.waiting \ {r.kind})

LEMMA RequestEnds ==
  ASSUME NEW u, AppOK(u), NEW r \in u.requests,
         NEW W, W = u.waiting \ {r.kind} \/ (W = u.waiting /\ ~r.live),
         NEW v, v = EndedWith(u, r, W)
  PROVE  /\ AppOK(v) /\ SameFilters(u, v) /\ v.table = u.table /\ v.counts = u.counts
         /\ \A kind : Live(v, kind) \subseteq Live(u, kind)
         /\ r.live => Live(v, r.kind) = {}
         /\ AppFits(u) => AppFits(v)
<1>1. u \in Apps /\ r \in Requests /\ r.kind \in Kinds
  BY DEF AppOK, Apps, Requests
<1>2. /\ v \in Apps /\ SameFilters(u, v) /\ v.table = u.table /\ v.counts = u.counts
      /\ v.waiting = W /\ v.requests = u.requests \ {r}
  BY <1>1 DEF Apps, SameFilters, EndedWith
<1>3. \A kind : Live(v, kind) = Live(u, kind) \ {r}
  BY <1>2 DEF Live
<1>4. \A kind : ~r.live \/ kind # r.kind => Live(v, kind) = Live(u, kind)
  BY <1>3 DEF Live
<1>5. r.live => Live(v, r.kind) = {}
  <2>1. r.live => r \in Live(u, r.kind)
    BY DEF Live
  <2> QED BY <1>1, <1>3, <2>1 DEF AppOK
<1>6. AppOK(v)
  <2>1. \A k \in Tables : /\ TableOK(v.table[k])
                          /\ \A s \in Live(v, k) : AsksNext(v.table[k], s.question, s.page)
    BY <1>2, <1>3 DEF AppOK
  <2>2. \A other \in Kinds : \A s, t \in Live(v, other) : s = t
    BY <1>3 DEF AppOK
  <2>3. \A other \in v.waiting : Live(v, other) # {}
    BY <1>2, <1>4 DEF AppOK
  <2>4. v.selected <= Len(v.types) /\ (v.editing = "schedule" => v.tab = "jobs")
    BY <1>2 DEF AppOK, SameFilters
  <2> QED BY <1>2, <2>1, <2>2, <2>3, <2>4 DEF AppOK
<1>7. ASSUME AppFits(u) PROVE AppFits(v)
  <2>1. \A k : Question(v, k) = Question(u, k) /\ (Typing(v, k) <=> Typing(u, k))
    BY <1>2, SameQuestion
  <2>2. ASSUME NEW k \in Tables, ~Typing(v, k) PROVE Matches(v, k)
    BY <1>2, <1>3, <1>7, <2>1, <2>2 DEF AppFits, Matches
  <2>3. ASSUME ~Typing(v, "jobs") PROVE CountsMatch(v)
    BY <1>2, <1>3, <1>7, <2>1, <2>3 DEF AppFits, CountsMatch
  <2> QED BY <2>2, <2>3 DEF AppFits
<1> QED BY <1>2, <1>3, <1>5, <1>6, <1>7

LEMMA AnswerEnds ==
  ASSUME NEW u, AppOK(u), NEW r \in u.requests
  PROVE  /\ AppOK(Ended(u, r)) /\ SameFilters(u, Ended(u, r)) /\ Ended(u, r).table = u.table
         /\ Ended(u, r).counts = u.counts
         /\ r.live => Live(Ended(u, r), r.kind) = {}
         /\ AppFits(u) => AppFits(Ended(u, r))
BY RequestEnds DEF Ended

\* Page p of q and what is next.
IsPage(q, p, page, next) ==
  /\ page = <<>> \/ page = <<[question |-> q, page |-> p]>>
  /\ next # None => /\ page # <<>> /\ p < MaxPages
                    /\ next = [question |-> q, page |-> p + 1]

Extended(t, p, page) == IF p = 1 THEN page ELSE t.incoming \o page
Counted(t, p) == IF p = 1 THEN 1 ELSE t.pages + 1

\* The pages that have come, and the one that comes.
LEMMA PageFollows ==
  ASSUME NEW t \in TableRecords, TableOK(t), NEW q, NEW p \in Nat, AsksNext(t, q, p),
         NEW page, NEW next, IsPage(q, p, page, next),
         NEW incoming, incoming = Extended(t, p, page), NEW pages, pages = Counted(t, p)
  PROVE  /\ incoming \in Seq(PageRows) /\ Consecutive(incoming)
         /\ pages \in Nat /\ pages <= MaxPages /\ next \in PageRows \cup {None}
         /\ next # None => Follows(incoming, pages, next.question, next.page)
         /\ AllAre(t.incoming, q) => AllAre(incoming, q)
<1> DEFINE row == [question |-> q, page |-> p]
<1>1. q \in Questions /\ row \in PageRows /\ row.page = p /\ row.question = q
  BY DEF AsksNext, PageRows
<1>2. next \in PageRows \cup {None} /\ (next # None => next.question = q /\ next.page = p + 1)
  BY <1>1 DEF PageRows, IsPage
<1>a. next # None => page # <<>> /\ p < MaxPages
  BY DEF IsPage
<1>b. page = <<>> \/ page = <<row>>
  BY DEF IsPage
<1> HIDE DEF row
<1>3. page = <<>> \/ page = <<row>>
  BY <1>b
<1>4. CASE p = 1
  <2>1. incoming = page /\ pages = 1
    BY <1>4 DEF Extended, Counted
  <2>2. CASE page = <<>>
    <3>1. incoming \in Seq(PageRows) /\ Len(incoming) = 0 /\ next = None
      BY <1>a, <2>1, <2>2, EmptySeq
    <3>2. 1 <= MaxPages
      BY TablesAssumption
    <3> QED BY <1>2, <2>1, <3>1, <3>2 DEF Consecutive, AllAre
  <2>3. CASE page = <<row>>
    <3>1. incoming \in Seq(PageRows) /\ Len(incoming) = 1 /\ incoming[1] = row
      <4>1. <<row>> \in Seq(PageRows) /\ Len(<<row>>) = 1 /\ <<row>>[1] = row
        BY <1>1
      <4> QED BY <2>1, <2>3, <4>1
    <3>2. next # None => Follows(incoming, pages, next.question, next.page)
      <4> SUFFICES ASSUME next # None
                   PROVE  Follows(incoming, pages, next.question, next.page)
        OBVIOUS
      <4>1. 1 < MaxPages /\ MaxPages \in Nat
        BY <1>a, <1>4, TablesAssumption
      <4>2. next.question = q /\ next.page = 2
        BY <1>2, <1>4
      <4>3. incoming[1].question = q
        BY <1>1, <3>1
      <4> QED BY <1>a, <2>1, <3>1, <4>1, <4>2, <4>3 DEF Follows
    <3>3. 1 <= MaxPages
      BY TablesAssumption
    <3>4. ASSUME NEW i \in 1..Len(incoming) PROVE i = 1
      <4>1. Len(incoming) = 1
        BY <3>1
      <4> QED BY ONLY <4>1, i \in 1..Len(incoming)
    <3>5. Consecutive(incoming) /\ AllAre(incoming, q)
      BY <1>1, <1>4, <3>1, <3>4 DEF Consecutive, AllAre
    <3> QED BY <1>2, <2>1, <3>1, <3>2, <3>3, <3>5
  <2> QED BY <1>3, <2>2, <2>3
<1>5. CASE p # 1
  <2>1. /\ Len(t.incoming) > 0 /\ p = Len(t.incoming) + 1 /\ p <= MaxPages
        /\ q = t.incoming[1].question /\ t.pages = Len(t.incoming)
    BY <1>5 DEF AsksNext, Follows
  <2>2. t.incoming \in Seq(PageRows) /\ Consecutive(t.incoming)
    BY DEF TableRecords, TableOK
  <2>3. incoming = t.incoming \o page /\ pages = p
    BY <1>5, <2>1, <2>2 DEF Extended, Counted
  <2>4. CASE page = <<>>
    <3>1. incoming = t.incoming
      BY <2>2, <2>3, <2>4, ConcatEmptySeq
    <3> QED BY <1>2, <1>a, <2>1, <2>2, <2>3, <2>4, <3>1
  <2>5. CASE page = <<row>>
    <3>1. /\ incoming \in Seq(PageRows) /\ Len(incoming) = p /\ incoming[p] = row
          /\ \A i \in 1..Len(t.incoming) : incoming[i] = t.incoming[i]
      <4>1. page \in Seq(PageRows) /\ Len(page) = 1 /\ page[1] = row
        BY <1>1, <2>5
      <4>2. incoming = t.incoming \o page /\ Len(t.incoming) \in Nat
        BY <2>2, <2>3
      <4> HIDE DEF row
      <4>3. /\ incoming \in Seq(PageRows) /\ Len(incoming) = Len(t.incoming) + Len(page)
            /\ \A i \in 1..(Len(t.incoming) + Len(page)) :
                 incoming[i] = IF i <= Len(t.incoming) THEN t.incoming[i]
                               ELSE page[i - Len(t.incoming)]
        BY ONLY <2>2, <4>1, <4>2, ConcatProperties
      <4>4. Len(incoming) = p /\ p \in 1..(Len(t.incoming) + 1)
        BY <2>1, <4>1, <4>2, <4>3
      <4>5. \A i \in 1..Len(t.incoming) : incoming[i] = t.incoming[i]
        BY <4>1, <4>2, <4>3
      <4>6. p - Len(t.incoming) = 1 /\ ~(p <= Len(t.incoming))
        BY ONLY <2>1, <4>2
      <4>7. incoming[p] = page[1]
        BY <4>1, <4>3, <4>4, <4>6
      <4> QED BY <4>1, <4>3, <4>4, <4>5, <4>7
    <3>2. incoming[1] = t.incoming[1]
      BY <2>1, <2>2, <3>1
    <3>3. \A i \in 1..Len(incoming) : i \in 1..Len(t.incoming) \/ i = p
      BY <2>1, <2>2, <3>1
    <3>4. Consecutive(incoming)
      BY <1>1, <2>1, <2>2, <3>1, <3>2, <3>3 DEF Consecutive
    <3>5. next # None => Follows(incoming, pages, next.question, next.page)
      BY <1>2, <1>a, <2>1, <2>2, <2>3, <3>1, <3>2, TablesAssumption DEF Follows
    <3>6. AllAre(t.incoming, q) => AllAre(incoming, q)
      BY <1>1, <3>1, <3>3 DEF AllAre
    <3> QED BY <1>2, <2>1, <2>3, <3>1, <3>4, <3>5, <3>6
  <2> QED BY <1>3, <2>4, <2>5
<1> QED BY <1>4, <1>5

LEMMA PagesAre ==
  ASSUME NEW r \in Requests, NEW a \in Pages(r)
  PROVE  IsPage(r.question, r.page, a.page, a.next)
<1>1. r.page \in Nat
  BY DEF Requests
<1>2. <<[question |-> r.question, page |-> r.page]>> # <<>>
  OBVIOUS
<1>3. ASSUME NEW x \in {r.page} \cap 1..(MaxPages - 1) PROVE r.page < MaxPages
  BY <1>1, TablesAssumption
<1> QED BY <1>2, <1>3 DEF Pages, IsPage

\* A page is put behind those that have come, and may be shown; or the next is asked for.
LEMMA PageKeeps ==
  ASSUME NEW u, AppOK(u), NEW k \in Tables, NEW r \in Live(u, k), NEW a \in Pages(r),
         NEW v, v = PageArrives([u EXCEPT !.requests = @ \ {r}], r, a.page, a.next)
  PROVE  AppOK(v) /\ (AppFits(u) => AppFits(v))
<1> DEFINE t == u.table[k]
           incoming == Extended(t, r.page, a.page)
           pages == Counted(t, r.page)
           more == pages < AutoPages /\ a.next # None
           shown == ~more \/ IF k = "jobs" THEN Len(t.rows) <= Len(incoming) ELSE t.rows = <<>>
           arrived == [t EXCEPT !.incoming = incoming, !.pages = pages, !.next = a.next]
           after == IF shown
                    THEN [arrived EXCEPT !.rows = incoming, !.extending = TRUE,
                                         !.shownNext = a.next, !.shownPages = pages]
                    ELSE arrived
           w == Ended(u, r)
           x == [w EXCEPT !.table[k] = after]
<1>1. /\ u \in Apps /\ t \in TableRecords /\ TableOK(t) /\ r \in u.requests /\ r \in Requests
      /\ r.kind = k /\ r.live /\ AsksNext(t, r.question, r.page) /\ r.page \in Nat
  BY DEF AppOK, Apps, Live, Requests
<1>2. /\ AppOK(w) /\ SameFilters(u, w) /\ w.table = u.table
      /\ Live(w, k) = {} /\ (AppFits(u) => AppFits(w))
  BY <1>1, AnswerEnds
<1>3. [[u EXCEPT !.requests = @ \ {r}] EXCEPT !.waiting = @ \ {k}, !.table[k] = after] = x
  BY <1>1 DEF Apps, Ended, EndedWith
<1>4. v = IF more THEN LoadMore(x, k) ELSE x
  BY <1>1, <1>3 DEF PageArrives, Apps, Extended, Counted
<1>5. /\ incoming \in Seq(PageRows) /\ Consecutive(incoming)
      /\ pages \in Nat /\ pages <= MaxPages /\ a.next \in PageRows \cup {None}
      /\ a.next # None => Follows(incoming, pages, a.next.question, a.next.page)
      /\ AllAre(t.incoming, r.question) => AllAre(incoming, r.question)
  <2>1. IsPage(r.question, r.page, a.page, a.next)
    BY <1>1, PagesAre
  <2> HIDE DEF t
  <2> QED BY <1>1, <2>1, PageFollows
<1>6. a.next # None => a.next.question = r.question
  <2>1. a.next # None => a.next = [question |-> r.question, page |-> r.page + 1]
    BY <1>1, PagesAre DEF IsPage
  <2> QED BY <2>1
<1> HIDE DEF w, x, incoming, pages, more, shown
<1>7. /\ after \in TableRecords /\ after.incoming = incoming /\ after.next = a.next
      /\ after.pages = pages
      /\ \/ /\ after.rows = incoming /\ after.shownNext = a.next /\ after.shownPages = pages
         \/ /\ after.rows = t.rows /\ after.shownNext = t.shownNext
            /\ after.shownPages = t.shownPages
  <2> HIDE DEF t
  <2>1. CASE shown
    BY <1>1, <1>5, <2>1 DEF TableRecords
  <2>2. CASE ~shown
    BY <1>1, <1>5, <2>2 DEF TableRecords
  <2> QED BY <2>1, <2>2
<1> HIDE DEF after
<1>8. TableOK(after)
  BY <1>1, <1>5, <1>7 DEF TableOK
<1>9. TableMatches(t, r.question) => TableMatches(after, r.question)
  BY <1>5, <1>6, <1>7 DEF TableMatches
<1>10. AppFits(u) => Typing(w, k) \/ TableMatches(after, Question(w, k))
  <2>1. Question(w, k) = Question(u, k) /\ (Typing(w, k) <=> Typing(u, k))
    BY <1>2, SameQuestion
  <2>2. AppFits(u) /\ ~Typing(u, k) => r.question = Question(u, k) /\ TableMatches(t, r.question)
    BY DEF AppFits, Matches
  <2> QED BY <1>9, <2>1, <2>2
<1>11. AppOK(x) /\ (AppFits(u) => AppFits(x))
  <2>1. \A s \in Live(w, k) : AsksNext(after, s.question, s.page)
    BY <1>2
  <2>2. x = [w EXCEPT !.table[k] = after]
    BY DEF x
  <2>3. AppOK(x) /\ (AppFits(w) /\ (Typing(w, k) \/ TableMatches(after, Question(w, k))) => AppFits(x))
    BY <1>2, <1>7, <1>8, <2>1, <2>2, TableChange
  <2> QED BY <1>2, <1>10, <2>3
<1> QED BY <1>4, <1>11, LoadMoreKeeps

\* The list of types: the selection follows its type, or everything is reloaded.
LEMMA JobTypesKeep ==
  ASSUME NEW u, AppOK(u), NEW r \in u.requests, r.kind = "job_types",
         NEW types \in TypeLists,
         NEW v, v = JobTypesArrive([u EXCEPT !.requests = @ \ {r}], types)
  PROVE  AppOK(v) /\ (AppFits(u) => AppFits(v))
<1> DEFINE s == [u EXCEPT !.requests = @ \ {r}]
           w == Ended(u, r)
           x == [w EXCEPT !.types = types]
           type == SelectedType(u)
           At(i) == [x EXCEPT !.selected = i]
<1>1. /\ u \in Apps /\ types \in TypeLists \cup {<<>>} /\ u.selected \in Nat
      /\ types \in Seq(AllTypes) /\ Len(types) \in Nat
  <2>1. types \in Seq(AllTypes)
    BY TypesAre
  <2>2. u \in Apps /\ u.selected \in Nat
    BY DEF AppOK, Apps
  <2> QED BY <2>1, <2>2
<1>2. /\ AppOK(w) /\ SameFilters(u, w) /\ w.table = u.table /\ w.counts = u.counts
      /\ AppFits(u) => AppFits(w)
  BY AnswerEnds
<1>3. v = IF type = None THEN x
          ELSE IF type \in Range(types)
          THEN At(CHOOSE i \in 1..Len(types) : types[i] = type)
          ELSE JobTypeSelected(At(0))
  <2>1. [s EXCEPT !.waiting = @ \ {"job_types"}, !.types = types] = x
    BY <1>1 DEF Apps, Ended, EndedWith
  <2>2. SelectedType(s) = type
    BY <1>1 DEF SelectedType, Apps
  <2>3. JobTypesArrive(s, types) =
          IF SelectedType(s) = None THEN [s EXCEPT !.waiting = @ \ {"job_types"}, !.types = types]
          ELSE IF SelectedType(s) \in Range(types)
          THEN [[s EXCEPT !.waiting = @ \ {"job_types"}, !.types = types] EXCEPT
                  !.selected = CHOOSE i \in 1..Len(types) : types[i] = SelectedType(s)]
          ELSE JobTypeSelected([[s EXCEPT !.waiting = @ \ {"job_types"}, !.types = types] EXCEPT
                                  !.selected = 0])
    BY DEF JobTypesArrive
  <2> HIDE DEF x, type
  <2> QED BY <2>1, <2>2, <2>3
<1> HIDE DEF w
<1>4. ASSUME NEW i \in 0..Len(types)
      PROVE  /\ AppOK(At(i)) /\ SelectedType(At(i)) = IF i = 0 THEN None ELSE types[i]
             /\ AppFits(u) /\ SelectedType(At(i)) = type => AppFits(At(i))
  <2> DEFINE y == At(i)
  <2>1. w \in Apps /\ i \in Nat /\ i <= Len(types)
    BY <1>1, <1>2 DEF AppOK
  <2>2. /\ y \in Apps /\ y.table = w.table /\ y.waiting = w.waiting /\ y.requests = w.requests
        /\ y.counts = w.counts /\ y.selected = i /\ y.types = types /\ y.editing = w.editing
        /\ y.tab = w.tab /\ y.filter = w.filter /\ y.schedule = w.schedule
    BY <1>1, <2>1 DEF Apps
  <2> HIDE DEF y
  <2>3. y.selected <= Len(y.types) /\ (y.editing = "schedule" => y.tab = "jobs")
    BY <1>2, <2>1, <2>2 DEF AppOK
  <2>4. AppOK(y) /\ \A kind : Live(y, kind) = Live(w, kind)
    BY <1>2, <2>2, <2>3, OtherChange
  <2>5. SelectedType(y) = IF i = 0 THEN None ELSE types[i]
    BY <2>2 DEF SelectedType
  <2>6. ASSUME AppFits(u), SelectedType(y) = type PROVE AppFits(y)
    <3>1. SelectedType(w) = type /\ AppFits(w)
      BY <1>2, <2>6, SameQuestion
    <3>2. \A k : Question(y, k) = Question(w, k) /\ (Typing(y, k) <=> Typing(w, k))
      BY <2>2, <2>6, <3>1 DEF Question, Typing
    <3> QED BY <2>2, <2>4, <3>1, <3>2 DEF AppFits, Matches, CountsMatch
  <2>7. At(i) = y
    BY DEF y
  <2> QED BY <2>4, <2>5, <2>6, <2>7
<1>5. CASE type = None
  <2>1. u.selected = 0
    <3>1. u.types \in TypeLists \cup {<<>>} /\ u.selected <= Len(u.types)
      BY <1>1 DEF AppOK, Apps
    <3>2. u.types \in Seq(AllTypes) /\ \A i \in 1..Len(u.types) : u.types[i] # None
      BY <3>1, TypesAre
    <3>3. u.selected # 0 => u.selected \in 1..Len(u.types)
      BY <1>1, <3>1, <3>2
    <3> QED BY <1>5, <3>2, <3>3 DEF SelectedType
  <2>2. x = At(0)
    <3>1. w \in Apps /\ w.selected = 0
      BY <1>2, <2>1 DEF AppOK, SameFilters
    <3> QED BY <3>1 DEF Apps
  <2>3. 0 \in 0..Len(types)
    BY <1>1
  <2> QED BY <1>3, <1>4, <1>5, <2>2, <2>3
<1>6. CASE type # None /\ type \in Range(types)
  <2> DEFINE i == CHOOSE i \in 1..Len(types) : types[i] = type
  <2>1. \E j \in 1..Len(types) : types[j] = type
    BY <1>1, <1>6 DEF Range
  <2>2. i \in 1..Len(types) /\ types[i] = type
    BY <2>1
  <2>3. v = At(i)
    BY <1>3, <1>6
  <2> HIDE DEF i
  <2>4. i \in 0..Len(types) /\ i # 0
    BY <1>1, <2>2
  <2> HIDE DEF At, type
  <2> QED BY <1>4, <2>2, <2>3, <2>4
<1>7. CASE type # None /\ type \notin Range(types)
  <2>1. v = JobTypeSelected(At(0)) /\ AppOK(At(0))
    <3>1. 0 \in 0..Len(types)
      BY <1>1
    <3> QED BY <1>3, <1>4, <1>7, <3>1
  <2> HIDE DEF At
  <2> QED BY <2>1, JobTypeSelectedKeeps
<1> QED BY <1>5, <1>6, <1>7

-----------------------------------------------------------------------------
(* The actions *)

TablesInv == AppOK(app) /\ AppFits(app)

\* The filters of the tab that is reloaded may change, of the other table they stay.
LEMMA FilterChange ==
  ASSUME NEW u, AppOK(u), AppFits(u), NEW v \in Apps,
         v.table = u.table, v.waiting = u.waiting, v.requests = u.requests,
         v.types = u.types, v.selected = u.selected, v.editing = "schedule" => v.tab = "jobs",
         \A k \in Tables \ {v.tab} :
           ~Typing(u, k) /\ v.filter[k] = u.filter[k] /\ (k = "jobs" => v.schedule = u.schedule)
  PROVE  AppOK(Reload(v)) /\ AppFits(Reload(v))
<1>1. v.selected <= Len(v.types)
  BY DEF AppOK
<1>2. AppOK(v) /\ \A kind : Live(v, kind) = Live(u, kind)
  BY <1>1, OtherChange
<1>3. ASSUME NEW k \in Tables \ {v.tab} PROVE Matches(v, k)
  <2>a. /\ ~Typing(u, k) /\ v.filter[k] = u.filter[k] /\ (k = "jobs" => v.schedule = u.schedule)
        /\ k \in Tables
    BY <1>3
  <2>1. Question(v, k) = Question(u, k)
    BY <2>a DEF Question, SelectedType
  <2>2. Matches(u, k)
    BY <2>a DEF AppFits
  <2> QED BY <1>2, <2>1, <2>2 DEF Matches
<1> QED BY <1>2, <1>3, ReloadKeeps

LEMMA AnswerKeeps ==
  ASSUME TablesInv, NEW r \in app.requests, Answer(r)
  PROVE  TablesInv'
<1> DEFINE s == [app EXCEPT !.requests = @ \ {r}]
<1>1. AppOK(app) /\ AppFits(app) /\ app \in Apps /\ r \in Requests /\ r.kind \in Kinds
  BY DEF TablesInv, AppOK, Apps, Requests
<1>2. CASE ~Accepts(r)
  <2>1. app' = s
    BY <1>2 DEF Answer
  <2>2. s = EndedWith(app, r, app.waiting) /\ ~r.live
    BY <1>1, <1>2 DEF EndedWith, Accepts, Apps
  <2>3. AppOK(s) /\ AppFits(s)
    BY <1>1, <2>2, RequestEnds
  <2> QED BY <2>1, <2>3 DEF TablesInv
<1>3. CASE Accepts(r) /\ r.kind \in Tables
  <2>1. PICK a \in Pages(r) : app' = PageArrives(s, r, a.page, a.next)
    <3>1. r.kind # "counts" /\ r.kind # "job_types"
      BY <1>3 DEF Tables
    <3> QED BY <1>3, <3>1 DEF Answer
  <2>2. r \in Live(app, r.kind)
    BY <1>3 DEF Accepts, Live, Tables
  <2> QED BY <1>1, <1>3, <2>1, <2>2, PageKeeps DEF TablesInv
<1>4. CASE Accepts(r) /\ r.kind = "counts"
  <2> DEFINE w == Ended(app, r)
             v == [w EXCEPT !.counts = r.question]
  <2>1. app' = v
    <3>1. app' = [s EXCEPT !.waiting = @ \ {"counts"}, !.counts = r.question]
      BY <1>4 DEF Answer, Tables
    <3> QED BY <1>1, <1>4, <3>1 DEF Ended, EndedWith, Apps
  <2>2. AppOK(w) /\ AppFits(w) /\ SameFilters(app, w)
    BY <1>1, AnswerEnds
  <2>3. r \in Live(app, "counts") /\ r.question \in Questions \cup {None}
    BY <1>1, <1>4 DEF Accepts, Live, Requests
  <2> HIDE DEF w
  <2>4. /\ v \in Apps /\ SameFilters(w, v) /\ v.table = w.table /\ v.waiting = w.waiting
        /\ v.requests = w.requests /\ v.counts = r.question
    BY <2>2, <2>3 DEF AppOK, Apps, SameFilters
  <2> HIDE DEF v
  <2>5. v.selected <= Len(v.types) /\ (v.editing = "schedule" => v.tab = "jobs")
    BY <2>2, <2>4 DEF AppOK, SameFilters
  <2>6. AppOK(v) /\ \A kind : Live(v, kind) = Live(w, kind)
    BY <2>2, <2>4, <2>5, OtherChange
  <2>7. \A k : /\ Question(v, k) = Question(w, k) /\ (Typing(v, k) <=> Typing(w, k))
               /\ Question(w, k) = Question(app, k) /\ (Typing(w, k) <=> Typing(app, k))
    BY <2>2, <2>4, SameQuestion
  <2>8. ~Typing(app, "jobs") => r.question = Question(app, "jobs")
    BY <1>1, <2>3 DEF AppFits, CountsMatch
  <2>9. AppFits(v)
    BY <2>2, <2>4, <2>6, <2>7, <2>8 DEF AppFits, Matches, CountsMatch
  <2> QED BY <2>1, <2>6, <2>9 DEF TablesInv
<1>5. CASE r.kind = "job_types"
  <2>1. PICK types \in TypeLists : app' = JobTypesArrive(s, types)
    BY <1>5 DEF Answer, Accepts, Tables
  <2> QED BY <1>1, <1>5, <2>1, JobTypesKeep DEF TablesInv
<1> QED BY <1>1, <1>2, <1>3, <1>4, <1>5 DEF Kinds

LEMMA FailKeeps ==
  ASSUME TablesInv, NEW r \in app.requests, Fail(r)
  PROVE  TablesInv'
<1> DEFINE W == IF Accepts(r) THEN app.waiting \ {r.kind} ELSE app.waiting
<1>1. app' = EndedWith(app, r, W)
  BY DEF Fail, EndedWith
<1>2. W = app.waiting \ {r.kind} \/ (W = app.waiting /\ ~r.live)
  BY DEF Accepts
<1> HIDE DEF W
<1> QED BY <1>1, <1>2, RequestEnds DEF TablesInv

LEMMA AbortKeeps ==
  ASSUME TablesInv, NEW r \in app.requests, Abort(r)
  PROVE  TablesInv'
<1>1. app \in Apps
  BY DEF TablesInv, AppOK
<1>2. app' = EndedWith(app, r, app.waiting) /\ ~r.live
  BY <1>1 DEF Abort, EndedWith, Apps
<1> QED BY <1>2, RequestEnds DEF TablesInv

\* A change of the tab, or of the wait after another type.
LEMMA TabChange ==
  ASSUME NEW u, AppOK(u), AppFits(u), NEW v \in Apps,
         v.table = u.table, v.waiting = u.waiting, v.requests = u.requests, v.counts = u.counts,
         v.types = u.types, v.selected = u.selected, v.filter = u.filter,
         v.schedule = u.schedule, v.editing = "schedule" => v.tab = "jobs",
         \A k \in Tables : Typing(u, k) => Typing(v, k)
  PROVE  AppOK(v) /\ AppFits(v)
<1>1. v.selected <= Len(v.types)
  BY DEF AppOK
<1>2. AppOK(v) /\ \A kind : Live(v, kind) = Live(u, kind)
  BY <1>1, OtherChange
<1>3. \A k : Question(v, k) = Question(u, k)
  BY DEF Question, SelectedType
<1>4. AppFits(v)
  BY <1>2, <1>3 DEF AppFits, Matches, CountsMatch, Tables
<1> QED BY <1>2, <1>4

LEMMA TimersKeep ==
  ASSUME TablesInv, Refresh \/ Settle \/ CountsAge \/ Created
  PROVE  TablesInv'
<1>1. app \in Apps /\ AppOK(app) /\ AppFits(app)
  BY DEF TablesInv, AppOK
<1>2. CASE Refresh
  BY <1>1, <1>2, FetchKeeps DEF Refresh, TablesInv
<1>3. CASE Settle
  <2> DEFINE v == [app EXCEPT !.settling = FALSE]
  <2>1. /\ v \in Apps /\ SameFilters(app, [v EXCEPT !.settling = app.settling])
        /\ v.table = app.table /\ v.waiting = app.waiting /\ v.requests = app.requests
        /\ v.counts = app.counts /\ v.types = app.types /\ v.selected = app.selected
        /\ v.filter = app.filter /\ v.schedule = app.schedule
        /\ v.editing = app.editing /\ v.tab = app.tab
    BY <1>1 DEF Apps, SameFilters
  <2>2. app' = Fetch(v, TRUE)
    BY <1>3 DEF Settle
  <2> HIDE DEF v
  <2>3. v.editing = "schedule" => v.tab = "jobs"
    BY <1>1, <2>1 DEF AppOK
  <2>4. \A k \in Tables : Typing(app, k) => Typing(v, k)
    BY <2>1 DEF Typing
  <2>5. AppOK(v) /\ AppFits(v)
    BY <1>1, <2>1, <2>3, <2>4, TabChange
  <2> QED BY <2>2, <2>5, FetchKeeps DEF TablesInv
<1>4. CASE CountsAge
  <2>1. app' = [app EXCEPT !.counted = FALSE]
    BY <1>4 DEF CountsAge
  <2>2. AppOK([app EXCEPT !.counted = FALSE]) /\ AppFits([app EXCEPT !.counted = FALSE])
    BY <1>1, CountedKeeps
  <2> QED BY <2>1, <2>2 DEF TablesInv
<1>5. CASE Created
  <2>1. \A k \in Tables \ {app.tab} : ~Typing(app, k)
    BY DEF Typing
  <2>2. app.editing = "schedule" => app.tab = "jobs"
    BY <1>1 DEF AppOK
  <2>3. AppOK(Reload(app)) /\ AppFits(Reload(app))
    BY <1>1, <2>1, <2>2, FilterChange
  <2> QED BY <1>5, <2>3 DEF Created, TablesInv
<1> QED BY <1>2, <1>3, <1>4, <1>5

LEMMA NavigationKeeps ==
  ASSUME TablesInv,
         (\E to \in Tabs : SwitchTab(to)) \/ RefreshNow \/ Scroll \/ Edit \/ Type
  PROVE  TablesInv'
<1>1. app \in Apps /\ AppOK(app) /\ AppFits(app)
  BY DEF TablesInv, AppOK
<1>2. ASSUME NEW to \in Tabs, SwitchTab(to) PROVE TablesInv'
  <2> DEFINE v == [app EXCEPT !.tab = to]
  <2>1. /\ v \in Apps /\ v.table = app.table /\ v.waiting = app.waiting
        /\ v.requests = app.requests /\ v.counts = app.counts /\ v.types = app.types
        /\ v.selected = app.selected /\ v.filter = app.filter /\ v.schedule = app.schedule
        /\ v.editing = app.editing
    BY <1>1 DEF Apps
  <2>2. app' = Fetch(v, FALSE) /\ app.editing = None
    BY <1>2 DEF SwitchTab, Key
  <2> HIDE DEF v
  <2>3. /\ v.editing # "schedule"
        /\ \A k \in Tables : ~Typing(app, k)
    BY <2>1, <2>2, TablesAssumption DEF Typing
  <2>4. AppOK(v) /\ AppFits(v)
    BY <1>1, <2>1, <2>3, TabChange
  <2> QED BY <2>2, <2>4, FetchKeeps DEF TablesInv
<1>3. CASE RefreshNow
  BY <1>1, <1>3, FetchKeeps DEF RefreshNow, TablesInv
<1>4. CASE Scroll
  <2>1. app' = LoadMore(app, app.tab) /\ app.tab \in Tables
    BY <1>4 DEF Scroll
  <2> QED BY <1>1, <2>1, LoadMoreKeeps DEF TablesInv
<1>5. CASE Edit
  <2>1. PICK what \in {"labels", "schedule"} :
          /\ app' = [app EXCEPT !.editing = what]
          /\ what = "schedule" => app.tab = "jobs"
    BY <1>5 DEF Edit
  <2>2. app.editing = None
    BY <1>5 DEF Edit, Key
  <2>3. /\ app' \in Apps /\ app'.table = app.table /\ app'.waiting = app.waiting
        /\ app'.requests = app.requests /\ app'.counts = app.counts /\ app'.types = app.types
        /\ app'.selected = app.selected /\ app'.filter = app.filter
        /\ app'.schedule = app.schedule /\ app'.tab = app.tab /\ app'.editing = what
    BY <1>1, <2>1 DEF Apps
  <2>4. /\ app'.editing = "schedule" => app'.tab = "jobs"
        /\ \A k \in Tables : ~Typing(app, k)
    BY <2>1, <2>2, <2>3, TablesAssumption DEF Typing
  <2>5. AppOK(app') /\ AppFits(app')
    BY <1>1, <2>3, <2>4, TabChange
  <2> QED BY <2>5 DEF TablesInv
<1>6. ASSUME app.editing = "labels", NEW f \in Filters, app' = [app EXCEPT !.filter[app.tab] = f]
      PROVE  TablesInv'
  <2>1. app.tab \in Tabs /\ app.filter \in [Tabs -> Filters]
    BY <1>1 DEF Apps
  <2>2. /\ app' \in Apps /\ app'.table = app.table /\ app'.waiting = app.waiting
        /\ app'.requests = app.requests /\ app'.counts = app.counts /\ app'.types = app.types
        /\ app'.selected = app.selected /\ app'.schedule = app.schedule
        /\ app'.tab = app.tab /\ app'.editing = app.editing
        /\ app'.filter = [app.filter EXCEPT ![app.tab] = f]
    BY <1>1, <1>6, <2>1 DEF Apps
  <2>3. app'.selected <= Len(app'.types) /\ app'.editing # "schedule"
    BY <1>1, <1>6, <2>2 DEF AppOK
  <2>4. AppOK(app') /\ \A kind : Live(app', kind) = Live(app, kind)
    BY <1>1, <2>2, <2>3, OtherChange
  <2>5. ASSUME NEW k \in Tables, ~Typing(app', k)
        PROVE  ~Typing(app, k) /\ Question(app', k) = Question(app, k)
    <3>1. k # app.tab /\ k \in Tabs
      BY <1>6, <2>2, <2>5 DEF Typing, Tabs
    <3>2. app'.filter[k] = app.filter[k]
      BY <2>1, <2>2, <3>1
    <3> QED BY <2>2, <3>1, <3>2 DEF Typing, Question, SelectedType
  <2>6. AppFits(app')
    BY <1>1, <2>2, <2>4, <2>5 DEF AppFits, Matches, CountsMatch, Tables
  <2> QED BY <2>4, <2>6 DEF TablesInv
<1>7. ASSUME NEW i \in Schedules \cup {"", "invalid"}, app' = [app EXCEPT !.input = i]
      PROVE  TablesInv'
  <2>1. /\ app' \in Apps /\ app'.table = app.table /\ app'.waiting = app.waiting
        /\ app'.requests = app.requests /\ app'.counts = app.counts /\ app'.types = app.types
        /\ app'.selected = app.selected /\ app'.filter = app.filter
        /\ app'.schedule = app.schedule /\ app'.tab = app.tab /\ app'.editing = app.editing
    BY <1>1, <1>7 DEF Apps
  <2>2. /\ app'.editing = "schedule" => app'.tab = "jobs"
        /\ \A k \in Tables : Typing(app, k) => Typing(app', k)
    BY <1>1, <2>1 DEF AppOK, Typing
  <2>3. AppOK(app') /\ AppFits(app')
    BY <1>1, <2>1, <2>2, TabChange
  <2> QED BY <2>3 DEF TablesInv
<1>8. CASE Type
  BY <1>6, <1>7, <1>8 DEF Type
<1> QED BY <1>2, <1>3, <1>4, <1>5, <1>8

LEMMA FiltersKeep ==
  ASSUME TablesInv,
         \/ \E f \in Filters : ChangeFilter(f)
         \/ \E i \in 0..(Len(app.types) + 1) : SelectType(i)
         \/ \E s \in Schedules : ScheduleJobs(s)
         \/ ApplyFilter \/ LeaveFilter
  PROVE  TablesInv'
<1>1. /\ app \in Apps /\ AppOK(app) /\ AppFits(app)
      /\ app.tab \in Tabs /\ app.filter \in [Tabs -> Filters] /\ Tables \subseteq Tabs
      /\ app.schedule \in Schedules \cup {None} /\ app.input \in Schedules \cup {"", "invalid"}
  BY DEF TablesInv, AppOK, Apps, Tabs
\* What is edited and filtered changes in the tab that is reloaded, and there only.
<1>2. ASSUME NEW to \in Tabs, NEW editing \in {None, "labels"}, NEW f \in Filters,
             NEW schedule \in Schedules \cup {None}, NEW i \in Schedules \cup {"", "invalid"},
             schedule = app.schedule \/ to = "jobs",
             \A k \in Tables \ {to} : ~Typing(app, k),
             NEW v, v = [app EXCEPT !.tab = to, !.editing = editing, !.filter[to] = f,
                                    !.schedule = schedule, !.input = i],
             app' = Reload(v)
      PROVE  TablesInv'
  <2>1. /\ v \in Apps /\ v.table = app.table /\ v.waiting = app.waiting
        /\ v.requests = app.requests /\ v.types = app.types
        /\ v.selected = app.selected /\ v.schedule = schedule
        /\ v.tab = to /\ v.editing = editing /\ v.filter = [app.filter EXCEPT ![to] = f]
    BY <1>1, <1>2 DEF Apps
  <2>2. v.editing # "schedule"
    BY <1>2, <2>1, TablesAssumption
  <2>3. \A k \in Tables \ {v.tab} :
          ~Typing(app, k) /\ v.filter[k] = app.filter[k] /\ (k = "jobs" => v.schedule = app.schedule)
    <3> SUFFICES ASSUME NEW k \in Tables \ {to}
                 PROVE  /\ ~Typing(app, k) /\ v.filter[k] = app.filter[k]
                        /\ k = "jobs" => v.schedule = app.schedule
      BY <2>1
    <3>1. k \in Tabs /\ k # to
      BY <1>1
    <3>2. v.filter[k] = app.filter[k]
      BY <1>1, <2>1, <3>1
    <3>3. k = "jobs" => schedule = app.schedule
      BY <1>2, <3>1
    <3> QED BY <1>2, <2>1, <3>2, <3>3
  <2>4. AppOK(Reload(v)) /\ AppFits(Reload(v))
    BY <1>1, <2>1, <2>2, <2>3, FilterChange
  <2> QED BY <1>2, <2>4 DEF TablesInv
<1>a. /\ app.editing = "labels" => \A k \in Tables \ {app.tab} : ~Typing(app, k)
      /\ app.editing # "labels" => \A k \in Tables : ~Typing(app, k)
      /\ app.editing = "schedule" => app.tab = "jobs"
      /\ None # "labels" /\ None # "schedule" /\ NoFilter \in Filters
  BY <1>1, TablesAssumption DEF Typing, AppOK
<1>3. ASSUME NEW f \in Filters, ChangeFilter(f) PROVE TablesInv'
  <2> DEFINE v == [app EXCEPT !.filter[app.tab] = f]
  <2>1. app' = Reload(v) /\ app.editing = None
    BY <1>3 DEF ChangeFilter, Key
  <2>2. v = [app EXCEPT !.tab = app.tab, !.editing = None, !.filter[app.tab] = f,
                        !.schedule = app.schedule, !.input = app.input]
    BY <1>1, <2>1 DEF Apps
  <2> HIDE DEF v
  <2> QED BY <1>1, <1>2, <1>a, <2>1, <2>2
<1>4. ASSUME NEW i \in 0..(Len(app.types) + 1), SelectType(i) PROVE TablesInv'
  <2> DEFINE v == [app EXCEPT !.selected = i]
  <2>1. app' = JobTypeSelected(v) /\ i \in 0..Len(app.types)
    BY <1>4 DEF SelectType
  <2>2. i \in Nat /\ i <= Len(app.types)
    <3>1. Len(app.types) \in Nat
      <4>1. app.types \in TypeLists \cup {<<>>}
        BY <1>1 DEF Apps
      <4>2. app.types \in Seq(AllTypes)
        BY <4>1, TypesAre
      <4> QED BY <4>2
    <3> QED BY <2>1, <3>1
  <2>3. /\ v \in Apps /\ v.table = app.table /\ v.waiting = app.waiting
        /\ v.requests = app.requests /\ v.types = app.types /\ v.selected = i
        /\ v.tab = app.tab /\ v.editing = app.editing
    BY <1>1, <2>2 DEF Apps
  <2> HIDE DEF v
  <2>4. AppOK(v)
    BY <1>1, <1>a, <2>2, <2>3, OtherChange
  <2> QED BY <2>1, <2>4, JobTypeSelectedKeeps DEF TablesInv
<1>5. ASSUME NEW s \in Schedules, ScheduleJobs(s) PROVE TablesInv'
  <2> DEFINE v == [app EXCEPT !.schedule = s, !.input = s, !.tab = "jobs"]
  <2>1. app' = Reload(v) /\ app.editing = None
    BY <1>5 DEF ScheduleJobs, Key
  <2>2. "jobs" \in Tabs /\ app.filter["jobs"] \in Filters
    BY <1>1 DEF Tabs, Tables
  <2>3. v = [app EXCEPT !.tab = "jobs", !.editing = None, !.filter["jobs"] = app.filter["jobs"],
                        !.schedule = s, !.input = s]
    BY <1>1, <2>1 DEF Apps
  <2> HIDE DEF v
  <2> QED BY <1>2, <1>a, <2>1, <2>2, <2>3
<1>6. ASSUME app.editing = "labels", NEW f \in Filters,
             app' = Reload([app EXCEPT !.editing = None, !.filter[app.tab] = f])
      PROVE  TablesInv'
  <2> DEFINE v == [app EXCEPT !.editing = None, !.filter[app.tab] = f]
  <2>1. v = [app EXCEPT !.tab = app.tab, !.editing = None, !.filter[app.tab] = f,
                        !.schedule = app.schedule, !.input = app.input]
    BY <1>1 DEF Apps
  <2>2. app' = Reload(v)
    BY <1>6
  <2> HIDE DEF v
  <2> QED BY <1>1, <1>2, <1>6, <1>a, <2>1, <2>2
<1>7. ASSUME app.editing = "schedule", NEW schedule \in Schedules \cup {None},
             NEW i \in Schedules \cup {"", "invalid"},
             app' = Reload([app EXCEPT !.editing = None, !.input = i, !.schedule = schedule])
      PROVE  TablesInv'
  <2> DEFINE v == [app EXCEPT !.editing = None, !.input = i, !.schedule = schedule]
  <2>1. /\ app.tab = "jobs" /\ app.filter[app.tab] \in Filters
        /\ \A k \in Tables \ {app.tab} : ~Typing(app, k)
    BY <1>1, <1>7, <1>a
  <2>2. v = [app EXCEPT !.tab = app.tab, !.editing = None, !.filter[app.tab] = app.filter[app.tab],
                        !.schedule = schedule, !.input = i]
    BY <1>1 DEF Apps
  <2>3. app' = Reload(v)
    BY <1>7
  <2> HIDE DEF v
  <2> QED BY <1>1, <1>2, <1>7, <2>1, <2>2, <2>3
<1>8. CASE ApplyFilter
  <2>1. CASE app.editing = "labels" /\ app' = Reload([app EXCEPT !.editing = None])
    <3>1. [app EXCEPT !.editing = None] = [app EXCEPT !.editing = None,
                                                      !.filter[app.tab] = app.filter[app.tab]]
      BY <1>1 DEF Apps
    <3>2. app.filter[app.tab] \in Filters
      BY <1>1
    <3> QED BY <1>6, <2>1, <3>1, <3>2
  <2>2. ASSUME app.editing = "schedule", app.input # "invalid",
               app' = Reload([app EXCEPT !.editing = None,
                                         !.schedule = IF app.input = "" THEN None ELSE app.input])
        PROVE  TablesInv'
    <3> DEFINE schedule == IF app.input = "" THEN None ELSE app.input
    <3>1. schedule \in Schedules \cup {None}
      BY <1>1, <2>2
    <3>2. [app EXCEPT !.editing = None, !.schedule = schedule]
            = [app EXCEPT !.editing = None, !.input = app.input, !.schedule = schedule]
      BY <1>1 DEF Apps
    <3>3. app' = Reload([app EXCEPT !.editing = None, !.schedule = schedule])
      BY <2>2
    <3> HIDE DEF schedule
    <3> QED BY <1>1, <1>7, <2>2, <3>1, <3>2, <3>3
  <2> QED BY <1>8, <2>1, <2>2 DEF ApplyFilter
<1>9. CASE LeaveFilter
  BY <1>6, <1>7, <1>9, <1>a DEF LeaveFilter
<1> QED BY <1>3, <1>4, <1>5, <1>8, <1>9

LEMMA InitTables ==
  ASSUME TablesInit
  PROVE  TablesInv
<1> DEFINE u == [tab |-> "jobs", types |-> <<>>, selected |-> 0, settling |-> FALSE,
                 filter |-> [k \in Tabs |-> NoFilter], schedule |-> None, input |-> "",
                 editing |-> None, table |-> [k \in Tables |-> EmptyTable],
                 counts |-> None, counted |-> FALSE, waiting |-> {}, requests |-> {}]
<1>1. /\ EmptyTable \in TableRecords /\ EmptyTable.rows = <<>> /\ EmptyTable.incoming = <<>>
      /\ EmptyTable.next = None /\ EmptyTable.pages = 0 /\ EmptyTable.shownNext = None
      /\ EmptyTable.shownPages = 0
  BY EmptySeq DEF EmptyTable, TableRecords
<1>2. TableOK(EmptyTable)
  BY <1>1, TablesAssumption DEF TableOK, Consecutive
<1>3. u \in Apps
  <2>1. [k \in Tabs |-> NoFilter] \in [Tabs -> Filters] /\ "jobs" \in Tabs
    BY TablesAssumption DEF Tabs, Tables
  <2> QED BY <1>1, <2>1 DEF Apps
<1>4. /\ \A k \in Tables : u.table[k] = EmptyTable
      /\ \A kind : Live(u, kind) = {}
      /\ u.waiting = {} /\ u.selected <= Len(u.types) /\ u.editing # "schedule"
  BY TablesAssumption DEF Live
<1>5. app = Fetch(ReloadJobType(u), TRUE)
  BY DEF TablesInit
<1> HIDE DEF u
<1>6. AppOK(u)
  BY <1>2, <1>3, <1>4 DEF AppOK
<1> QED BY <1>5, <1>6, ReloadJobTypeKeeps, FetchKeeps DEF TablesInv

LEMMA NextTables ==
  ASSUME TablesInv, [TablesNext]_tableVars
  PROVE  TablesInv'
<1>1. CASE Answered
  BY <1>1, AnswerKeeps, FailKeeps, AbortKeeps DEF Answered
<1>2. CASE Refresh \/ Settle \/ CountsAge \/ Created
  BY <1>2, TimersKeep
<1>3. CASE User
  <2>1. \/ (\E to \in Tabs : SwitchTab(to)) \/ RefreshNow \/ Scroll \/ Edit \/ Type
        \/ Created
        \/ \/ \E f \in Filters : ChangeFilter(f)
           \/ \E i \in 0..(Len(app.types) + 1) : SelectType(i)
           \/ \E s \in Schedules : ScheduleJobs(s)
           \/ ApplyFilter \/ LeaveFilter
    BY <1>3 DEF User
  <2> QED BY <1>2, <2>1, NavigationKeeps, FiltersKeep
<1>4. CASE UNCHANGED tableVars
  <2>1. app' = app
    BY <1>4 DEF tableVars
  <2> QED BY <2>1 DEF TablesInv
<1> QED BY <1>1, <1>2, <1>3, <1>4 DEF TablesNext

\* The invariant in the words of TuiTables.
LEMMA TablesAnswer ==
  ASSUME TablesInv
  PROVE  AnswersInPlace
<1>1. app \in Apps /\ AppOK(app) /\ AppFits(app)
  BY DEF TablesInv, AppOK
<1>2. \A k \in Tables : /\ app.table[k] \in TableRecords /\ app.table[k].rows \in Seq(PageRows)
                        /\ app.table[k].incoming \in Seq(PageRows)
  BY <1>1 DEF Apps, TableRecords
<1>3. TablesTypeOK
  <2>1. \A kind \in Kinds : Cardinality({r \in app.requests : r.kind = kind /\ r.live}) <= 1
    <3> SUFFICES ASSUME NEW kind \in Kinds PROVE Cardinality(Live(app, kind)) <= 1
      BY DEF Live
    <3>1. \A r, s \in Live(app, kind) : r = s
      BY <1>1 DEF AppOK
    <3>2. CASE Live(app, kind) = {}
      BY <3>2, FS_EmptySet
    <3>3. ASSUME NEW r \in Live(app, kind) PROVE Cardinality(Live(app, kind)) = 1
      <4>1. Live(app, kind) = {r}
        BY <3>1
      <4> QED BY <4>1, FS_Singleton
    <3> QED BY <3>2, <3>3
  <2>2. app.selected \in 0..Len(app.types)
    <3>1. app.types \in TypeLists \cup {<<>>} /\ app.selected \in Nat /\ app.selected <= Len(app.types)
      BY <1>1 DEF AppOK, Apps
    <3>2. app.types \in Seq(AllTypes)
      BY <3>1, TypesAre
    <3> QED BY <3>1, <3>2
  <2>3. \A k \in Tables : app.table[k].pages \in 0..MaxPages
    <3> SUFFICES ASSUME NEW k \in Tables PROVE app.table[k].pages \in 0..MaxPages
      OBVIOUS
    <3>1. app.table[k].pages \in Nat /\ app.table[k].pages <= MaxPages
      BY <1>1, <1>2 DEF AppOK, TableOK, TableRecords
    <3> QED BY <3>1, TablesAssumption
  <2> QED BY <1>1, <2>1, <2>2, <2>3 DEF TablesTypeOK, Apps
<1>4. RowsMatchFilters
  <2> SUFFICES ASSUME NEW k \in Tables, ~(app.editing = "labels" /\ app.tab = k)
               PROVE  /\ \A row \in Range(app.table[k].rows \o app.table[k].incoming) :
                           row.question = Question(app, k)
                      /\ k = "jobs" => app.counts \in {None, Question(app, k)}
    BY DEF RowsMatchFilters
  <2> DEFINE rows == app.table[k].rows
             incoming == app.table[k].incoming
  <2>1. rows \in Seq(PageRows) /\ incoming \in Seq(PageRows)
    BY <1>2
  <2>2. AllAre(rows, Question(app, k)) /\ AllAre(incoming, Question(app, k))
    BY <1>1 DEF AppFits, Matches, TableMatches, Typing
  <2>3. k = "jobs" => app.counts \in {None, Question(app, k)}
    BY <1>1 DEF AppFits, CountsMatch, Typing
  <2> HIDE DEF rows, incoming
  <2>4. ASSUME NEW row \in Range(rows \o incoming) PROVE row.question = Question(app, k)
    <3>1. PICK i \in DOMAIN (rows \o incoming) : row = (rows \o incoming)[i]
      BY DEF Range
    <3>2. /\ Len(rows) \in Nat /\ Len(incoming) \in Nat
          /\ DOMAIN (rows \o incoming) = 1..(Len(rows) + Len(incoming))
          /\ row = IF i <= Len(rows) THEN rows[i] ELSE incoming[i - Len(rows)]
      BY <2>1, <3>1, ConcatProperties
    <3>3. i \in 1..Len(rows) \/ i - Len(rows) \in 1..Len(incoming)
      BY <3>2
    <3> QED BY <2>2, <3>2, <3>3 DEF AllAre
  <2> QED BY <2>3, <2>4 DEF rows, incoming
<1>5. PagesInOrder
  <2> SUFFICES ASSUME NEW k \in Tables
               PROVE  LET t == app.table[k]
                          Continues(rows, next) == next = None \/
                            (Len(rows) > 0 /\ next = [question |-> rows[1].question, page |-> Len(rows) + 1])
                      IN  /\ Consecutive(t.rows) /\ Consecutive(t.incoming)
                          /\ Continues(t.incoming, t.next) /\ Continues(t.rows, t.shownNext)
    BY DEF PagesInOrder, Consecutive
  <2> DEFINE t == app.table[k]
  <2>1. TableOK(t) /\ t.next \in PageRows \cup {None} /\ t.shownNext \in PageRows \cup {None}
    BY <1>1, <1>2 DEF AppOK, TableRecords
  <2> HIDE DEF t
  <2>2. \A next \in PageRows : next = [question |-> next.question, page |-> next.page]
    BY DEF PageRows
  <2>3. ASSUME t.next # None
        PROVE  /\ Len(t.incoming) > 0
               /\ t.next = [question |-> t.incoming[1].question, page |-> Len(t.incoming) + 1]
    BY <2>1, <2>2, <2>3 DEF TableOK, Follows
  <2>4. ASSUME t.shownNext # None
        PROVE  /\ Len(t.rows) > 0
               /\ t.shownNext = [question |-> t.rows[1].question, page |-> Len(t.rows) + 1]
    BY <2>1, <2>2, <2>4 DEF TableOK, Follows
  <2> QED BY <2>1, <2>3, <2>4 DEF TableOK, t
<1>6. WaitsForSomething
  BY <1>1 DEF AppOK, Live, WaitsForSomething, Apps
<1> QED BY <1>3, <1>4, <1>5, <1>6 DEF AnswersInPlace

\* What a table shows, and what it waits for, are the answers to what was asked last,
\* page after page.
THEOREM TablesCorrect == TablesSpec => []AnswersInPlace
<1>1. TablesSpec => []TablesInv
  BY InitTables, NextTables, PTL DEF TablesSpec
<1> QED BY <1>1, TablesAnswer, PTL

-----------------------------------------------------------------------------
(* TuiDialogs *)

\* A creation is that of the form, which is submitting until it is answered; until then
\* nothing is confirmed.
PromptInv ==
  /\ \A c \in creations : form # Nothing /\ form.submitting /\ c.id = form.id
  /\ \A c, d \in creations : c = d
  /\ form # Nothing /\ form.submitting => creations # {}
  /\ confirm # Nothing =>
       /\ creations = {}
       /\ IF form = Nothing THEN confirm.kind = "act"
          ELSE confirm.kind = "create" /\ confirm.id = form.id /\ confirm.text = form.text

\* The steps of the detail views.
ViewStep ==
  \/ \E r \in requests : ExecutorJobsUpdated(r) \/ ExecutorJobsFailed(r) \/ Aborted(r)
  \/ RefreshDetail \/ SettleDetail
  \/ \E t \in Views : ChangeTab(t)
  \/ \E d \in Executors \cup Rows : OpenDetail(d)
  \/ CloseDetail \/ ShowScheduleJobs

\* The steps of forms and confirmations.
FormStep ==
  \/ \E c \in creations : CreationDone(c) \/ CreateFailed(c)
  \/ OpenForm \/ EditForm \/ SubmitForm \/ CloseForm
  \/ ConfirmAction \/ Dismiss \/ RunConfirmedAction

\* What the detail views keep, apart from the bounds of the forms.
ViewsInv ==
  /\ tab \in Views
  /\ detail \in [Views -> Executors \cup Rows \cup {Nothing}]
  /\ detail["executors"] \in Executors \cup {Nothing}
  /\ \A t \in Views \ {"executors"} : detail[t] \in Rows \cup {Nothing}
  /\ waiting \in BOOLEAN /\ (waiting => detail["executors"] # Nothing)
  /\ requests \subseteq [id : Executors, live : BOOLEAN]
  /\ JobsOfDetail
FormsInv ==
  /\ form \in Forms \cup {Nothing} /\ forms \in 0..MaxForms /\ sent \in 0..MaxSent
  /\ \A c \in creations : c.id \in 1..MaxForms
  /\ confirm # Nothing /\ confirm.kind = "create" => confirm.id \in 1..MaxForms

LEMMA DialogsTypes == ViewsInv /\ FormsInv => DialogsTypeOK /\ JobsOfDetail
BY DEF DialogsTypeOK, ViewsInv, FormsInv, Views

\* A request may be superseded, and is otherwise for an executor.
LEMMA RequestsStay ==
  ASSUME NEW S, S \subseteq [id : Executors, live : BOOLEAN], NEW w \in BOOLEAN
  PROVE  {[r EXCEPT !.live = @ /\ ~w] : r \in S} \subseteq [id : Executors, live : BOOLEAN]
<1> SUFFICES ASSUME NEW r \in S
             PROVE  [r EXCEPT !.live = @ /\ ~w] \in [id : Executors, live : BOOLEAN]
  OBVIOUS
<1>1. r = [id |-> r.id, live |-> r.live] /\ r.id \in Executors /\ r.live \in BOOLEAN
  OBVIOUS
<1>2. [r EXCEPT !.live = @ /\ ~w] = [id |-> r.id, live |-> r.live /\ ~w]
  BY <1>1
<1>3. (r.live /\ ~w) \in BOOLEAN
  OBVIOUS
<1> QED BY <1>1, <1>2, <1>3

\* Fetching the jobs of an executor.
LEMMA DetailFetchKeeps ==
  ASSUME ViewsInv, NEW d \in Executors, FetchExecutorJobs(d)
  PROVE  waiting' = TRUE /\ requests' \subseteq [id : Executors, live : BOOLEAN]
<1>1. {[r EXCEPT !.live = @ /\ ~waiting] : r \in requests} \subseteq [id : Executors, live : BOOLEAN]
  BY RequestsStay DEF ViewsInv
<1>2. [id |-> d, live |-> TRUE] \in [id : Executors, live : BOOLEAN]
  OBVIOUS
<1> QED BY <1>1, <1>2 DEF FetchExecutorJobs

LEMMA DetailCancelKeeps ==
  ASSUME ViewsInv, CancelExecutorJobs
  PROVE  waiting' = FALSE /\ requests' \subseteq [id : Executors, live : BOOLEAN]
BY RequestsStay DEF ViewsInv, CancelExecutorJobs

\* What a fetch may change, for the tab and the view it is called with.
LEMMA FetchDetailKeeps ==
  ASSUME ViewsInv, NEW t \in Views, NEW force \in BOOLEAN, FetchDetail(t, detail[t], force)
  PROVE  /\ waiting' \in BOOLEAN /\ (waiting' => detail["executors"] # Nothing)
         /\ requests' \subseteq [id : Executors, live : BOOLEAN]
<1>1. CASE t = "executors" /\ detail[t] # Nothing /\ (force \/ ~waiting)
  <2>1. detail[t] \in Executors
    BY <1>1 DEF ViewsInv
  <2>2. FetchExecutorJobs(detail[t])
    BY <1>1 DEF FetchDetail
  <2> QED BY <1>1, <2>1, <2>2, DetailFetchKeeps
<1>2. CASE ~(t = "executors" /\ detail[t] # Nothing /\ (force \/ ~waiting))
  <2>1. UNCHANGED <<waiting, requests>>
    BY <1>2 DEF FetchDetail
  <2> QED BY <2>1 DEF ViewsInv
<1> QED BY <1>1, <1>2

LEMMA ViewsKept ==
  ASSUME ViewsInv, [DialogsNext]_dialogVars
  PROVE  ViewsInv'
<1> USE IdsAssumption
<1>1. ASSUME NEW r \in requests, ExecutorJobsUpdated(r)
      PROVE  ViewsInv'
  <2>1. r.id \in Executors
    BY DEF ViewsInv
  <2>2. UNCHANGED <<tab, detail>> /\ requests' \subseteq requests
    BY <1>1 DEF ExecutorJobsUpdated
  <2>3. CASE Wanted(r.id)
    <3>1. waiting' = FALSE /\ executorJobs' = r.id
      BY <1>1, <2>3 DEF ExecutorJobsUpdated
    <3>2. tab = "executors"
      BY <2>1, <2>3 DEF ViewsInv, Wanted, Views
    <3> QED BY <2>2, <2>3, <3>1, <3>2 DEF ViewsInv, JobsOfDetail, Wanted
  <2>4. CASE ~Wanted(r.id)
    <3>1. UNCHANGED <<waiting, executorJobs>>
      BY <1>1, <2>4 DEF ExecutorJobsUpdated
    <3> QED BY <2>2, <3>1 DEF ViewsInv, JobsOfDetail
  <2> QED BY <2>3, <2>4
<1>2. ASSUME NEW r \in requests, ExecutorJobsFailed(r) \/ Aborted(r)
      PROVE  ViewsInv'
  <2>1. UNCHANGED <<tab, detail, executorJobs>> /\ requests' \subseteq requests
    BY <1>2 DEF ExecutorJobsFailed, Aborted
  <2>2. waiting' = waiting \/ waiting' = FALSE
    BY <1>2 DEF ExecutorJobsFailed, Aborted
  <2>3. requests' \subseteq [id : Executors, live : BOOLEAN]
    BY <2>1 DEF ViewsInv
  <2>4. CASE waiting' = waiting
    BY <2>1, <2>3, <2>4 DEF ViewsInv, JobsOfDetail
  <2>5. CASE waiting' = FALSE
    BY <2>1, <2>3, <2>5 DEF ViewsInv, JobsOfDetail
  <2> QED BY <2>2, <2>4, <2>5
<1>3. ASSUME RefreshDetail \/ SettleDetail \/ \E c \in creations : CreationDone(c)
      PROVE  ViewsInv'
  <2>1. UNCHANGED <<tab, detail, executorJobs>>
    BY <1>3 DEF RefreshDetail, SettleDetail, CreationDone
  <2>2. tab \in Views /\ \E force \in BOOLEAN : FetchDetail(tab, detail[tab], force)
    BY <1>3 DEF RefreshDetail, SettleDetail, CreationDone, ViewsInv
  <2> QED BY <2>1, <2>2, FetchDetailKeeps DEF ViewsInv, JobsOfDetail
<1>4. ASSUME NEW t \in Views, ChangeTab(t) PROVE ViewsInv'
  <2>1. tab' = t /\ UNCHANGED <<detail, executorJobs>> /\ FetchDetail(t, detail[t], FALSE)
    BY <1>4 DEF ChangeTab
  <2> QED BY <2>1, FetchDetailKeeps DEF ViewsInv, JobsOfDetail
<1>5. ASSUME NEW d \in Executors \cup Rows, OpenDetail(d) PROVE ViewsInv'
  <2>1. /\ detail' = [detail EXCEPT ![tab] = d] /\ tab' = tab
        /\ d \in IF tab = "executors" THEN Executors ELSE Rows
    BY <1>5 DEF OpenDetail
  <2>2. CASE tab = "executors"
    <3>1. FetchExecutorJobs(d) /\ executorJobs' = Nothing /\ d \in Executors
      BY <1>5, <2>1, <2>2 DEF OpenDetail
    <3>2. waiting' = TRUE /\ requests' \subseteq [id : Executors, live : BOOLEAN]
      BY <3>1, DetailFetchKeeps
    <3> QED BY <2>1, <2>2, <3>1, <3>2 DEF ViewsInv, JobsOfDetail, Views
  <2>3. CASE tab # "executors"
    BY <1>5, <2>1, <2>3 DEF OpenDetail, ViewsInv, JobsOfDetail, Views
  <2> QED BY <2>2, <2>3
<1>6. ASSUME CloseDetail PROVE ViewsInv'
  <2>1. /\ detail' = [detail EXCEPT ![tab] = Nothing] /\ UNCHANGED <<tab, executorJobs>>
        /\ CancelExecutorJobs
    BY <1>6 DEF CloseDetail
  <2> QED BY <2>1, DetailCancelKeeps DEF ViewsInv, JobsOfDetail, Views
<1>7. ASSUME ShowScheduleJobs PROVE ViewsInv'
  <2>1. /\ detail' = [detail EXCEPT !["jobs"] = Nothing] /\ tab' = "jobs" /\ UNCHANGED executorJobs
        /\ CancelExecutorJobs
    BY <1>7 DEF ShowScheduleJobs
  <2> QED BY <2>1, DetailCancelKeeps DEF ViewsInv, JobsOfDetail, Views
<1>8. ASSUME \/ \E c \in creations : CreateFailed(c)
             \/ OpenForm \/ EditForm \/ SubmitForm \/ CloseForm
             \/ ConfirmAction \/ Dismiss \/ RunConfirmedAction \/ UNCHANGED dialogVars
      PROVE  ViewsInv'
  <2>1. UNCHANGED details
    BY <1>8 DEF CreateFailed, OpenForm, EditForm, SubmitForm, CloseForm, ConfirmAction,
                Dismiss, RunConfirmedAction, dialogVars
  <2> QED BY <2>1 DEF details, ViewsInv, JobsOfDetail
<1> QED BY <1>1, <1>2, <1>3, <1>4, <1>5, <1>6, <1>7, <1>8 DEF DialogsNext

LEMMA FormsKept ==
  ASSUME FormsInv, [DialogsNext]_dialogVars
  PROVE  FormsInv'
<1> USE IdsAssumption
<1>1. ASSUME ViewStep \/ UNCHANGED dialogVars PROVE FormsInv'
  <2>1. UNCHANGED dialogs
    BY <1>1 DEF ViewStep, ExecutorJobsUpdated, ExecutorJobsFailed, Aborted, RefreshDetail,
                SettleDetail, ChangeTab, OpenDetail, CloseDetail, ShowScheduleJobs, dialogVars
  <2> QED BY <2>1 DEF dialogs, FormsInv
<1>2. ASSUME OpenForm PROVE FormsInv'
  BY <1>2 DEF OpenForm, FormsInv, Forms
<1>3. ASSUME EditForm PROVE FormsInv'
  <2>1. /\ form \in Forms /\ form.text < MaxText /\ form' = [form EXCEPT !.text = @ + 1]
        /\ UNCHANGED <<confirm, forms, sent, creations>>
    BY <1>3 DEF EditForm, FormsInv
  <2>2. form' \in Forms
    BY <2>1 DEF Forms
  <2> QED BY <2>1, <2>2 DEF FormsInv
<1>4. ASSUME SubmitForm PROVE FormsInv'
  <2>1. form \in Forms /\ form.id \in 1..MaxForms /\ UNCHANGED <<forms, sent, creations>>
    BY <1>4 DEF SubmitForm, FormsInv, Forms
  <2>2. \/ form' = [form EXCEPT !.error = Nothing]
        \/ form' = [form EXCEPT !.error = form.id]
    BY <1>4 DEF SubmitForm
  <2>3. form' \in Forms
    BY <2>1, <2>2 DEF Forms
  <2>4. confirm' = confirm \/ confirm'.id = form.id
    BY <1>4 DEF SubmitForm
  <2> QED BY <2>1, <2>3, <2>4 DEF FormsInv
<1>5. ASSUME CloseForm \/ ConfirmAction \/ Dismiss PROVE FormsInv'
  BY <1>5 DEF CloseForm, ConfirmAction, Dismiss, FormsInv
<1>6. ASSUME RunConfirmedAction PROVE FormsInv'
  <2>1. CASE confirm.kind = "act" /\ UNCHANGED <<form, sent, creations>>
    BY <1>6, <2>1 DEF RunConfirmedAction, FormsInv
  <2>2. CASE /\ confirm.kind = "create" /\ sent < MaxSent /\ sent' = sent + 1
             /\ creations' = creations \cup
                  {[number |-> sent, id |-> confirm.id, text |-> confirm.text]}
             /\ form' = Submitting(form)
    <3>1. Submitting(form) \in Forms \cup {Nothing}
      BY DEF Submitting, Forms, FormsInv
    <3>2. confirm.id \in 1..MaxForms
      BY <1>6, <2>2 DEF RunConfirmedAction, FormsInv
    <3>3. \A c \in creations' : c.id \in 1..MaxForms
      BY <2>2, <3>2 DEF FormsInv
    <3>4. confirm' = Nothing /\ forms' = forms /\ sent' \in 0..MaxSent
      BY <1>6, <2>2 DEF RunConfirmedAction, FormsInv
    <3> QED BY <2>2, <3>1, <3>3, <3>4 DEF FormsInv
  <2> QED BY <1>6, <2>1, <2>2 DEF RunConfirmedAction
<1>7. ASSUME NEW c \in creations, CreationDone(c) PROVE FormsInv'
  BY <1>7 DEF CreationDone, FormsInv
<1>8. ASSUME NEW c \in creations, CreateFailed(c) PROVE FormsInv'
  <2>1. c.id \in 1..MaxForms /\ creations' \subseteq creations /\ UNCHANGED <<confirm, forms, sent>>
    BY <1>8 DEF CreateFailed, FormsInv
  <2>2. form' \in Forms \cup {Nothing}
    <3>1. CASE form = Nothing
      BY <1>8, <3>1 DEF CreateFailed
    <3>2. CASE form # Nothing
      <4>1. form \in Forms /\ form' = [form EXCEPT !.submitting = FALSE, !.error = c.id]
        BY <1>8, <3>2 DEF CreateFailed, FormsInv
      <4> QED BY <2>1, <4>1 DEF Forms
    <3> QED BY <3>1, <3>2
  <2> QED BY <2>1, <2>2 DEF FormsInv
<1> QED BY <1>1, <1>2, <1>3, <1>4, <1>5, <1>6, <1>7, <1>8 DEF DialogsNext, ViewStep

\* The steps that leave forms and confirmations alone keep what is said of them.
LEMMA PromptKept ==
  ASSUME ~LeavesForm, ~Modified, FormsInv, PromptInv, [DialogsNext]_dialogVars
  PROVE  PromptInv'
<1> USE IdsAssumption
<1>1. ASSUME ViewStep \/ UNCHANGED dialogVars PROVE PromptInv'
  <2>1. UNCHANGED dialogs
    BY <1>1 DEF ViewStep, ExecutorJobsUpdated, ExecutorJobsFailed, Aborted, RefreshDetail,
                SettleDetail, ChangeTab, OpenDetail, CloseDetail, ShowScheduleJobs, dialogVars
  <2> QED BY <2>1 DEF dialogs, PromptInv
<1>2. ASSUME OpenForm PROVE PromptInv'
  <2>1. form = Nothing /\ confirm' = Nothing /\ creations' = creations /\ form'.submitting = FALSE
    BY <1>2 DEF OpenForm, FreeKey
  <2>2. creations' = {}
    BY <2>1 DEF PromptInv
  <2> QED BY <2>1, <2>2 DEF PromptInv
<1>3. ASSUME EditForm PROVE PromptInv'
  <2>1. /\ form \in Forms /\ confirm' = Nothing /\ creations' = creations
        /\ form' = [form EXCEPT !.text = @ + 1]
    BY <1>3 DEF EditForm, FormsInv
  <2>9. form' \in Forms
    BY <1>3, <2>1 DEF Forms, EditForm
  <2>2. form'.id = form.id /\ form'.submitting = form.submitting /\ form' # Nothing
    BY <2>1, <2>9 DEF Forms
  <2> QED BY <1>3, <2>1, <2>2 DEF PromptInv, EditForm
<1>4. ASSUME SubmitForm PROVE PromptInv'
  <2>1. /\ form \in Forms /\ confirm = Nothing /\ ~form.submitting /\ creations' = creations
        /\ form # Nothing
    BY <1>4 DEF SubmitForm, FormsInv
  <2>2. \E e \in {Nothing, form.id} : form' = [form EXCEPT !.error = e]
    BY <1>4 DEF SubmitForm
  <2>3. /\ form' \in Forms /\ form'.id = form.id /\ form'.text = form.text
        /\ form'.submitting = form.submitting
    BY <2>1, <2>2 DEF Forms
  <2>4. creations = {}
    BY <2>1 DEF PromptInv
  <2>5. confirm' = Nothing \/ confirm' = [kind |-> "create", id |-> form.id, text |-> form.text]
    BY <1>4, <2>1 DEF SubmitForm
  <2> QED BY <2>1, <2>3, <2>4, <2>5 DEF PromptInv
<1>5. ASSUME CloseForm PROVE PromptInv'
  <2>1. /\ confirm' = Nothing /\ form' = Nothing /\ ~form.submitting /\ creations' = creations
        /\ form # Nothing
    BY <1>5 DEF CloseForm
  <2> QED BY <2>1 DEF PromptInv
<1>6. ASSUME ConfirmAction PROVE PromptInv'
  BY <1>6 DEF ConfirmAction, FreeKey, PromptInv
<1>7. ASSUME Dismiss PROVE PromptInv'
  BY <1>7 DEF Dismiss, PromptInv
<1>8. ASSUME RunConfirmedAction PROVE PromptInv'
  <2>1. confirm # Nothing /\ confirm' = Nothing /\ creations = {}
    BY <1>8 DEF RunConfirmedAction, PromptInv
  <2>2. CASE confirm.kind = "act" /\ UNCHANGED <<form, sent, creations>>
    BY <2>1, <2>2 DEF PromptInv
  <2>3. CASE /\ confirm.kind = "create"
             /\ creations' = creations \cup
                  {[number |-> sent, id |-> confirm.id, text |-> confirm.text]}
             /\ form' = Submitting(form)
    <3>1. form \in Forms /\ confirm.id = form.id
      BY <2>1, <2>3 DEF PromptInv, FormsInv
    <3>2. form' = [form EXCEPT !.submitting = TRUE]
      BY <2>3, <3>1 DEF Submitting
    <3>3. form' \in Forms /\ form'.id = form.id /\ form'.submitting
      BY <3>1, <3>2 DEF Forms
    <3> QED BY <2>1, <2>3, <3>1, <3>3 DEF PromptInv
  <2> QED BY <1>8, <2>2, <2>3 DEF RunConfirmedAction
<1>9. ASSUME NEW c \in creations, CreationDone(c) \/ CreateFailed(c) PROVE PromptInv'
  <2>1. form # Nothing /\ form \in Forms /\ confirm = Nothing /\ confirm' = Nothing /\ creations = {c}
    BY <1>9 DEF PromptInv, FormsInv, CreationDone, CreateFailed
  <2>2. creations' = {}
    BY <1>9, <2>1 DEF CreationDone, CreateFailed
  <2>3. form' = Nothing \/ form' = [form EXCEPT !.submitting = FALSE, !.error = c.id]
    BY <1>9, <2>1 DEF CreationDone, CreateFailed
  <2>4. form' = Nothing \/ ~form'.submitting
    BY <2>1, <2>3 DEF Forms
  <2> QED BY <2>1, <2>2, <2>4 DEF PromptInv
<1> QED
  BY <1>1, <1>2, <1>3, <1>4, <1>5, <1>6, <1>7, <1>8, <1>9 DEF DialogsNext, ViewStep

LEMMA DialogsStart == DialogsInit => ViewsInv /\ FormsInv /\ PromptInv
<1> SUFFICES ASSUME DialogsInit PROVE ViewsInv /\ FormsInv /\ PromptInv
  OBVIOUS
<1>1. \A t \in Views : detail[t] = Nothing
  BY DEF DialogsInit
<1>2. ViewsInv
  BY <1>1 DEF DialogsInit, ViewsInv, JobsOfDetail, Views
<1>3. FormsInv
  BY IdsAssumption DEF DialogsInit, FormsInv
<1>4. PromptInv
  BY DEF DialogsInit, PromptInv
<1> QED BY <1>2, <1>3, <1>4

\* Views show what belongs to them, whatever the user does.
THEOREM ViewsCorrect == DialogsSpec => [](DialogsTypeOK /\ JobsOfDetail)
<1>1. DialogsInit => ViewsInv /\ FormsInv
  BY DialogsStart
<1>2. ViewsInv /\ FormsInv /\ [DialogsNext]_dialogVars => (ViewsInv /\ FormsInv)'
  BY ViewsKept, FormsKept
<1> QED BY <1>1, <1>2, DialogsTypes, PTL DEF DialogsSpec

\* Forms and confirmations agree.
THEOREM DialogsCorrect ==
  ASSUME ~LeavesForm, ~Modified
  PROVE  DialogsSpec => []DialogsAgree
<1>1. DialogsInit => ViewsInv /\ FormsInv /\ PromptInv
  BY DialogsStart
<1>2. ViewsInv /\ FormsInv /\ PromptInv /\ [DialogsNext]_dialogVars
        => (ViewsInv /\ FormsInv /\ PromptInv)'
  BY ViewsKept, FormsKept, PromptKept
<1>3. ViewsInv /\ FormsInv /\ PromptInv => DialogsAgree
  <2> SUFFICES ASSUME ViewsInv, FormsInv, PromptInv PROVE DialogsAgree
    OBVIOUS
  <2>1. ConfirmMatchesForm
    BY DEF PromptInv, ConfirmMatchesForm
  <2>2. SubmittingIsCreating
    <3> SUFFICES ASSUME form # Nothing
                 PROVE  form.submitting <=> \E c \in creations : c.id = form.id
      BY DEF SubmittingIsCreating
    <3>1. ASSUME form.submitting PROVE \E c \in creations : c.id = form.id
      BY <3>1 DEF PromptInv
    <3>2. ASSUME NEW c \in creations, c.id = form.id PROVE form.submitting
      BY DEF PromptInv
    <3> QED BY <3>1, <3>2
  <2> QED BY <2>1, <2>2, DialogsTypes DEF DialogsAgree
<1> QED BY <1>1, <1>2, <1>3, PTL DEF DialogsSpec

-----------------------------------------------------------------------------
(* TuiForm: sequences *)

\* A set of numbers has a least one: how what recurs is shown, by its first exception.
LEMMA LeastLength ==
  ASSUME NEW S \in SUBSET Nat, S # {}
  PROVE  \E u \in S : \A v \in S : u <= v
<1> DEFINE R == OpToRel(<, Nat)
<1>1. IsWellFoundedOn(R, Nat)
  BY NatLessThanWellFounded
<1>2. \E u \in S : \A v \in S : <<v, u>> \notin R
  <2> HIDE DEF R
  <2> QED
    BY <1>1, WFMin
<1>3. \A u, v \in S : v < u => <<v, u>> \in R
  BY DEF OpToRel
<1>4. \E u \in S : \A v \in S : ~(v < u)
  BY <1>2, <1>3, Zenon
<1> QED
  BY <1>4

\* An edit of one row, as EditsLocally has it.
Around(before, after, item) ==
  /\ Len(after) >= item - 1
  /\ SubSeq(after, 1, item - 1) = SubSeq(before, 1, item - 1)
  /\ \E last \in {item - 1, item} :
       SubSeq(after, last + 1, Len(after)) = SubSeq(before, item + 1, Len(before))

\* The elements of a part of a sequence.
LEMMA PartIs ==
  ASSUME NEW S, NEW s \in Seq(S), NEW m \in Nat \ {0}, NEW n \in 0..Len(s), m <= n + 1
  PROVE  /\ SubSeq(s, m, n) \in Seq(S) /\ Len(SubSeq(s, m, n)) = n - m + 1
         /\ \A i \in 1..(n - m + 1) : SubSeq(s, m, n)[i] = s[m + i - 1]
<1>1. /\ m \in Int /\ n \in Int /\ \A i \in m..n : s[i] \in S
      /\ (IF m <= n THEN n - m + 1 ELSE 0) = n - m + 1
  BY LenProperties, ElementOfSeq
<1> QED BY <1>1, SubSeqProperties

\* Two parts of sequences are the same if they have the same length and elements.
LEMMA SamePart ==
  ASSUME NEW S, NEW s \in Seq(S), NEW t \in Seq(S), NEW a \in Nat, NEW b \in Nat,
         a <= Len(s), b <= Len(t), Len(s) - a = Len(t) - b,
         \A j \in 1..(Len(s) - a) : s[a + j] = t[b + j]
  PROVE  SubSeq(s, a + 1, Len(s)) = SubSeq(t, b + 1, Len(t))
<1>1. Len(s) \in Nat /\ Len(t) \in Nat
  BY LenProperties
<1> DEFINE n == Len(s) - a
<1>2. n \in Nat /\ Len(s) = a + n /\ Len(t) = b + n
  BY <1>1
<1>5. /\ SubSeq(s, a + 1, Len(s)) \in Seq(S) /\ Len(SubSeq(s, a + 1, Len(s))) = n
      /\ \A i \in 1..n : SubSeq(s, a + 1, Len(s))[i] = s[a + i]
  <2>1. PICK m \in Nat \ {0} : m = a + 1
    OBVIOUS
  <2>2. Len(s) \in 0..Len(s) /\ m <= Len(s) + 1 /\ Len(s) - m + 1 = n
    BY <1>1, <1>2, <2>1
  <2>3. /\ SubSeq(s, m, Len(s)) \in Seq(S) /\ Len(SubSeq(s, m, Len(s))) = n
        /\ \A i \in 1..n : SubSeq(s, m, Len(s))[i] = s[m + i - 1]
    BY <2>2, PartIs
  <2>4. \A i \in 1..n : m + i - 1 = a + i
    BY <1>2, <2>1
  <2> HIDE DEF n
  <2> QED BY <2>1, <2>3, <2>4
<1>6. /\ SubSeq(t, b + 1, Len(t)) \in Seq(S) /\ Len(SubSeq(t, b + 1, Len(t))) = n
      /\ \A i \in 1..n : SubSeq(t, b + 1, Len(t))[i] = t[b + i]
  <2>1. PICK m \in Nat \ {0} : m = b + 1
    OBVIOUS
  <2>2. Len(t) \in 0..Len(t) /\ m <= Len(t) + 1 /\ Len(t) - m + 1 = n
    BY <1>1, <1>2, <2>1
  <2>3. /\ SubSeq(t, m, Len(t)) \in Seq(S) /\ Len(SubSeq(t, m, Len(t))) = n
        /\ \A i \in 1..n : SubSeq(t, m, Len(t))[i] = t[m + i - 1]
    BY <2>2, PartIs
  <2>4. \A i \in 1..n : m + i - 1 = b + i
    BY <1>2, <2>1
  <2> HIDE DEF n
  <2> QED BY <2>1, <2>3, <2>4
<1>7. \A i \in 1..n : s[a + i] = t[b + i]
  OBVIOUS
<1> HIDE DEF n
<1> QED BY <1>5, <1>6, <1>7, SeqEqual

\* The same for the starts of sequences.
LEMMA SameStart ==
  ASSUME NEW S, NEW s \in Seq(S), NEW t \in Seq(S), NEW n \in Nat, n <= Len(s), n <= Len(t),
         \A j \in 1..n : s[j] = t[j]
  PROVE  SubSeq(s, 1, n) = SubSeq(t, 1, n)
<1>1. Len(s) \in Nat /\ Len(t) \in Nat
  BY LenProperties
<1>2. (\A i \in 1..n : s[i] \in S) /\ \A i \in 1..n : t[i] \in S
  BY <1>1, ElementOfSeq
<1>3. /\ 1 \in Int /\ n \in Int /\ n - 1 + 1 = n /\ (IF 1 <= n THEN n - 1 + 1 ELSE 0) = n
      /\ \A i \in 1..n : 1 + i - 1 = i
  OBVIOUS
<1>4. /\ SubSeq(s, 1, n) \in Seq(S) /\ Len(SubSeq(s, 1, n)) = n
      /\ \A i \in 1..n : SubSeq(s, 1, n)[i] = s[i]
  BY <1>2, <1>3, SubSeqProperties
<1>5. /\ SubSeq(t, 1, n) \in Seq(S) /\ Len(SubSeq(t, 1, n)) = n
      /\ \A i \in 1..n : SubSeq(t, 1, n)[i] = t[i]
  BY <1>2, <1>3, SubSeqProperties
<1> QED BY <1>4, <1>5, SeqEqual

\* A row that is there stays, is replaced, or goes; one that is not there comes last.
LEMMA RowKept ==
  ASSUME NEW S, NEW before \in Seq(S), NEW item \in 1..(Len(before) + 1)
  PROVE  Around(before, before, item)
<1>1. Len(before) \in Nat
  BY LenProperties
<1>2. item \in {item - 1, item}
  OBVIOUS
<1>3. Len(before) >= item - 1
  BY <1>1
<1> QED BY <1>2, <1>3 DEF Around

\* A row is replaced.
LEMMA RowReplaced ==
  ASSUME NEW S, NEW before \in Seq(S), NEW item \in 1..Len(before), NEW row \in S
  PROVE  /\ [before EXCEPT ![item] = row] \in Seq(S)
         /\ Len([before EXCEPT ![item] = row]) = Len(before)
         /\ \A j \in 1..Len(before) :
              [before EXCEPT ![item] = row][j] = IF j = item THEN row ELSE before[j]
         /\ Around(before, [before EXCEPT ![item] = row], item)
<1> DEFINE after == [before EXCEPT ![item] = row]
<1>1. /\ after \in Seq(S) /\ Len(after) = Len(before)
      /\ \A j \in 1..Len(before) : after[j] = IF j = item THEN row ELSE before[j]
  BY ExceptSeq
<1>2. Len(before) \in Nat
  BY LenProperties
<1> HIDE DEF after
<1>3. SubSeq(after, 1, item - 1) = SubSeq(before, 1, item - 1)
  <2>1. item - 1 \in Nat /\ item - 1 <= Len(before)
    BY <1>2
  <2>2. \A j \in 1..(item - 1) : after[j] = before[j]
    BY <1>1, <1>2
  <2> QED BY <1>1, <2>1, <2>2, SameStart
<1>4. SubSeq(after, item + 1, Len(after)) = SubSeq(before, item + 1, Len(before))
  <2>1. \A j \in 1..(Len(before) - item) : after[item + j] = before[item + j]
    BY <1>1, <1>2
  <2> QED BY <1>1, <1>2, <2>1, SamePart
<1>5. Around(before, after, item)
  BY <1>1, <1>2, <1>3, <1>4 DEF Around
<1> QED BY <1>1, <1>5 DEF after

\* A row comes after the last.
LEMMA RowAppended ==
  ASSUME NEW S, NEW before \in Seq(S), NEW row \in S
  PROVE  Around(before, Append(before, row), Len(before) + 1)
<1> DEFINE after == Append(before, row)
           n == Len(before)
<1>1. /\ after \in Seq(S) /\ Len(after) = n + 1 /\ \A j \in 1..n : after[j] = before[j]
  BY AppendProperties
<1>2. n \in Nat
  BY LenProperties
<1> HIDE DEF after
<1>3. SubSeq(after, 1, n) = SubSeq(before, 1, n)
  BY <1>1, <1>2, SameStart
<1>4. SubSeq(after, n + 2, n + 1) = <<>> /\ SubSeq(before, n + 2, n) = <<>>
  <2>1. n + 2 \in Int /\ n + 1 \in Int /\ n \in Int /\ n + 1 < n + 2 /\ n < n + 2
    BY <1>2
  <2> QED BY <2>1, SubSeqEmpty
<1>5. n + 1 - 1 = n /\ n + 1 + 1 = n + 2 /\ n + 1 \in {n + 1 - 1, n + 1} /\ n + 1 >= n
  BY <1>2
<1> HIDE DEF n
<1>6. Around(before, after, n + 1)
  BY <1>1, <1>3, <1>4, <1>5 DEF Around, n
<1> QED BY <1>6 DEF n, after

\* A row goes, and those after it move up.
LEMMA RowRemoved ==
  ASSUME NEW S, NEW before \in Seq(S), NEW item \in 1..Len(before)
  PROVE  LET after == RemoveAt(before, item)
         IN  /\ after \in Seq(S) /\ Len(after) = Len(before) - 1
             /\ \A j \in 1..(Len(before) - 1) :
                  after[j] = IF j < item THEN before[j] ELSE before[j + 1]
             /\ Around(before, after, item)
<1> DEFINE n == Len(before)
           first == SubSeq(before, 1, item - 1)
           rest == SubSeq(before, item + 1, n)
           after == RemoveAt(before, item)
<1>1. n \in Nat /\ item \in Nat
  BY LenProperties
<1>2. \A i \in 1..n : before[i] \in S
  BY ElementOfSeq
<1>3. /\ first \in Seq(S) /\ Len(first) = item - 1
      /\ \A i \in 1..(item - 1) : first[i] = before[i]
  <2>1. /\ 1 \in Int /\ item - 1 \in Int /\ \A i \in 1..(item - 1) : before[i] \in S
        /\ item - 1 - 1 + 1 = item - 1 /\ \A i \in 1..(item - 1) : 1 + i - 1 = i
        /\ (IF 1 <= item - 1 THEN item - 1 - 1 + 1 ELSE 0) = item - 1
    BY <1>1, <1>2
  <2> QED BY <2>1, SubSeqProperties
<1>4. /\ rest \in Seq(S) /\ Len(rest) = n - item
      /\ \A i \in 1..(n - item) : rest[i] = before[item + i]
  <2>1. PICK m \in Nat \ {0} : m = item + 1
    BY <1>1
  <2>2. n \in 0..Len(before) /\ m <= n + 1 /\ n - m + 1 = n - item
    BY <1>1, <2>1
  <2>3. /\ SubSeq(before, m, n) \in Seq(S) /\ Len(SubSeq(before, m, n)) = n - item
        /\ \A i \in 1..(n - item) : SubSeq(before, m, n)[i] = before[m + i - 1]
    BY <2>2, PartIs
  <2>4. \A i \in 1..(n - item) : m + i - 1 = item + i
    BY <1>1, <2>1
  <2> QED BY <2>1, <2>3, <2>4
<1>5. after = first \o rest
  BY DEF RemoveAt
<1> HIDE DEF first, rest, after, n
<1>6. /\ after \in Seq(S) /\ Len(after) = item - 1 + (n - item)
      /\ \A i \in 1..(item - 1 + (n - item)) :
           after[i] = IF i <= item - 1 THEN first[i] ELSE rest[i - (item - 1)]
  BY <1>3, <1>4, <1>5, ConcatProperties
<1>7. item <= n
  BY DEF n
<1>8. Len(after) = n - 1
  BY <1>1, <1>6, <1>7
<1>9. ASSUME NEW j \in 1..(n - 1) PROVE after[j] = IF j < item THEN before[j] ELSE before[j + 1]
  <2>1. after[j] = IF j <= item - 1 THEN first[j] ELSE rest[j - (item - 1)]
    BY <1>1, <1>6, <1>7
  <2>2. CASE j < item
    BY <1>1, <1>3, <2>1, <2>2
  <2>3. CASE ~(j < item)
    <3>1. j - (item - 1) \in 1..(n - item) /\ item + (j - (item - 1)) = j + 1
      BY <1>1, <1>7, <2>3
    <3>2. ~(j <= item - 1)
      BY <1>1, <2>3
    <3> QED BY <1>4, <2>1, <2>3, <3>1, <3>2
  <2> QED BY <2>2, <2>3
<1>10. Around(before, after, item)
  <2>1. SubSeq(after, 1, item - 1) = SubSeq(before, 1, item - 1)
    <3>1. item - 1 \in Nat /\ item - 1 <= Len(after) /\ item - 1 <= Len(before)
      BY <1>1, <1>7, <1>8 DEF n
    <3>2. \A j \in 1..(item - 1) : after[j] = before[j]
      BY <1>1, <1>7, <1>9
    <3> QED BY <1>6, <3>1, <3>2, SameStart
  <2>2. SubSeq(after, item - 1 + 1, Len(after)) = SubSeq(before, item + 1, Len(before))
    <3>1. /\ item - 1 \in Nat /\ item - 1 <= Len(after) /\ item <= Len(before)
          /\ Len(after) - (item - 1) = Len(before) - item
      BY <1>1, <1>7, <1>8 DEF n
    <3>2. ASSUME NEW j \in 1..(Len(after) - (item - 1))
          PROVE  after[item - 1 + j] = before[item + j]
      <4>1. item - 1 + j \in 1..(n - 1) /\ ~(item - 1 + j < item) /\ item - 1 + j + 1 = item + j
        BY <1>1, <1>7, <1>8
      <4> QED BY <1>9, <4>1
    <3> QED BY <1>1, <1>6, <3>1, <3>2, SamePart, ZenonT(60)
  <2>3. Len(after) >= item - 1
    BY <1>1, <1>7, <1>8
  <2> QED BY <2>1, <2>2, <2>3 DEF Around
<1> QED BY <1>6, <1>8, <1>9, <1>10 DEF after, n

\* The rows WithoutBlank keeps are a function, so that it has the values it is defined by.
LEMMA KeptIs ==
  ASSUME NEW R, NEW rows \in Seq(R)
  PROVE  \E kept : /\ kept = [i \in 0..Len(rows) |-> IF i = 0 THEN <<>>
                                                    ELSE IF Blank(rows[i]) THEN kept[i - 1]
                                                    ELSE Append(kept[i - 1], rows[i])]
                   /\ WithoutBlank(rows) = kept[Len(rows)]
<1> DEFINE Step(i, out) == IF Blank(rows[i]) THEN out ELSE Append(out, rows[i])
           To(k, g) == g = [i \in 0..k |-> IF i = 0 THEN <<>> ELSE Step(i, g[i - 1])]
<1> HIDE DEF Step
<1>1. ASSUME NEW k \in Nat PROVE \E g : To(k, g)
  <2> DEFINE bad == {n \in Nat : ~\E g : To(n, g)}
  <2> SUFFICES ASSUME bad # {} PROVE FALSE
    OBVIOUS
  <2>1. PICK n \in bad : \A v \in bad : n <= v
    <3> HIDE DEF bad
    <3>1. bad \in SUBSET Nat
      BY DEF bad
    <3> QED BY <3>1, LeastLength
  <2>2. n \in Nat /\ ~\E g : To(n, g)
    BY <2>1
  <2>3. n # 0
    <3>1. To(0, [i \in 0..0 |-> <<>>])
      OBVIOUS
    <3> QED BY <2>2, <3>1
  <2>4. n - 1 \in Nat /\ n - 1 \notin bad
    <3>1. n - 1 \in Nat /\ n - 1 < n
      BY <2>2, <2>3
    <3> HIDE DEF bad
    <3> QED BY <2>1, <2>2, <3>1
  <2>5. PICK g : To(n - 1, g)
    BY <2>4
  <2> DEFINE h == [i \in 0..n |-> IF i = n THEN Step(n, g[n - 1]) ELSE g[i]]
  <2>6. ASSUME NEW i \in 0..n
        PROVE  h[i] = IF i = 0 THEN <<>> ELSE Step(i, h[i - 1])
    <3>1. CASE i = n
      <4>1. n - 1 \in 0..n /\ n - 1 # n
        BY <2>2, <2>4
      <4> QED BY <2>3, <3>1, <4>1
    <3>2. CASE i # n
      <4>1. i \in 0..(n - 1) /\ (i # 0 => i - 1 \in 0..n /\ i - 1 # n)
        BY <2>2, <3>2
      <4>2. g[i] = IF i = 0 THEN <<>> ELSE Step(i, g[i - 1])
        <5> HIDE DEF h
        <5> QED BY <2>5, <4>1
      <4> QED BY <3>2, <4>1, <4>2
    <3> QED BY <3>1, <3>2
  <2>7. To(n, h)
    <3> DEFINE H == [i \in 0..n |-> IF i = 0 THEN <<>> ELSE Step(i, h[i - 1])]
    <3>1. h = [i \in 0..n |-> h[i]]
      OBVIOUS
    <3> HIDE DEF h
    <3>2. \A i \in 0..n : h[i] = H[i]
      BY <2>6
    <3>3. H = [i \in 0..n |-> H[i]]
      OBVIOUS
    <3> HIDE DEF H
    <3>4. h = H
      BY <3>1, <3>2, <3>3
    <3> QED BY <3>4 DEF H
  <2> HIDE DEF h
  <2> QED BY <2>2, <2>7
<1>2. Len(rows) \in Nat
  BY LenProperties
<1> DEFINE kept == CHOOSE g : To(Len(rows), g)
<1>3. To(Len(rows), kept)
  BY <1>1, <1>2
<1>4. WithoutBlank(rows) = kept[Len(rows)]
  BY DEF WithoutBlank, Step
<1> HIDE DEF kept
<1> QED BY <1>3, <1>4 DEF Step

\* The rows that stay are those that are not blank, in their order.
LEMMA WithoutBlankIs ==
  ASSUME NEW R, NEW rows \in Seq(R)
  PROVE  LET after == WithoutBlank(rows)
         IN  /\ after \in Seq(R) /\ BlanksDropped(rows, after)
             /\ \A k \in 1..Len(after) :
                  ~Blank(after[k]) /\ \E j \in 1..Len(rows) : after[k] = rows[j]
<1> DEFINE n == Len(rows)
           Full(i) == {j \in 1..i : ~Blank(rows[j])}
           Chosen(i, out, from) ==
             /\ from \in [1..Len(out) -> Full(i)]
             /\ \A j \in Full(i) : \E k \in 1..Len(out) : from[k] = j
             /\ \A k \in 1..Len(out) : out[k] = rows[from[k]]
             /\ \A k \in 1..Len(out) : \A l \in 1..(k - 1) : from[l] < from[k]
           Good(i, out) == out \in Seq(R) /\ \E from : Chosen(i, out, from)
<1>1. PICK kept : /\ kept = [i \in 0..n |-> IF i = 0 THEN <<>>
                                           ELSE IF Blank(rows[i]) THEN kept[i - 1]
                                           ELSE Append(kept[i - 1], rows[i])]
                  /\ WithoutBlank(rows) = kept[n]
  BY KeptIs
<1>2. n \in Nat /\ DOMAIN rows = 1..n /\ \A i \in 1..n : rows[i] \in R
  BY LenProperties, ElementOfSeq
<1> HIDE DEF n
<1>3. Good(0, kept[0])
  <2>1. kept[0] = <<>> /\ <<>> \in Seq(R) /\ Len(<<>>) = 0
    BY <1>1, <1>2, EmptySeq
  <2>2. Chosen(0, <<>>, [k \in 1..0 |-> 0])
    BY <2>1
  <2> HIDE DEF Chosen
  <2>3. \E from : Chosen(0, <<>>, from)
    BY <2>2
  <2> QED BY <2>1, <2>3
<1>4. ASSUME NEW i \in 1..n, Good(i - 1, kept[i - 1]) PROVE Good(i, kept[i])
  <2> DEFINE old == kept[i - 1]
             m == Len(old)
  <2>1. kept[i] = IF Blank(rows[i]) THEN old ELSE Append(old, rows[i])
    <3>1. i \in 0..n /\ i # 0
      BY <1>2
    <3> HIDE DEF Full
    <3> QED BY <1>1, <3>1, Zenon
  <2>2. i \in Nat /\ i - 1 \in Nat /\ 1..i = (1..(i - 1)) \cup {i} /\ rows[i] \in R
    BY <1>2
  <2>3. old \in Seq(R) /\ m \in Nat
    BY <1>4, LenProperties
  <2>4. PICK from : Chosen(i - 1, old, from)
    BY <1>4
  <2>5. CASE Blank(rows[i])
    <3>1. Full(i) = Full(i - 1)
      BY <2>2, <2>5
    <3> HIDE DEF Full, old
    <3>2. Chosen(i, old, from)
      BY <2>4, <3>1
    <3> QED BY <2>1, <2>3, <2>5, <3>2 DEF old
  <2>6. CASE ~Blank(rows[i])
    <3> DEFINE out == Append(old, rows[i])
               next == [k \in 1..(m + 1) |-> IF k = m + 1 THEN i ELSE from[k]]
    <3>1. Full(i) = Full(i - 1) \cup {i} /\ \A j \in Full(i - 1) : j < i
      BY <2>2, <2>6
    <3>2. /\ out \in Seq(R) /\ Len(out) = m + 1 /\ out[m + 1] = rows[i]
          /\ \A k \in 1..m : out[k] = old[k]
      <4> HIDE DEF old
      <4> QED BY <2>2, <2>3, AppendProperties
    <3>3. /\ from \in [1..m -> Full(i - 1)]
          /\ \A j \in Full(i - 1) : \E k \in 1..m : from[k] = j
          /\ \A k \in 1..m : old[k] = rows[from[k]]
          /\ \A k \in 1..m : \A l \in 1..(k - 1) : from[l] < from[k]
      <4> HIDE DEF Full
      <4> QED BY <2>4
    <3> HIDE DEF Full, out, old, m
    <3>4. /\ m \in Nat /\ 1..(m + 1) = (1..m) \cup {m + 1} /\ m + 1 \notin 1..m
          /\ m + 1 \in 1..(m + 1)
      BY <2>3
    <3>5. next[m + 1] = i /\ \A k \in 1..m : next[k] = from[k]
      BY <3>4
    <3>6. next \in [1..(m + 1) -> Full(i)]
      BY <3>1, <3>3, <3>4
    <3> HIDE DEF next
    <3>7. \A j \in Full(i) : \E k \in 1..(m + 1) : next[k] = j
      BY <3>1, <3>3, <3>4, <3>5
    <3>8. \A k \in 1..(m + 1) : out[k] = rows[next[k]]
      BY <3>2, <3>3, <3>4, <3>5
    <3>9. ASSUME NEW k \in 1..(m + 1), NEW l \in 1..(k - 1) PROVE next[l] < next[k]
      <4>1. l \in 1..m
        BY <3>4
      <4>2. CASE k = m + 1
        <5>1. from[l] \in Full(i - 1)
          BY <3>3, <4>1
        <5> QED BY <3>1, <3>5, <4>1, <4>2, <5>1
      <4>3. CASE k # m + 1
        <5>1. k \in 1..m
          BY <3>4, <4>3
        <5> QED BY <3>3, <3>5, <4>1, <5>1
      <4> QED BY <4>2, <4>3
    <3>10. Chosen(i, out, next)
      BY <3>2, <3>6, <3>7, <3>8, <3>9
    <3> HIDE DEF Chosen
    <3> QED BY <2>1, <2>6, <3>2, <3>10 DEF out
  <2> QED BY <2>5, <2>6
<1>5. Good(n, kept[n])
  <2> DEFINE bad == {i \in 0..n : ~Good(i, kept[i])}
  <2> HIDE DEF Good
  <2> SUFFICES ASSUME bad # {} PROVE FALSE
    BY <1>2
  <2>1. PICK i \in bad : \A v \in bad : i <= v
    <3> HIDE DEF bad
    <3>1. bad \in SUBSET Nat
      BY DEF bad
    <3> QED BY <3>1, LeastLength
  <2>2. i # 0
    BY <1>3, <2>1
  <2>3. i \in 1..n /\ i - 1 \in 0..n
    BY <1>2, <2>1, <2>2
  <2>4. Good(i - 1, kept[i - 1])
    BY <2>1, <2>3
  <2> QED BY <1>4, <2>1, <2>3, <2>4
<1> DEFINE after == WithoutBlank(rows)
<1>6. Good(n, after)
  <2> HIDE DEF Good
  <2> QED BY <1>1, <1>5
<1> HIDE DEF after
<1>7. PICK from : Chosen(n, after, from)
  <2> HIDE DEF Chosen
  <2> QED BY <1>6
<1>8. after \in Seq(R) /\ DOMAIN after = 1..Len(after)
  BY <1>6, LenProperties
<1>9. Full(n) = {j \in DOMAIN rows : ~Blank(rows[j])}
  BY <1>2
<1>10. BlanksDropped(rows, after)
  <2> HIDE DEF Full
  <2>1. from \in [DOMAIN after -> Full(n)] /\ Range(from) = Full(n)
    <3>1. from \in [DOMAIN after -> Full(n)]
      BY <1>7, <1>8
    <3>2. Range(from) \subseteq Full(n)
      BY <3>1 DEF Range
    <3>3. ASSUME NEW j \in Full(n) PROVE j \in Range(from)
      <4>1. PICK k \in DOMAIN after : from[k] = j
        BY <1>7, <1>8
      <4> QED BY <3>1, <4>1 DEF Range
    <3> QED BY <3>1, <3>2, <3>3
  <2>2. \A k \in DOMAIN after : /\ after[k] = rows[from[k]]
                                /\ \A l \in 1..(k - 1) : from[l] < from[k]
    BY <1>7, <1>8
  <2> QED BY <1>9, <2>1, <2>2, Zenon DEF BlanksDropped
<1>11. ASSUME NEW k \in 1..Len(after)
       PROVE  ~Blank(after[k]) /\ \E j \in 1..n : after[k] = rows[j]
  <2>1. from[k] \in 1..n /\ ~Blank(rows[from[k]]) /\ after[k] = rows[from[k]]
    BY <1>7
  <2> QED BY <2>1
<1> QED BY <1>8, <1>10, <1>11 DEF after, n

-----------------------------------------------------------------------------
(* TuiForm: the invariant *)

RowsOfKind(kind) == Seq([1..Cells(kind) -> Seq(Chars)])
FieldRows == UNION {RowsOfKind(kind) : kind \in {"text", "list", "pairs", "bool"}}
Editors ==
  [fields : [DOMAIN FieldKinds -> FieldRows], selected : DOMAIN FieldKinds,
   item : Nat, cell : Nat, cursor : Nat]

\* A text has one row, a checkbox none, and no row of a list or of pairs is empty.
FieldOK(kind, rows) ==
  /\ rows \in RowsOfKind(kind)
  /\ kind = "text" => Len(rows) = 1
  /\ kind = "bool" => Len(rows) = 0
  /\ HasRows(kind) => \A j \in 1..Len(rows) : ~Empty(rows[j])

FieldsOK(f) ==
  /\ f \in Editors
  /\ \A i \in DOMAIN FieldKinds :
       /\ FieldOK(FieldKinds[i], f.fields[i])
       /\ i # f.selected /\ HasRows(FieldKinds[i]) =>
            \A j \in 1..Len(f.fields[i]) : ~Blank(f.fields[i][j])

\* All but where the caret is in its text.
Placed(f) ==
  /\ FieldsOK(f) /\ f.item \in 1..RowsIn(f, f.selected) /\ f.cell \in 1..Cells(Kind(f))

EditorOK(f) == Placed(f) /\ f.cursor \in 0..Len(Active(f))

\* EditsLocally, of any two forms.
Local(f, g) ==
  \A i \in DOMAIN FieldKinds :
    LET before == f.fields[i]
        after == g.fields[i]
    IN  /\ i # f.selected => after = before
        /\ i = f.selected /\ g.selected # i => after = before \/ BlanksDropped(before, after)
        /\ i = f.selected /\ g.selected = i => Around(before, after, f.item)

\* The fields.
LEMMA KindsAre ==
  /\ Len(FieldKinds) \in Nat /\ DOMAIN FieldKinds = 1..Len(FieldKinds) /\ Len(FieldKinds) > 1
  /\ \A i \in DOMAIN FieldKinds : FieldKinds[i] \in {"text", "list", "pairs", "bool"}
<1> DEFINE K == {"text", "list", "pairs", "bool"}
<1>1. FieldKinds \in Seq(K) /\ Len(FieldKinds) > 1
  BY FieldsAssumption
<1> HIDE DEF K
<1>2. Len(FieldKinds) \in Nat /\ DOMAIN FieldKinds = 1..Len(FieldKinds)
  BY <1>1, LenProperties
<1>3. \A i \in 1..Len(FieldKinds) : FieldKinds[i] \in K
  BY <1>1, ElementOfSeq
<1> QED BY <1>1, <1>2, <1>3 DEF K

\* The rows of any field.
LEMMA RowsAre ==
  ASSUME NEW kind \in {"text", "list", "pairs", "bool"}, NEW rows, FieldOK(kind, rows)
  PROVE  /\ rows \in Seq([1..Cells(kind) -> Seq(Chars)]) /\ rows \in FieldRows
         /\ Len(rows) \in Nat /\ DOMAIN rows = 1..Len(rows)
         /\ \A j \in 1..Len(rows) : rows[j] \in [1..Cells(kind) -> Seq(Chars)]
         /\ Cells(kind) \in 1..2 /\ (~HasRows(kind) => Len(rows) <= 1)
<1>1. rows \in Seq([1..Cells(kind) -> Seq(Chars)])
  BY DEF FieldOK, RowsOfKind
<1>2. rows \in FieldRows
  BY <1>1 DEF FieldRows, RowsOfKind
<1>3. Len(rows) \in Nat /\ DOMAIN rows = 1..Len(rows)
  BY <1>1, LenProperties
<1>4. \A j \in 1..Len(rows) : rows[j] \in [1..Cells(kind) -> Seq(Chars)]
  <2> DEFINE R == [1..Cells(kind) -> Seq(Chars)]
  <2> HIDE DEF R
  <2>1. rows \in Seq(R)
    BY <1>1 DEF R
  <2> QED BY <2>1, ElementOfSeq DEF R
<1>5. Cells(kind) \in 1..2 /\ (~HasRows(kind) => Len(rows) <= 1)
  <2>1. Cells(kind) \in 1..2
    BY DEF Cells
  <2>2. ~HasRows(kind) => kind = "text" \/ kind = "bool"
    BY DEF HasRows
  <2>3. (kind = "text" => Len(rows) = 1) /\ (kind = "bool" => Len(rows) = 0)
    BY DEF FieldOK
  <2> QED BY <1>3, <2>1, <2>2, <2>3
<1> QED BY <1>1, <1>2, <1>3, <1>4, <1>5

\* Where the caret is.
LEMMA PlaceIs ==
  ASSUME NEW f, Placed(f)
  PROVE  /\ f.selected \in DOMAIN FieldKinds /\ Kind(f) \in {"text", "list", "pairs", "bool"}
         /\ FieldOK(Kind(f), RowsOf(f)) /\ Len(RowsOf(f)) \in Nat
         /\ RowsIn(f, f.selected) = IF HasRows(Kind(f)) THEN Len(RowsOf(f)) + 1 ELSE 1
         /\ f.item \in 1..(Len(RowsOf(f)) + 1) /\ f.cell \in 1..Cells(Kind(f))
         /\ Active(f) \in Seq(Chars) /\ Len(Active(f)) \in Nat
         /\ Exists(f) => /\ f.item \in 1..Len(RowsOf(f)) /\ Active(f) = Row(f)[f.cell]
                         /\ Row(f) \in [1..Cells(Kind(f)) -> Seq(Chars)]
         /\ ~Exists(f) => /\ f.item = Len(RowsOf(f)) + 1 /\ Active(f) = <<>>
                          /\ Len(Active(f)) = 0 /\ Kind(f) # "text"
<1> DEFINE k == Kind(f)
           rows == RowsOf(f)
<1>1. f.selected \in DOMAIN FieldKinds
  BY DEF Placed, FieldsOK, Editors
<1>2. k \in {"text", "list", "pairs", "bool"}
  BY <1>1, KindsAre DEF Kind
<1>3. FieldOK(k, rows)
  BY <1>1 DEF Placed, FieldsOK, Kind, RowsOf
<1>4. RowsIn(f, f.selected) = IF HasRows(k) THEN Len(rows) + 1 ELSE 1
  BY DEF RowsIn, Kind, RowsOf
<1>5. f.item \in 1..RowsIn(f, f.selected) /\ f.cell \in 1..Cells(k)
  BY DEF Placed
<1>6. /\ Len(rows) \in Nat /\ \A j \in 1..Len(rows) : rows[j] \in [1..Cells(k) -> Seq(Chars)]
      /\ ~HasRows(k) => Len(rows) <= 1
  <2> HIDE DEF k, rows
  <2> QED BY <1>2, <1>3, RowsAre
<1>7. (k = "text" => Len(rows) = 1) /\ (HasRows(k) => k # "text")
  BY <1>3 DEF FieldOK, HasRows
<1>8. Exists(f) <=> f.item <= Len(rows)
  BY DEF Exists
<1>9. Row(f) = rows[f.item] /\ Active(f) = IF Exists(f) THEN Row(f)[f.cell] ELSE <<>>
  BY DEF Row, Active
<1> HIDE DEF k, rows
<1>10. f.item \in 1..(Len(rows) + 1)
  BY <1>4, <1>5, <1>6
<1>11. Exists(f) => /\ f.item \in 1..Len(rows) /\ Active(f) = Row(f)[f.cell]
                    /\ Row(f) \in [1..Cells(k) -> Seq(Chars)]
  BY <1>6, <1>8, <1>9, <1>10
<1>12. ~Exists(f) => f.item = Len(rows) + 1 /\ Active(f) = <<>> /\ Len(Active(f)) = 0 /\ k # "text"
  <2>1. ASSUME ~Exists(f) PROVE f.item = Len(rows) + 1 /\ Active(f) = <<>> /\ k # "text"
    BY <1>4, <1>5, <1>6, <1>7, <1>8, <1>9, <1>10, <2>1
  <2> QED BY <2>1, EmptySeq
<1>13. Active(f) \in Seq(Chars)
  <2>1. CASE Exists(f)
    BY <1>5, <1>11, <2>1
  <2>2. CASE ~Exists(f)
    BY <1>12, <2>2, EmptySeq
  <2> QED BY <2>1, <2>2
<1>14. Len(Active(f)) \in Nat
  BY <1>13, LenProperties
<1> QED BY <1>1, <1>2, <1>3, <1>4, <1>5, <1>6, <1>10, <1>11, <1>12, <1>13, <1>14 DEF k, rows

\* ToEnd leaves all but the caret alone, and the caret is in the text after it.
LEMMA ToEndIs ==
  ASSUME NEW f, Placed(f)
  PROVE  /\ EditorOK(ToEnd(f)) /\ ToEnd(f).fields = f.fields /\ ToEnd(f).selected = f.selected
         /\ ToEnd(f).item = f.item /\ ToEnd(f).cell = f.cell
<1> DEFINE g == ToEnd(f)
           n == Len(Active(f))
<1>1. n \in Nat
  BY PlaceIs
<1>2. f \in Editors
  BY DEF Placed, FieldsOK
<1>3. g = [f EXCEPT !.cursor = n]
  BY DEF ToEnd
<1> HIDE DEF n
<1>4. /\ g \in Editors /\ g.fields = f.fields /\ g.selected = f.selected
      /\ g.item = f.item /\ g.cell = f.cell /\ g.cursor = n
  BY <1>1, <1>2, <1>3 DEF Editors
<1> HIDE DEF g
<1>5. /\ Kind(g) = Kind(f) /\ Active(g) = Active(f) /\ RowsIn(g, g.selected) = RowsIn(f, f.selected)
  BY <1>4 DEF Kind, Active, Exists, Row, RowsOf, RowsIn
<1>6. Placed(g)
  BY <1>4, <1>5 DEF Placed, FieldsOK
<1> QED BY <1>1, <1>4, <1>5, <1>6 DEF EditorOK, g, n

\* A caret that moves within its field changes nothing.
LEMMA SameFieldsLocal ==
  ASSUME NEW f, EditorOK(f), NEW g, g.fields = f.fields
  PROVE  Local(f, g)
<1> SUFFICES ASSUME NEW i \in DOMAIN FieldKinds, i = f.selected
             PROVE  Around(f.fields[i], f.fields[i], f.item)
  BY DEF Local
<1>1. /\ Kind(f) \in {"text", "list", "pairs", "bool"} /\ FieldOK(Kind(f), RowsOf(f))
      /\ f.item \in 1..(Len(RowsOf(f)) + 1) /\ RowsOf(f) = f.fields[i]
  BY PlaceIs DEF EditorOK, RowsOf
<1>2. RowsOf(f) \in Seq([1..Cells(Kind(f)) -> Seq(Chars)])
  BY <1>1, RowsAre
<1> QED BY <1>1, <1>2, RowKept

\* A caret that moves within its field.
LEMMA MovedIs ==
  ASSUME NEW f, EditorOK(f), NEW g \in Editors, g.fields = f.fields, g.selected = f.selected,
         g.item \in 1..RowsIn(f, f.selected), g.cell \in 1..Cells(Kind(f))
  PROVE  Placed(g) /\ Local(f, g)
<1>1. Kind(g) = Kind(f) /\ RowsIn(g, g.selected) = RowsIn(f, f.selected)
  BY DEF Kind, RowsIn
<1>2. Placed(g)
  BY <1>1 DEF EditorOK, Placed, FieldsOK
<1> QED BY <1>2, SameFieldsLocal

-----------------------------------------------------------------------------
(* TuiForm: moving between rows *)

\* A field that is left loses its blank rows.
LEMMA LeaveIs ==
  ASSUME NEW f, EditorOK(f)
  PROVE  LET g == LeaveField(f)
         IN  /\ g \in Editors /\ g.selected = f.selected
             /\ g.item = f.item /\ g.cell = f.cell /\ g.cursor = f.cursor
             /\ \A i \in DOMAIN FieldKinds :
                  /\ FieldOK(FieldKinds[i], g.fields[i])
                  /\ HasRows(FieldKinds[i]) => \A j \in 1..Len(g.fields[i]) : ~Blank(g.fields[i][j])
                  /\ i # f.selected => g.fields[i] = f.fields[i]
                  /\ i = f.selected => \/ g.fields[i] = f.fields[i]
                                       \/ BlanksDropped(f.fields[i], g.fields[i])
<1> DEFINE g == LeaveField(f)
           rows == WithoutBlank(RowsOf(f))
<1>1. /\ f \in Editors /\ f.selected \in DOMAIN FieldKinds /\ FieldOK(Kind(f), RowsOf(f))
      /\ Kind(f) \in {"text", "list", "pairs", "bool"}
  BY PlaceIs DEF EditorOK, Placed, FieldsOK
<1>2. CASE HasRows(Kind(f))
  <2>1. g = [f EXCEPT !.fields = [f.fields EXCEPT ![f.selected] = rows]]
    BY <1>2 DEF LeaveField, RowsOf
  <2> DEFINE R == [1..Cells(Kind(f)) -> Seq(Chars)]
  <2>2. RowsOf(f) \in Seq(R) /\ \A j \in 1..Len(RowsOf(f)) : ~Empty(RowsOf(f)[j])
    BY <1>1, <1>2, RowsAre DEF FieldOK
  <2> HIDE DEF R
  <2>3. /\ rows \in Seq(R) /\ BlanksDropped(RowsOf(f), rows)
        /\ \A k \in 1..Len(rows) :
             ~Blank(rows[k]) /\ \E j \in 1..Len(RowsOf(f)) : rows[k] = RowsOf(f)[j]
    BY <2>2, WithoutBlankIs
  <2> HIDE DEF rows
  <2>4. FieldOK(Kind(f), rows)
    <3>1. \A k \in 1..Len(rows) : ~Empty(rows[k])
      BY <2>2, <2>3
    <3> QED BY <1>2, <2>3, <3>1 DEF FieldOK, HasRows, RowsOfKind, R
  <2>5. rows \in FieldRows
    BY <1>1, <2>4, RowsAre
  <2>6. /\ g \in Editors /\ g.selected = f.selected
        /\ g.item = f.item /\ g.cell = f.cell /\ g.cursor = f.cursor
        /\ g.fields = [f.fields EXCEPT ![f.selected] = rows]
    BY <1>1, <2>1, <2>5 DEF Editors
  <2>7. \A i \in DOMAIN FieldKinds :
          g.fields[i] = IF i = f.selected THEN rows ELSE f.fields[i]
    BY <1>1, <2>6 DEF Editors
  <2> HIDE DEF g
  <2>8. ASSUME NEW i \in DOMAIN FieldKinds
        PROVE  /\ FieldOK(FieldKinds[i], g.fields[i])
               /\ HasRows(FieldKinds[i]) => \A j \in 1..Len(g.fields[i]) : ~Blank(g.fields[i][j])
               /\ i # f.selected => g.fields[i] = f.fields[i]
               /\ i = f.selected => BlanksDropped(f.fields[i], g.fields[i])
    <3>1. CASE i = f.selected
      BY <2>3, <2>4, <2>7, <3>1 DEF Kind, RowsOf
    <3>2. CASE i # f.selected
      BY <2>7, <3>2 DEF EditorOK, Placed, FieldsOK
    <3> QED BY <3>1, <3>2
  <2> QED BY <2>6, <2>8 DEF g
<1>3. CASE ~HasRows(Kind(f))
  <2>1. g = f
    BY <1>3 DEF LeaveField
  <2> HIDE DEF g
  <2> QED BY <1>1, <1>3, <2>1 DEF EditorOK, Placed, FieldsOK, Kind, g
<1> QED BY <1>2, <1>3

\* The field to which the caret goes, whatever row and cell of it.
LEMMA EnteredIs ==
  ASSUME NEW f, EditorOK(f), NEW i \in DOMAIN FieldKinds, i # f.selected,
         NEW h, h = LeaveField(f), NEW item \in Nat \ {0}, item <= RowsIn(h, i),
         NEW g, g = [h EXCEPT !.selected = i, !.item = item, !.cell = 1]
  PROVE  Placed(g) /\ Local(f, g)
<1>1. /\ h \in Editors /\ h.selected = f.selected
      /\ \A k \in DOMAIN FieldKinds :
           /\ FieldOK(FieldKinds[k], h.fields[k])
           /\ HasRows(FieldKinds[k]) => \A j \in 1..Len(h.fields[k]) : ~Blank(h.fields[k][j])
           /\ k # f.selected => h.fields[k] = f.fields[k]
           /\ k = f.selected => \/ h.fields[k] = f.fields[k]
                                \/ BlanksDropped(f.fields[k], h.fields[k])
  BY LeaveIs
<1>2. h \in Editors
  BY <1>1
<1>3. /\ g \in Editors /\ g.fields = h.fields /\ g.selected = i /\ g.item = item /\ g.cell = 1
  BY <1>2 DEF Editors
<1>4. RowsIn(g, g.selected) = RowsIn(h, i)
  BY <1>3 DEF RowsIn
<1>5. item \in 1..RowsIn(h, i)
  <2>1. RowsIn(h, i) \in Nat
    <3>1. FieldKinds[i] \in {"text", "list", "pairs", "bool"} /\ FieldOK(FieldKinds[i], h.fields[i])
      BY <1>1, KindsAre
    <3>2. Len(h.fields[i]) \in Nat
      BY <3>1, RowsAre
    <3> QED BY <3>2 DEF RowsIn
  <2> QED BY <2>1
<1>6. 1 \in 1..Cells(Kind(g))
  BY DEF Cells
<1>7. FieldsOK(g)
  BY <1>1, <1>3 DEF FieldsOK
<1>8. Placed(g)
  BY <1>3, <1>4, <1>5, <1>6, <1>7 DEF Placed
<1>9. Local(f, g)
  BY <1>1, <1>3 DEF Local
<1> QED BY <1>8, <1>9

\* What is local to where the caret goes first is local when it is at the end of the text there.
LEMMA EndsThere ==
  ASSUME NEW f, EditorOK(f), NEW g, Placed(g), Local(f, g)
  PROVE  EditorOK(ToEnd(g)) /\ Local(f, ToEnd(g))
<1>1. /\ EditorOK(ToEnd(g)) /\ ToEnd(g).fields = g.fields /\ ToEnd(g).selected = g.selected
  BY ToEndIs
<1> QED BY <1>1 DEF Local

\* The caret in another row, cell or place of its text.
LEMMA RowIs ==
  ASSUME NEW f, EditorOK(f), NEW item \in 1..RowsIn(f, f.selected), NEW cell \in 1..Cells(Kind(f)),
         NEW g, g = [f EXCEPT !.item = item, !.cell = cell]
  PROVE  Placed(g) /\ Local(f, g)
<1>1. f \in Editors /\ item \in Nat /\ cell \in Nat
  <2>1. RowsIn(f, f.selected) \in Int /\ Cells(Kind(f)) \in Int
    BY PlaceIs DEF EditorOK, Cells
  <2> QED BY <2>1 DEF EditorOK, Placed, FieldsOK
<1>2. g \in Editors /\ g.fields = f.fields /\ g.selected = f.selected /\ g.item = item /\ g.cell = cell
  BY <1>1 DEF Editors
<1> QED BY <1>2, MovedIs

\* The caret in a cell of a pair.
LEMMA CellIs ==
  ASSUME NEW f, Placed(f), Kind(f) = "pairs", NEW cell \in 1..2, NEW g, g = [f EXCEPT !.cell = cell]
  PROVE  Placed(g) /\ g.fields = f.fields /\ g.selected = f.selected
<1>1. f \in Editors /\ cell \in Nat /\ Cells(Kind(f)) = 2
  BY DEF Placed, FieldsOK, Cells
<1>2. g \in Editors /\ g.fields = f.fields /\ g.selected = f.selected /\ g.item = f.item /\ g.cell = cell
  BY <1>1 DEF Editors
<1>3. Kind(g) = Kind(f) /\ RowsIn(g, g.selected) = RowsIn(f, f.selected)
  BY <1>2 DEF Kind, RowsIn
<1> QED BY <1>1, <1>2, <1>3 DEF Placed, FieldsOK

\* The caret in another place of its text.
LEMMA CursorIs ==
  ASSUME NEW f, EditorOK(f), NEW cursor \in 0..Len(Active(f)), NEW g, g = [f EXCEPT !.cursor = cursor]
  PROVE  EditorOK(g) /\ Local(f, g)
<1>1. f \in Editors /\ cursor \in Nat /\ f.item \in 1..RowsIn(f, f.selected) /\ f.cell \in 1..Cells(Kind(f))
  BY PlaceIs DEF EditorOK, Placed, FieldsOK
<1>2. /\ g \in Editors /\ g.fields = f.fields /\ g.selected = f.selected
      /\ g.item = f.item /\ g.cell = f.cell /\ g.cursor = cursor
  BY <1>1 DEF Editors
<1>3. Active(g) = Active(f)
  BY <1>2 DEF Active, Exists, Row, RowsOf
<1>4. Placed(g) /\ Local(f, g)
  BY <1>1, <1>2, MovedIs
<1> QED BY <1>2, <1>3, <1>4 DEF EditorOK

\* SelectNext is in place and local.
LEMMA SelectNextIs ==
  ASSUME NEW f, EditorOK(f)
  PROVE  EditorOK(SelectNext(f)) /\ Local(f, SelectNext(f))
<1>1. CASE f.item < RowsIn(f, f.selected)
  <2>1. PICK g : g = [f EXCEPT !.item = f.item + 1, !.cell = 1]
    OBVIOUS
  <2>2. f.item + 1 \in 1..RowsIn(f, f.selected) /\ 1 \in 1..Cells(Kind(f))
    BY <1>1, PlaceIs DEF EditorOK, Cells
  <2>3. Placed(g) /\ Local(f, g)
    BY <2>1, <2>2, RowIs
  <2>4. SelectNext(f) = ToEnd(g)
    BY <1>1, <2>1 DEF SelectNext
  <2> QED BY <2>3, <2>4, EndsThere
<1>2. CASE ~(f.item < RowsIn(f, f.selected))
  <2>1. PICK i \in DOMAIN FieldKinds : i = (f.selected % Len(FieldKinds)) + 1 /\ i # f.selected
    <3>1. f.selected \in DOMAIN FieldKinds
      BY PlaceIs DEF EditorOK
    <3>2. CASE f.selected = Len(FieldKinds)
      BY <3>1, <3>2, KindsAre
    <3>3. CASE f.selected # Len(FieldKinds)
      BY <3>1, <3>3, KindsAre
    <3> QED BY <3>2, <3>3
  <2>2. PICK h : h = LeaveField(f)
    OBVIOUS
  <2>3. PICK g : g = [h EXCEPT !.selected = i, !.item = 1, !.cell = 1]
    OBVIOUS
  <2>4. 1 <= RowsIn(h, i)
    <3>1. FieldOK(FieldKinds[i], h.fields[i])
      BY <2>2, LeaveIs
    <3>2. Len(h.fields[i]) \in Nat
      BY <3>1, KindsAre, RowsAre
    <3> QED BY <3>2 DEF RowsIn
  <2>5. Placed(g) /\ Local(f, g)
    <3>1. PICK item \in Nat \ {0} : item = 1
      OBVIOUS
    <3>2. item <= RowsIn(h, i) /\ g = [h EXCEPT !.selected = i, !.item = item, !.cell = 1]
      BY <2>3, <2>4, <3>1
    <3> QED BY <2>1, <2>2, <3>2, EnteredIs
  <2>6. SelectNext(f) = ToEnd(g)
    BY <1>2, <2>1, <2>2, <2>3 DEF SelectNext
  <2> QED BY <2>5, <2>6, EndsThere
<1> QED BY <1>1, <1>2

\* SelectPrevious is in place and local.
LEMMA SelectPreviousIs ==
  ASSUME NEW f, EditorOK(f)
  PROVE  EditorOK(SelectPrevious(f)) /\ Local(f, SelectPrevious(f))
<1>1. CASE f.item > 1
  <2>1. PICK g : g = [f EXCEPT !.item = f.item - 1, !.cell = 1]
    OBVIOUS
  <2>2. f.item - 1 \in 1..RowsIn(f, f.selected) /\ 1 \in 1..Cells(Kind(f))
    <3>1. f.item \in 1..RowsIn(f, f.selected) /\ RowsIn(f, f.selected) \in Int
      BY PlaceIs DEF EditorOK, Placed
    <3> QED BY <1>1, <3>1 DEF Cells
  <2>3. Placed(g) /\ Local(f, g)
    BY <2>1, <2>2, RowIs
  <2>4. SelectPrevious(f) = ToEnd(g)
    BY <1>1, <2>1 DEF SelectPrevious
  <2> QED BY <2>3, <2>4, EndsThere
<1>2. CASE ~(f.item > 1)
  <2>1. PICK i \in DOMAIN FieldKinds :
          i = (IF f.selected = 1 THEN Len(FieldKinds) ELSE f.selected - 1) /\ i # f.selected
    <3>1. f.selected \in DOMAIN FieldKinds
      BY PlaceIs DEF EditorOK
    <3>2. DOMAIN FieldKinds = 1..Len(FieldKinds) /\ Len(FieldKinds) \in Nat /\ Len(FieldKinds) > 1
      BY KindsAre
    <3>3. CASE f.selected = 1
      BY <3>2, <3>3
    <3>4. CASE f.selected # 1
      <4>1. f.selected - 1 \in DOMAIN FieldKinds /\ f.selected - 1 # f.selected
        BY <3>1, <3>2, <3>4
      <4> QED BY <3>4, <4>1
    <3> QED BY <3>3, <3>4
  <2>2. PICK h : h = LeaveField(f)
    OBVIOUS
  <2>3. PICK g : g = [h EXCEPT !.selected = i, !.item = RowsIn(h, i), !.cell = 1]
    OBVIOUS
  <2>4. RowsIn(h, i) \in Nat \ {0}
    <3>1. FieldOK(FieldKinds[i], h.fields[i])
      BY <2>2, LeaveIs
    <3>2. Len(h.fields[i]) \in Nat
      BY <3>1, KindsAre, RowsAre
    <3> QED BY <3>2 DEF RowsIn
  <2>5. PICK item \in Nat \ {0} : item = RowsIn(h, i)
    BY <2>4
  <2>6. Placed(g) /\ Local(f, g)
    <3>1. item <= RowsIn(h, i) /\ g = [h EXCEPT !.selected = i, !.item = item, !.cell = 1]
      BY <2>3, <2>5
    <3> QED BY <2>1, <2>2, <3>1, EnteredIs
  <2>7. SelectPrevious(f) = ToEnd(g)
    BY <1>2, <2>1, <2>2, <2>3 DEF SelectPrevious
  <2> QED BY <2>6, <2>7, EndsThere
<1> QED BY <1>1, <1>2

\* The other cell of a pair.
LEMMA OtherCellIs ==
  ASSUME NEW f, EditorOK(f), NEW h, EditorOK(h), Local(f, h), Kind(h) = "pairs",
         NEW cell \in 1..2, NEW g, g = [h EXCEPT !.cell = cell]
  PROVE  EditorOK(ToEnd(g)) /\ Local(f, ToEnd(g))
<1>1. Placed(g) /\ g.fields = h.fields /\ g.selected = h.selected
  BY CellIs DEF EditorOK
<1>2. Local(f, g)
  BY <1>1 DEF Local
<1> QED BY <1>1, <1>2, EndsThere

\* Only pairs have a second cell, and no change is local.
LEMMA CellsOfPairs ==
  ASSUME NEW f, EditorOK(f)
  PROVE  /\ Local(f, f) /\ f.cell \in 1..2 /\ (f.cell = 2 => Kind(f) = "pairs")
<1>1. f.cell \in 1..Cells(Kind(f))
  BY PlaceIs DEF EditorOK
<1> QED BY <1>1, SameFieldsLocal DEF Cells

\* The two moves between cells are in place and local.
LEMMA SelectCellIs ==
  ASSUME NEW f, EditorOK(f), NEW g \in {SelectNextCell(f), SelectPreviousCell(f)}
  PROVE  EditorOK(g) /\ Local(f, g)
<1>1. EditorOK(SelectNextCell(f)) /\ Local(f, SelectNextCell(f))
  <2>1. CASE Kind(f) = "pairs" /\ f.cell = 1
    <3>1. PICK g2 : g2 = [f EXCEPT !.cell = 2]
      OBVIOUS
    <3>2. EditorOK(ToEnd(g2)) /\ Local(f, ToEnd(g2))
      BY <2>1, <3>1, CellsOfPairs, OtherCellIs
    <3>3. SelectNextCell(f) = ToEnd(g2)
      BY <2>1, <3>1 DEF SelectNextCell
    <3> QED BY <3>2, <3>3
  <2>2. CASE ~(Kind(f) = "pairs" /\ f.cell = 1)
    BY <2>2, SelectNextIs DEF SelectNextCell
  <2> QED BY <2>1, <2>2
<1>2. EditorOK(SelectPreviousCell(f)) /\ Local(f, SelectPreviousCell(f))
  <2>1. EditorOK(SelectPrevious(f)) /\ Local(f, SelectPrevious(f))
    BY SelectPreviousIs
  <2>2. CASE f.cell = 2
    <3>1. PICK g2 : g2 = [f EXCEPT !.cell = 1]
      OBVIOUS
    <3>2. EditorOK(ToEnd(g2)) /\ Local(f, ToEnd(g2))
      BY <2>2, <3>1, CellsOfPairs, OtherCellIs
    <3>3. SelectPreviousCell(f) = ToEnd(g2)
      BY <2>2, <3>1 DEF SelectPreviousCell
    <3> QED BY <3>2, <3>3
  <2>3. CASE f.cell # 2 /\ Kind(SelectPrevious(f)) = "pairs"
    <3>1. PICK h : h = SelectPrevious(f)
      OBVIOUS
    <3>2. PICK g2 : g2 = [h EXCEPT !.cell = 2]
      OBVIOUS
    <3>3. EditorOK(ToEnd(g2)) /\ Local(f, ToEnd(g2))
      BY <2>1, <2>3, <3>1, <3>2, OtherCellIs
    <3>4. SelectPreviousCell(f) = ToEnd(g2)
      BY <2>3, <3>1, <3>2 DEF SelectPreviousCell
    <3> QED BY <3>3, <3>4
  <2>4. CASE f.cell # 2 /\ Kind(SelectPrevious(f)) # "pairs"
    BY <2>1, <2>4 DEF SelectPreviousCell
  <2> QED BY <2>2, <2>3, <2>4
<1> QED BY <1>1, <1>2

\* Left and Right are in place and local.
LEMMA LeftRightIs ==
  ASSUME NEW f, EditorOK(f), NEW g \in {Left(f), Right(f)}
  PROVE  EditorOK(g) /\ Local(f, g)
<1>1. f.cursor \in 0..Len(Active(f)) /\ Len(Active(f)) \in Nat
  BY PlaceIs DEF EditorOK
<1>2. EditorOK(Left(f)) /\ Local(f, Left(f))
  <2>1. CASE f.cell = 2 /\ f.cursor = 0
    <3>1. PICK g2 : g2 = [f EXCEPT !.cell = 1]
      OBVIOUS
    <3>2. EditorOK(ToEnd(g2)) /\ Local(f, ToEnd(g2))
      BY <2>1, <3>1, CellsOfPairs, OtherCellIs
    <3>3. Left(f) = ToEnd(g2)
      BY <2>1, <3>1 DEF Left
    <3> QED BY <3>2, <3>3
  <2>2. CASE ~(f.cell = 2 /\ f.cursor = 0)
    <3>1. PICK cursor \in 0..Len(Active(f)) : cursor = IF f.cursor = 0 THEN 0 ELSE f.cursor - 1
      BY <1>1
    <3>2. Left(f) = [f EXCEPT !.cursor = cursor]
      BY <2>2, <3>1 DEF Left
    <3> QED BY <3>2, CursorIs
  <2> QED BY <2>1, <2>2
<1>3. EditorOK(Right(f)) /\ Local(f, Right(f))
  <2>1. CASE Kind(f) = "pairs" /\ f.cell = 1 /\ f.cursor >= Len(Active(f))
    <3>1. PICK h : h = [f EXCEPT !.cell = 2]
      OBVIOUS
    <3>2. Placed(h) /\ h.fields = f.fields /\ h.selected = f.selected
      BY <2>1, <3>1, CellIs DEF EditorOK
    <3>3. PICK g2 : g2 = Right(f)
      OBVIOUS
    <3>4. g2 = [h EXCEPT !.cursor = 0]
      BY <2>1, <3>1, <3>3 DEF Right, Placed, FieldsOK, EditorOK, Editors
    <3>5. h \in Editors
      BY <3>2 DEF Placed, FieldsOK
    <3>6. /\ g2 \in Editors /\ g2.fields = h.fields /\ g2.selected = h.selected
          /\ g2.item = h.item /\ g2.cell = h.cell /\ g2.cursor = 0
      BY <3>4, <3>5 DEF Editors
    <3>7. Kind(g2) = Kind(h) /\ Active(g2) = Active(h) /\ RowsIn(g2, g2.selected) = RowsIn(h, h.selected)
      BY <3>6 DEF Kind, Active, Exists, Row, RowsOf, RowsIn
    <3>8. Placed(g2)
      BY <3>2, <3>6, <3>7 DEF Placed, FieldsOK
    <3>9. Len(Active(g2)) \in Nat
      BY <3>8, PlaceIs
    <3>10. EditorOK(g2) /\ Local(f, g2)
      BY <3>2, <3>6, <3>8, <3>9, SameFieldsLocal DEF EditorOK
    <3> QED BY <3>3, <3>10
  <2>2. CASE ~(Kind(f) = "pairs" /\ f.cell = 1 /\ f.cursor >= Len(Active(f)))
    <3>1. PICK cursor \in 0..Len(Active(f)) :
            cursor = IF f.cursor < Len(Active(f)) THEN f.cursor + 1 ELSE f.cursor
      BY <1>1
    <3>2. Right(f) = [f EXCEPT !.cursor = cursor]
      BY <2>2, <3>1 DEF Right
    <3> QED BY <3>2, CursorIs
  <2> QED BY <2>1, <2>2
<1> QED BY <1>2, <1>3

-----------------------------------------------------------------------------
(* TuiForm: words *)

\* The start of a word is before the caret, and its end is in the text.
LEMMA WordsAre ==
  ASSUME NEW text \in Seq(Chars), NEW cursor \in 0..Len(text)
  PROVE  /\ WordStart(text, cursor) \in 0..cursor
         /\ cursor > 0 => WordStart(text, cursor) < cursor
         /\ WordEnd(text, cursor) \in 0..Len(text)
<1> DEFINE InWord(n) == n \in 1..Len(text) /\ text[n] = "a"
           Starts == {n \in 0..(cursor - 1) : InWord(n + 1) /\ ~InWord(n)}
           Ends == {n \in (cursor + 1)..Len(text) : InWord(n) /\ ~InWord(n + 1)}
<1>1. Len(text) \in Nat
  BY LenProperties
<1>2. Starts \subseteq 0..(cursor - 1) /\ Ends \subseteq (cursor + 1)..Len(text)
  OBVIOUS
<1>3. /\ WordStart(text, cursor)
           = IF Starts = {} THEN 0 ELSE CHOOSE n \in Starts : \A m \in Starts : m <= n
      /\ WordEnd(text, cursor)
           = IF Ends = {} THEN Len(text) ELSE CHOOSE n \in Ends : \A m \in Ends : n <= m
  BY DEF WordStart, WordEnd
<1> HIDE DEF Starts, Ends
<1>4. Starts # {} => (CHOOSE n \in Starts : \A m \in Starts : m <= n) \in Starts
  <2> SUFFICES ASSUME Starts # {} PROVE \E n \in Starts : \A m \in Starts : m <= n
    OBVIOUS
  <2> DEFINE Back == {cursor - n : n \in Starts}
  <2>1. \A n \in Starts : n \in Nat /\ n <= cursor /\ cursor - n \in Back
    BY <1>1, <1>2
  <2>2. Back \in SUBSET Nat /\ Back # {}
    BY <2>1
  <2>3. \A u \in Back : \E n \in Starts : u = cursor - n
    OBVIOUS
  <2> HIDE DEF Back
  <2>4. PICK u \in Back : \A v \in Back : u <= v
    BY <2>2, LeastLength
  <2>5. PICK n \in Starts : u = cursor - n
    BY <2>3
  <2>6. \A m \in Starts : m <= n
    BY <1>1, <2>1, <2>4, <2>5
  <2> QED BY <2>6
<1>5. Ends # {} => (CHOOSE n \in Ends : \A m \in Ends : n <= m) \in Ends
  <2> SUFFICES ASSUME Ends # {} PROVE \E n \in Ends : \A m \in Ends : n <= m
    OBVIOUS
  <2>1. Ends \in SUBSET Nat
    BY <1>1, <1>2
  <2> QED BY <2>1, LeastLength
<1>6. WordStart(text, cursor) \in 0..cursor /\ (cursor > 0 => WordStart(text, cursor) < cursor)
  <2>1. WordStart(text, cursor) = 0 \/ WordStart(text, cursor) \in Starts
    BY <1>3, <1>4, Zenon
  <2>2. WordStart(text, cursor) = 0 \/ WordStart(text, cursor) \in 0..(cursor - 1)
    BY <1>2, <2>1, Zenon
  <2> QED BY <1>1, <2>2
<1>7. WordEnd(text, cursor) \in 0..Len(text)
  <2>1. WordEnd(text, cursor) = Len(text) \/ WordEnd(text, cursor) \in Ends
    BY <1>3, <1>5, Zenon
  <2>2. WordEnd(text, cursor) = Len(text) \/ WordEnd(text, cursor) \in (cursor + 1)..Len(text)
    BY <1>2, <2>1, Zenon
  <2> QED BY <1>1, <2>2
<1> QED BY <1>6, <1>7

\* MoveWord is in place and local.
LEMMA MoveWordIs ==
  ASSUME NEW f, EditorOK(f), NEW forward \in BOOLEAN
  PROVE  EditorOK(MoveWord(f, forward)) /\ Local(f, MoveWord(f, forward))
<1>1. CASE ~Exists(f)
  <2>1. MoveWord(f, forward) = f
    BY <1>1 DEF MoveWord
  <2> QED BY <2>1, CellsOfPairs
<1>2. CASE Exists(f)
  <2>1. /\ Active(f) \in Seq(Chars) /\ Len(Active(f)) \in Nat /\ f.cursor \in 0..Len(Active(f))
    BY PlaceIs DEF EditorOK
  <2>2. PICK cursor \in 0..Len(Active(f)) :
          cursor = IF forward THEN WordEnd(Active(f), f.cursor) ELSE WordStart(Active(f), f.cursor)
    BY <2>1, WordsAre, SMTT(30)
  <2>3. MoveWord(f, forward) = [f EXCEPT !.cursor = cursor]
    BY <1>2, <2>2 DEF MoveWord
  <2> QED BY <2>2, <2>3, CursorIs
<1> QED BY <1>1, <1>2

-----------------------------------------------------------------------------
(* TuiForm: typing *)

\* The fields with other rows in that of the caret.
FieldsWith(f, rows) == [f.fields EXCEPT ![f.selected] = rows]

\* Any edit of the rows of the field of the caret.
LEMMA EditedIs ==
  ASSUME NEW f, EditorOK(f), NEW rows, FieldOK(Kind(f), rows), Around(RowsOf(f), rows, f.item),
         NEW g \in Editors, g.fields = FieldsWith(f, rows),
         g.selected = f.selected, g.cell \in 1..Cells(Kind(f)),
         g.item \in 1..(IF HasRows(Kind(f)) THEN Len(rows) + 1 ELSE 1)
  PROVE  /\ Placed(g) /\ Local(f, g) /\ Kind(g) = Kind(f) /\ RowsOf(g) = rows
<1>1. f \in Editors /\ f.selected \in DOMAIN FieldKinds
  BY PlaceIs DEF EditorOK, Placed, FieldsOK
<1>2. \A i \in DOMAIN FieldKinds : g.fields[i] = IF i = f.selected THEN rows ELSE f.fields[i]
  BY <1>1 DEF Editors, FieldsWith
<1>3. Kind(g) = Kind(f) /\ RowsOf(g) = rows
  BY <1>1, <1>2 DEF Kind, RowsOf
<1>4. RowsIn(g, g.selected) = IF HasRows(Kind(f)) THEN Len(rows) + 1 ELSE 1
  BY <1>3 DEF RowsIn, Kind, RowsOf
<1>5. FieldsOK(g)
  <2>1. ASSUME NEW i \in DOMAIN FieldKinds
        PROVE  /\ FieldOK(FieldKinds[i], g.fields[i])
               /\ i # g.selected /\ HasRows(FieldKinds[i]) =>
                    \A j \in 1..Len(g.fields[i]) : ~Blank(g.fields[i][j])
    <3>1. CASE i = f.selected
      BY <1>2, <3>1 DEF Kind
    <3>2. CASE i # f.selected
      BY <1>2, <3>2 DEF EditorOK, Placed, FieldsOK
    <3> QED BY <3>1, <3>2
  <2> QED BY <2>1 DEF FieldsOK
<1>6. Placed(g)
  BY <1>3, <1>4, <1>5 DEF Placed
<1>7. Local(f, g)
  BY <1>2 DEF Local, RowsOf
<1> QED BY <1>3, <1>6, <1>7

\* A character is put into a text or taken out of it.
LEMMA InsertedIs ==
  ASSUME NEW S, NEW text \in Seq(S), NEW n \in 0..Len(text), NEW c \in S
  PROVE  InsertAt(text, n + 1, c) \in Seq(S) /\ Len(InsertAt(text, n + 1, c)) = Len(text) + 1
<1>1. Len(text) \in Nat /\ \A i \in 1..Len(text) : text[i] \in S
  BY LenProperties, ElementOfSeq
<1> DEFINE first == SubSeq(text, 1, n)
           rest == SubSeq(text, n + 1, Len(text))
<1>2. first \in Seq(S) /\ Len(first) = n
  <2>1. PICK m \in Nat \ {0} : m = 1
    OBVIOUS
  <2>2. m <= n + 1 /\ n - m + 1 = n
    BY <1>1, <2>1
  <2>3. SubSeq(text, m, n) \in Seq(S) /\ Len(SubSeq(text, m, n)) = n - m + 1
    BY <2>2, PartIs
  <2> QED BY <2>1, <2>2, <2>3
<1>3. rest \in Seq(S) /\ Len(rest) = Len(text) - n
  <2>1. PICK m \in Nat \ {0} : m = n + 1
    BY <1>1
  <2>2. Len(text) \in 0..Len(text) /\ m <= Len(text) + 1 /\ Len(text) - m + 1 = Len(text) - n
    BY <1>1, <2>1
  <2>3. SubSeq(text, m, Len(text)) \in Seq(S) /\ Len(SubSeq(text, m, Len(text))) = Len(text) - m + 1
    BY <2>2, PartIs
  <2> QED BY <2>1, <2>2, <2>3
<1>4. InsertAt(text, n + 1, c) = (first \o <<c>>) \o rest
  <2>1. PICK i : i = n + 1 /\ i - 1 = n
    BY <1>1
  <2>2. InsertAt(text, i, c) = (SubSeq(text, 1, i - 1) \o <<c>>) \o SubSeq(text, i, Len(text))
    BY Zenon DEF InsertAt
  <2> QED BY <2>1, <2>2
<1> HIDE DEF first, rest
<1>5. <<c>> \in Seq(S) /\ Len(<<c>>) = 1
  OBVIOUS
<1> DEFINE start == first \o <<c>>
<1>6. start \in Seq(S) /\ Len(start) = n + 1
  BY <1>2, <1>5, ConcatProperties
<1> HIDE DEF start
<1>7. start \o rest \in Seq(S) /\ Len(start \o rest) = Len(start) + Len(rest)
  BY <1>3, <1>6, ConcatProperties
<1>8. InsertAt(text, n + 1, c) = start \o rest
  BY <1>4 DEF start
<1>9. Len(start) + Len(rest) = Len(text) + 1
  BY <1>1, <1>3, <1>6
<1> QED BY <1>7, <1>8, <1>9, Zenon

\* The text of the caret replaced, and the caret put somewhere in it.
Retyped(f, text, cursor) ==
  [f EXCEPT !.fields[f.selected][f.item][f.cell] = text, !.cursor = cursor]

\* Its row and the rows of its field then.
RowWith(f, text) == [Row(f) EXCEPT ![f.cell] = text]
RowsWith(f, text) == [RowsOf(f) EXCEPT ![f.item] = RowWith(f, text)]

\* A row of a list or of pairs that loses its last character.
Gone(f, text) == HasRows(Kind(f)) /\ Empty(RowWith(f, text))

\* What the form is then, whether or not a row is left.
LEMMA RetypedIs ==
  ASSUME NEW f, EditorOK(f), Exists(f), NEW text \in Seq(Chars), NEW cursor \in Nat,
         NEW g, g = Retyped(f, text, cursor)
  PROVE  /\ g \in Editors /\ g.fields = FieldsWith(f, RowsWith(f, text))
         /\ g.selected = f.selected /\ g.item = f.item /\ g.cell = f.cell /\ g.cursor = cursor
         /\ Kind(g) = Kind(f) /\ RowsOf(g) = RowsWith(f, text) /\ Row(g) = RowWith(f, text)
         /\ Active(g) = text /\ Exists(g)
         /\ Len(RowsWith(f, text)) = Len(RowsOf(f))
         /\ (~Gone(f, text) => FieldOK(Kind(f), RowsWith(f, text)))
         /\ Around(RowsOf(f), RowsWith(f, text), f.item)
<1> DEFINE R == [1..Cells(Kind(f)) -> Seq(Chars)]
<1> DEFINE row == RowWith(f, text)
           rows == RowsWith(f, text)
<1>1. /\ f \in Editors /\ f.selected \in DOMAIN FieldKinds /\ FieldOK(Kind(f), RowsOf(f))
      /\ Kind(f) \in {"text", "list", "pairs", "bool"} /\ f.cell \in 1..Cells(Kind(f))
      /\ f.item \in 1..Len(RowsOf(f)) /\ Row(f) \in R
  BY PlaceIs DEF EditorOK, Placed, FieldsOK
<1>2. row \in R /\ row[f.cell] = text
  BY <1>1 DEF RowWith
<1>3. RowsOf(f) \in Seq(R) /\ RowsOf(f) \in FieldRows
  BY <1>1, RowsAre
<1>4. g = [f EXCEPT !.fields = [f.fields EXCEPT ![f.selected] = rows], !.cursor = cursor]
  BY DEF Retyped, RowsOf, Row, RowsWith, RowWith
<1> HIDE DEF R, row
<1>5. rows = [RowsOf(f) EXCEPT ![f.item] = row]
  BY DEF RowsWith, row
<1> HIDE DEF rows
<1>6. /\ rows \in Seq(R) /\ Len(rows) = Len(RowsOf(f))
      /\ \A j \in 1..Len(RowsOf(f)) : rows[j] = IF j = f.item THEN row ELSE RowsOf(f)[j]
      /\ Around(RowsOf(f), rows, f.item)
  <2> DEFINE plain == [RowsOf(f) EXCEPT ![f.item] = row]
  <2>1. /\ plain \in Seq(R) /\ Len(plain) = Len(RowsOf(f))
        /\ \A j \in 1..Len(RowsOf(f)) : plain[j] = IF j = f.item THEN row ELSE RowsOf(f)[j]
        /\ Around(RowsOf(f), plain, f.item)
    BY <1>1, <1>2, <1>3, RowReplaced
  <2>2. rows = plain
    BY <1>5
  <2> HIDE DEF plain
  <2> QED BY <2>1, <2>2
<1>7. rows \in RowsOfKind(Kind(f)) /\ rows \in FieldRows
  BY <1>1, <1>6 DEF RowsOfKind, FieldRows, R
<1>8. /\ g \in Editors /\ g.selected = f.selected /\ g.item = f.item /\ g.cell = f.cell
      /\ g.cursor = cursor /\ g.fields = FieldsWith(f, rows)
  <2>1. PICK fields : fields = FieldsWith(f, rows)
    OBVIOUS
  <2>2. fields \in [DOMAIN FieldKinds -> FieldRows]
    BY <1>1, <1>7, <2>1 DEF Editors, FieldsWith
  <2>3. g = [f EXCEPT !.fields = fields, !.cursor = cursor]
    BY <1>4, <2>1 DEF FieldsWith
  <2>4. /\ g \in Editors /\ g.selected = f.selected /\ g.item = f.item /\ g.cell = f.cell
        /\ g.cursor = cursor /\ g.fields = fields
    BY <1>1, <2>2, <2>3 DEF Editors
  <2> QED BY <2>1, <2>4
<1>9. Kind(g) = Kind(f) /\ RowsOf(g) = rows /\ Row(g) = row
  BY <1>1, <1>6, <1>8 DEF Kind, RowsOf, Row, Editors, FieldsWith
<1>10. Exists(g) /\ Active(g) = text
  BY <1>1, <1>2, <1>6, <1>8, <1>9 DEF Exists, Active
<1>11. ASSUME ~Gone(f, text) PROVE FieldOK(Kind(f), rows)
  <2>1. ~(HasRows(Kind(f)) /\ Empty(row))
    BY <1>11 DEF Gone, row
  <2> QED BY <1>1, <1>6, <1>7, <2>1 DEF FieldOK
<1> QED BY <1>6, <1>8, <1>9, <1>10, <1>11 DEF row, rows

\* An edit that leaves a row a row.
LEMMA RowStays ==
  ASSUME NEW f, EditorOK(f), Exists(f), NEW text \in Seq(Chars), NEW cursor \in 0..Len(text),
         ~Gone(f, text), NEW g, g = Retyped(f, text, cursor)
  PROVE  EditorOK(g) /\ Local(f, g)
<1>1. cursor \in Nat
  BY LenProperties
<1>2. /\ g \in Editors /\ g.fields = FieldsWith(f, RowsWith(f, text))
      /\ g.selected = f.selected /\ g.item = f.item /\ g.cell = f.cell /\ g.cursor = cursor
      /\ Active(g) = text /\ Len(RowsWith(f, text)) = Len(RowsOf(f))
      /\ FieldOK(Kind(f), RowsWith(f, text)) /\ Around(RowsOf(f), RowsWith(f, text), f.item)
  BY <1>1, RetypedIs
<1>3. /\ f.cell \in 1..Cells(Kind(f))
      /\ f.item \in 1..(IF HasRows(Kind(f)) THEN Len(RowsOf(f)) + 1 ELSE 1)
  BY PlaceIs DEF EditorOK, Placed
<1>4. Placed(g) /\ Local(f, g)
  BY <1>2, <1>3, EditedIs
<1> QED BY <1>2, <1>4 DEF EditorOK

\* A row with a character is not empty.
LEMMA EmptyIs ==
  ASSUME NEW n \in Nat, NEW row \in [1..n -> Seq(Chars)], NEW cell \in 1..n, Len(row[cell]) > 0
  PROVE  ~Empty(row)
<1>1. row[cell] # <<>>
  BY EmptySeq
<1> QED BY <1>1 DEF Empty

\* Where there is no row, typing makes one.
LEMMA FirstCharIs ==
  ASSUME NEW f, EditorOK(f), ~Exists(f), Kind(f) # "bool", NEW c \in Chars
  PROVE  EditorOK(PushChar(f, c)) /\ Local(f, PushChar(f, c))
<1> DEFINE k == Cells(Kind(f))
           R == [1..k -> Seq(Chars)]
           n == Len(RowsOf(f))
           blank == [i \in 1..k |-> <<>>]
           text == InsertAt(<<>>, 0 + 1, c)
           row == [blank EXCEPT ![f.cell] = text]
           rows == Append(RowsOf(f), row)
<1>1. /\ f \in Editors /\ f.selected \in DOMAIN FieldKinds /\ FieldOK(Kind(f), RowsOf(f))
      /\ Kind(f) \in {"text", "list", "pairs", "bool"} /\ f.cell \in 1..k /\ f.cell \in Nat
      /\ f.item = n + 1 /\ n \in Nat /\ Kind(f) # "text" /\ f.cursor = 0
  <2>1. /\ f \in Editors /\ f.selected \in DOMAIN FieldKinds /\ FieldOK(Kind(f), RowsOf(f))
        /\ Kind(f) \in {"text", "list", "pairs", "bool"} /\ f.cell \in 1..k
        /\ f.item = n + 1 /\ n \in Nat /\ Kind(f) # "text" /\ Len(Active(f)) = 0
    BY PlaceIs DEF EditorOK, Placed, FieldsOK
  <2>2. f.cursor \in 0..Len(Active(f))
    BY DEF EditorOK
  <2>3. f.cell \in Nat
    BY <2>1 DEF Editors
  <2> QED BY <2>1, <2>2, <2>3
<1>2. HasRows(Kind(f)) /\ k \in 1..2
  BY <1>1 DEF HasRows, Cells
<1>3. RowsOf(f) \in Seq(R)
  BY <1>1, RowsAre
<1>4. <<>> \in Seq(Chars) /\ Len(<<>>) = 0 /\ 0 \in 0..Len(<<>>)
  BY EmptySeq
<1>5. text \in Seq(Chars) /\ Len(text) = 1
  <2>1. PICK none \in Seq(Chars) : none = <<>> /\ 0 \in 0..Len(none) /\ Len(none) = 0
    BY <1>4
  <2>2. PICK zero \in 0..Len(none) : zero = 0
    BY <2>1
  <2>3. InsertAt(none, zero + 1, c) \in Seq(Chars) /\ Len(InsertAt(none, zero + 1, c)) = Len(none) + 1
    BY InsertedIs
  <2> QED BY <2>1, <2>2, <2>3
<1> HIDE DEF text
<1>6. blank \in R /\ blank[f.cell] = <<>>
  BY <1>1, <1>4
<1>7. row \in R /\ row[f.cell] = text
  BY <1>1, <1>5, <1>6
<1>8. ~Empty(row)
  <2>1. k \in Nat /\ Len(row[f.cell]) > 0
    <3>1. k \in Nat
      BY <1>2
    <3>2. Len(row[f.cell]) = 1
      BY <1>5, <1>7, Zenon
    <3> HIDE DEF row, k
    <3> QED BY <3>1, <3>2
  <2> HIDE DEF row, k
  <2> QED BY <1>1, <1>7, <2>1, EmptyIs
<1> HIDE DEF blank, row, R, k
<1>9. /\ rows \in Seq(R) /\ Len(rows) = n + 1 /\ rows[n + 1] = row
      /\ (\A j \in 1..n : rows[j] = RowsOf(f)[j]) /\ Around(RowsOf(f), rows, n + 1)
  BY <1>3, <1>7, AppendProperties, RowAppended
<1>10. rows = [Append(RowsOf(f), blank) EXCEPT ![n + 1] = row]
  <2> DEFINE first == Append(RowsOf(f), blank)
             second == [first EXCEPT ![n + 1] = row]
  <2>1. first \in Seq(R) /\ Len(first) = n + 1 /\ \A j \in 1..n : first[j] = RowsOf(f)[j]
    BY <1>3, <1>6, AppendProperties
  <2> HIDE DEF first
  <2>2. /\ second \in Seq(R) /\ Len(second) = n + 1
        /\ \A j \in 1..(n + 1) : second[j] = IF j = n + 1 THEN row ELSE first[j]
    <3>1. n + 1 \in 1..Len(first)
      BY <1>1, <2>1
    <3> HIDE DEF n
    <3> QED BY <1>7, <2>1, <3>1, ExceptSeq
  <2> HIDE DEF second, rows
  <2>3. \A j \in 1..(n + 1) : second[j] = rows[j]
    BY <1>1, <1>9, <2>1, <2>2
  <2> HIDE DEF n
  <2>4. second = rows
    BY <1>9, <2>2, <2>3, SeqEqual
  <2> QED BY <2>4 DEF second, first
<1>11. PICK more : more = Append(RowsOf(f), blank)
  OBVIOUS
<1>12. more[f.item] = blank /\ rows = [more EXCEPT ![f.item] = row]
  <2>1. more[n + 1] = blank
    BY <1>3, <1>6, <1>11, AppendProperties
  <2> QED BY <1>1, <1>10, <1>11, <2>1
<1>13. PICK h : h = [f EXCEPT !.fields = [f.fields EXCEPT ![f.selected] = more]]
  OBVIOUS
<1>14. WithRow(f) = h
  <2> QED BY <1>11, <1>13 DEF WithRow, RowsOf, blank, k
<1>15. /\ h.fields = [f.fields EXCEPT ![f.selected] = more] /\ h.cursor = 0
       /\ h.fields[f.selected] = more
  BY <1>1, <1>13 DEF Editors
<1>16. PICK g : g = PushChar(f, c)
  OBVIOUS
<1>17. g = [h EXCEPT
             !.fields = [h.fields EXCEPT
                           ![f.selected] = [h.fields[f.selected] EXCEPT
                              ![f.item] = [h.fields[f.selected][f.item] EXCEPT
                                 ![f.cell] = InsertAt(h.fields[f.selected][f.item][f.cell], f.cursor + 1, c)]]],
             !.cursor = h.cursor + 1]
  BY <1>14, <1>16 DEF PushChar
<1>18. InsertAt(h.fields[f.selected][f.item][f.cell], f.cursor + 1, c) = text
  BY <1>1, <1>6, <1>12, <1>15 DEF text
<1>19. g = [h EXCEPT !.fields = [h.fields EXCEPT ![f.selected] = rows], !.cursor = 1]
  <2>1. h.fields[f.selected][f.item] = blank
    BY <1>12, <1>15
  <2>2. [h.fields[f.selected][f.item] EXCEPT
           ![f.cell] = InsertAt(h.fields[f.selected][f.item][f.cell], f.cursor + 1, c)] = row
    BY <1>18, <2>1, Zenon DEF row
  <2> HIDE DEF row, rows
  <2>3. [h.fields[f.selected] EXCEPT
           ![f.item] = [h.fields[f.selected][f.item] EXCEPT
             ![f.cell] = InsertAt(h.fields[f.selected][f.item][f.cell], f.cursor + 1, c)]] = rows
    BY <1>12, <1>15, <2>2, Zenon
  <2>4. h.cursor + 1 = 1
    BY <1>15
  <2> QED BY <1>17, <2>3, <2>4, Zenon
<1>20. rows \in FieldRows /\ FieldOK(Kind(f), rows)
  <2>1. rows \in RowsOfKind(Kind(f)) /\ rows \in FieldRows
    BY <1>1, <1>9 DEF RowsOfKind, FieldRows, R, k
  <2>2. \A j \in 1..Len(rows) : ~Empty(rows[j])
    <3>1. \A j \in 1..n : ~Empty(RowsOf(f)[j])
      BY <1>1, <1>2 DEF FieldOK
    <3> HIDE DEF rows, n
    <3>2. 1..Len(rows) = (1..n) \cup {n + 1}
      BY <1>1, <1>9
    <3> QED BY <1>8, <1>9, <3>1, <3>2
  <2> HIDE DEF rows
  <2> QED BY <1>1, <1>2, <2>1, <2>2 DEF FieldOK
<1> HIDE DEF rows
<1>21. /\ g \in Editors /\ g.selected = f.selected /\ g.item = f.item /\ g.cell = f.cell /\ g.cursor = 1
       /\ g.fields = FieldsWith(f, rows)
  BY <1>1, <1>13, <1>15, <1>19, <1>20 DEF Editors, FieldsWith
<1>22. Placed(g) /\ Local(f, g) /\ Kind(g) = Kind(f) /\ RowsOf(g) = rows
  <2>1. g.item \in 1..(IF HasRows(Kind(f)) THEN Len(rows) + 1 ELSE 1)
    BY <1>1, <1>2, <1>9, <1>21
  <2>2. g.cell \in 1..Cells(Kind(f))
    BY <1>1, <1>21 DEF k
  <2>3. Around(RowsOf(f), rows, f.item)
    BY <1>1, <1>9
  <2> QED BY <1>20, <1>21, <2>1, <2>2, <2>3, EditedIs
<1>23. Active(g) = text
  BY <1>1, <1>7, <1>9, <1>21, <1>22 DEF Active, Exists, Row
<1>24. g.cursor \in 0..Len(Active(g))
  <2>1. Len(Active(g)) = 1
    BY <1>5, <1>23
  <2> QED BY <1>21, <2>1
<1> QED BY <1>16, <1>22, <1>24 DEF EditorOK

\* PushChar is in place and local.
LEMMA PushCharIs ==
  ASSUME NEW f, EditorOK(f), NEW c \in Chars
  PROVE  EditorOK(PushChar(f, c)) /\ Local(f, PushChar(f, c))
<1>1. CASE Kind(f) = "bool"
  <2>1. PushChar(f, c) = f
    BY <1>1 DEF PushChar
  <2> QED BY <2>1, CellsOfPairs
<1>2. CASE Kind(f) # "bool" /\ ~Exists(f)
  BY <1>2, FirstCharIs
<1>3. CASE Kind(f) # "bool" /\ Exists(f)
  <2>1. /\ Active(f) \in Seq(Chars) /\ Len(Active(f)) \in Nat /\ Active(f) = Row(f)[f.cell]
        /\ f.cursor \in 0..Len(Active(f)) /\ Row(f) \in [1..Cells(Kind(f)) -> Seq(Chars)]
        /\ f.cell \in 1..Cells(Kind(f)) /\ Cells(Kind(f)) \in Nat
    BY <1>3, PlaceIs DEF EditorOK, Cells
  <2>2. PICK text : text = InsertAt(Active(f), f.cursor + 1, c)
    OBVIOUS
  <2>3. text \in Seq(Chars) /\ Len(text) = Len(Active(f)) + 1
    BY <2>1, <2>2, InsertedIs, ZenonT(60)
  <2>4. PICK cursor \in 0..Len(text) : cursor = f.cursor + 1
    BY <2>1, <2>3
  <2>5. RowWith(f, text) \in [1..Cells(Kind(f)) -> Seq(Chars)] /\ RowWith(f, text)[f.cell] = text
    BY <2>1, <2>3 DEF RowWith
  <2>6. ~Empty(RowWith(f, text))
    <3>1. Len(RowWith(f, text)[f.cell]) > 0
      BY <2>1, <2>3, <2>5
    <3> QED BY <2>1, <2>5, <3>1, EmptyIs
  <2>7. ~Gone(f, text)
    BY <2>6 DEF Gone
  <2>8. EditorOK(Retyped(f, text, cursor)) /\ Local(f, Retyped(f, text, cursor))
    BY <1>3, <2>3, <2>7, RowStays
  <2>9. PushChar(f, c) = Retyped(f, text, cursor)
    <3>1. f.fields[f.selected][f.item][f.cell] = Active(f)
      BY <2>1 DEF Row, RowsOf
    <3>2. WithRow(f) = f
      BY <1>3 DEF WithRow
    <3> QED BY <1>3, <2>2, <2>4, <3>1, <3>2 DEF PushChar, Retyped
  <2> QED BY <2>8, <2>9
<1> QED BY <1>1, <1>2, <1>3

\* PushComma and PushEquals are in place and local.
LEMMA PushedIs ==
  ASSUME NEW f, EditorOK(f), NEW g \in {PushComma(f), PushEquals(f)}
  PROVE  EditorOK(g) /\ Local(f, g)
<1>1. EditorOK(PushChar(f, " ")) /\ Local(f, PushChar(f, " "))
  BY PushCharIs DEF Chars
<1>2. EditorOK(PushComma(f)) /\ Local(f, PushComma(f))
  <2>1. CASE ~HasRows(Kind(f))
    BY <1>1, <2>1 DEF PushComma
  <2>2. CASE HasRows(Kind(f)) /\ ~Exists(f)
    <3>1. PushComma(f) = f
      BY <2>2 DEF PushComma
    <3> QED BY <3>1, CellsOfPairs
  <2>3. CASE HasRows(Kind(f)) /\ Exists(f)
    <3>1. PICK g2 : g2 = [f EXCEPT !.item = f.item + 1, !.cell = 1]
      OBVIOUS
    <3>2. f.item + 1 \in 1..RowsIn(f, f.selected) /\ 1 \in 1..Cells(Kind(f))
      <4>1. /\ f.item \in 1..Len(RowsOf(f)) /\ RowsIn(f, f.selected) = Len(RowsOf(f)) + 1
            /\ Len(RowsOf(f)) \in Nat
        BY <2>3, PlaceIs DEF EditorOK
      <4> QED BY <4>1 DEF Cells
    <3>3. Placed(g2) /\ Local(f, g2)
      BY <3>1, <3>2, RowIs
    <3>4. PushComma(f) = ToEnd(g2)
      BY <2>3, <3>1 DEF PushComma
    <3> QED BY <3>3, <3>4, EndsThere
  <2> QED BY <2>1, <2>2, <2>3
<1>3. EditorOK(PushEquals(f)) /\ Local(f, PushEquals(f))
  <2>1. CASE Kind(f) = "pairs" /\ f.cell = 1
    <3>1. PICK g2 : g2 = [f EXCEPT !.cell = 2]
      OBVIOUS
    <3>2. EditorOK(ToEnd(g2)) /\ Local(f, ToEnd(g2))
      BY <2>1, <3>1, CellsOfPairs, OtherCellIs
    <3>3. PushEquals(f) = ToEnd(g2)
      BY <2>1, <3>1 DEF PushEquals
    <3> QED BY <3>2, <3>3
  <2>2. CASE ~(Kind(f) = "pairs" /\ f.cell = 1)
    BY <1>1, <2>2 DEF PushEquals
  <2> QED BY <2>1, <2>2
<1> QED BY <1>2, <1>3

-----------------------------------------------------------------------------
(* TuiForm: deleting *)

\* Without its caret's row a field is the same whatever that row was.
LEMMA RowGoes ==
  ASSUME NEW R, NEW before \in Seq(R), NEW item \in 1..Len(before), NEW row \in R
  PROVE  RemoveAt([before EXCEPT ![item] = row], item) = RemoveAt(before, item)
<1> DEFINE rows == [before EXCEPT ![item] = row]
<1>1. /\ rows \in Seq(R) /\ Len(rows) = Len(before)
      /\ \A j \in 1..Len(before) : rows[j] = IF j = item THEN row ELSE before[j]
  BY RowReplaced
<1>2. Len(before) \in Nat
  BY LenProperties
<1> HIDE DEF rows
<1>3. PICK first : first = RemoveAt(rows, item)
  OBVIOUS
<1>4. PICK second : second = RemoveAt(before, item)
  OBVIOUS
<1>5. /\ first \in Seq(R) /\ Len(first) = Len(before) - 1
      /\ \A j \in 1..(Len(before) - 1) : first[j] = IF j < item THEN rows[j] ELSE rows[j + 1]
  BY <1>1, <1>3, RowRemoved, ZenonT(60)
<1>6. /\ second \in Seq(R) /\ Len(second) = Len(before) - 1
      /\ \A j \in 1..(Len(before) - 1) : second[j] = IF j < item THEN before[j] ELSE before[j + 1]
  BY <1>4, RowRemoved
<1>7. ASSUME NEW j \in 1..(Len(before) - 1) PROVE first[j] = second[j]
  <2>1. CASE j < item
    BY <1>1, <1>2, <1>5, <1>6, <2>1
  <2>2. CASE ~(j < item)
    <3>1. j + 1 \in 1..Len(before) /\ j + 1 # item
      BY <1>2, <2>2
    <3> QED BY <1>1, <1>5, <1>6, <2>2, <3>1
  <2> QED BY <2>1, <2>2
<1>8. first = second
  BY <1>5, <1>6, <1>7, SeqEqual
<1> QED BY <1>3, <1>4, <1>8 DEF rows

\* A row of a list or of pairs goes with its last character.
LEMMA DropIs ==
  ASSUME NEW f, EditorOK(f), Exists(f), NEW text \in Seq(Chars), NEW cursor \in 0..Len(text),
         NEW r, r = Retyped(f, text, cursor), NEW g, g = DropEmpty(r)
  PROVE  /\ EditorOK(g) /\ Local(f, g)
         /\ RowsOf(g) = IF Gone(f, text) THEN RemoveAt(RowsOf(f), f.item) ELSE RowsWith(f, text)
         /\ ~Gone(f, text) => g = r
<1>1. cursor \in Nat
  BY LenProperties
<1> DEFINE row == RowWith(f, text)
           rows == RowsWith(f, text)
<1> HIDE DEF row, rows
<1>3. /\ r \in Editors /\ r.fields = FieldsWith(f, rows)
      /\ r.selected = f.selected /\ r.item = f.item /\ r.cell = f.cell
      /\ Kind(r) = Kind(f) /\ RowsOf(r) = rows /\ Row(r) = row
  BY <1>1, RetypedIs DEF row, rows
<1>4. (Gone(f, text) <=> HasRows(Kind(f)) /\ Empty(row)) /\ row = [Row(f) EXCEPT ![f.cell] = text]
  BY DEF Gone, RowWith, row
<1>5. CASE ~Gone(f, text)
  <2>1. g = r
    BY <1>3, <1>4, <1>5 DEF DropEmpty
  <2>2. EditorOK(r) /\ Local(f, r)
    BY <1>5, RowStays
  <2> QED BY <1>3, <1>5, <2>1, <2>2 DEF rows
<1>6. CASE Gone(f, text)
  <2> DEFINE R == [1..Cells(Kind(f)) -> Seq(Chars)]
  <2>1. /\ f \in Editors /\ f.selected \in DOMAIN FieldKinds /\ FieldOK(Kind(f), RowsOf(f))
        /\ Kind(f) \in {"text", "list", "pairs", "bool"} /\ f.cell \in 1..Cells(Kind(f))
        /\ f.item \in 1..Len(RowsOf(f)) /\ Row(f) \in R /\ Len(RowsOf(f)) \in Nat
    BY PlaceIs DEF EditorOK, Placed, FieldsOK
  <2>2. row \in R
    BY <1>4, <2>1
  <2>3. RowsOf(f) \in Seq(R)
    BY <2>1, RowsAre
  <2>4. PICK left : left = RemoveAt(RowsOf(f), f.item)
    OBVIOUS
  <2>5. RemoveAt(rows, f.item) = left
    <3> HIDE DEF R
    <3> QED BY <2>1, <2>2, <2>3, <2>4, RowGoes DEF rows, RowsWith, row
  <2> HIDE DEF R
  <2>6. g = [r EXCEPT !.fields = [r.fields EXCEPT ![f.selected] = left], !.cell = 1, !.cursor = 0]
    <3>1. r.fields[f.selected] = rows
      BY <1>3 DEF RowsOf
    <3>2. HasRows(Kind(r)) /\ Empty(Row(r))
      BY <1>3, <1>4, <1>6
    <3>3. g = [r EXCEPT !.fields[r.selected] = RemoveAt(@, r.item), !.cell = 1, !.cursor = 0]
      BY <3>2 DEF DropEmpty
    <3> QED BY <1>3, <2>5, <3>1, <3>3
  <2>7. /\ left \in Seq(R) /\ Len(left) = Len(RowsOf(f)) - 1
        /\ \A j \in 1..(Len(RowsOf(f)) - 1) :
             left[j] = IF j < f.item THEN RowsOf(f)[j] ELSE RowsOf(f)[j + 1]
        /\ Around(RowsOf(f), left, f.item)
    BY <2>1, <2>3, <2>4, RowRemoved
  <2>8. FieldOK(Kind(f), left) /\ left \in FieldRows
    <3>1. left \in RowsOfKind(Kind(f)) /\ left \in FieldRows
      BY <2>1, <2>7 DEF RowsOfKind, FieldRows, R
    <3>2. \A j \in 1..Len(left) : ~Empty(left[j])
      <4>1. \A j \in 1..Len(RowsOf(f)) : ~Empty(RowsOf(f)[j])
        BY <1>4, <1>6, <2>1 DEF FieldOK
      <4> TAKE j \in 1..Len(left)
      <4>2. CASE j < f.item
        <5>1. j \in 1..(Len(RowsOf(f)) - 1) /\ j \in 1..Len(RowsOf(f))
          BY <2>1, <2>7
        <5> QED BY <2>7, <4>1, <4>2, <5>1
      <4>3. CASE ~(j < f.item)
        <5>1. j \in 1..(Len(RowsOf(f)) - 1) /\ j + 1 \in 1..Len(RowsOf(f))
          BY <2>1, <2>7
        <5> QED BY <2>7, <4>1, <4>3, <5>1
      <4> QED BY <4>2, <4>3
    <3>3. Kind(f) \in {"list", "pairs"}
      BY <1>4, <1>6 DEF HasRows
    <3> QED BY <3>1, <3>2, <3>3 DEF FieldOK
  <2>9. PICK fields : fields = FieldsWith(f, left)
    OBVIOUS
  <2>10. fields \in [DOMAIN FieldKinds -> FieldRows] /\ [r.fields EXCEPT ![f.selected] = left] = fields
    <3>1. r.fields \in [DOMAIN FieldKinds -> FieldRows] /\ f.fields \in [DOMAIN FieldKinds -> FieldRows]
      BY <1>3, <2>1 DEF Editors
    <3> QED BY <1>3, <2>1, <2>8, <2>9, <3>1 DEF FieldsWith
  <2>11. g = [r EXCEPT !.fields = fields, !.cell = 1, !.cursor = 0]
    BY <2>6, <2>10
  <2>12. /\ g \in Editors /\ g.selected = r.selected /\ g.item = r.item /\ g.cell = 1 /\ g.cursor = 0
         /\ g.fields = fields
    <3>1. r \in Editors /\ fields \in [DOMAIN FieldKinds -> FieldRows]
      BY <1>3, <2>10
    <3>2. PICK h : h = [r EXCEPT !.fields = fields]
      OBVIOUS
    <3>3. /\ h \in Editors /\ h.selected = r.selected /\ h.item = r.item /\ h.fields = fields
      BY <3>1, <3>2 DEF Editors
    <3>4. PICK cell, there \in Nat : cell = 1 /\ there = 0
      OBVIOUS
    <3>5. PICK k : k = [h EXCEPT !.cell = cell]
      OBVIOUS
    <3>6. /\ k \in Editors /\ k.selected = h.selected /\ k.item = h.item /\ k.cell = cell
          /\ k.fields = h.fields
      BY <3>3, <3>5 DEF Editors
    <3>7. PICK l : l = [k EXCEPT !.cursor = there]
      OBVIOUS
    <3>8. /\ l \in Editors /\ l.selected = k.selected /\ l.item = k.item /\ l.cell = k.cell
          /\ l.cursor = there /\ l.fields = k.fields
      BY <3>6, <3>7 DEF Editors
    <3>9. g = l
      BY <2>11, <3>2, <3>4, <3>5, <3>7
    <3> QED BY <3>3, <3>4, <3>6, <3>8, <3>9
  <2>13. /\ g \in Editors /\ g.selected = f.selected /\ g.item = f.item /\ g.cell = 1 /\ g.cursor = 0
         /\ g.fields = FieldsWith(f, left)
    BY <1>3, <2>9, <2>12
  <2>14. Placed(g) /\ Local(f, g) /\ RowsOf(g) = left
    <3>1. g.item \in 1..(IF HasRows(Kind(f)) THEN Len(left) + 1 ELSE 1)
      BY <1>4, <1>6, <2>1, <2>7, <2>13
    <3>2. g.cell \in 1..Cells(Kind(f))
      BY <2>13 DEF Cells
    <3> QED BY <2>7, <2>8, <2>13, <3>1, <3>2, EditedIs
  <2>15. EditorOK(g)
    <3>1. Len(Active(g)) \in Nat
      BY <2>14, PlaceIs
    <3> QED BY <2>13, <2>14, <3>1 DEF EditorOK
  <2> QED BY <1>6, <2>4, <2>14, <2>15
<1> QED BY <1>5, <1>6

\* The text of the caret without a character of it.
LEMMA RemovedCharIs ==
  ASSUME NEW f, EditorOK(f), Exists(f), NEW at \in 1..Len(Active(f)), NEW cursor \in 0..(Len(Active(f)) - 1),
         NEW g, g = [RemoveChar(f, at) EXCEPT !.cursor = cursor]
  PROVE  /\ RemoveAt(Active(f), at) \in Seq(Chars)
         /\ cursor \in 0..Len(RemoveAt(Active(f), at))
         /\ g = Retyped(f, RemoveAt(Active(f), at), cursor)
<1>1. Active(f) \in Seq(Chars) /\ f.fields[f.selected][f.item][f.cell] = Active(f)
  BY PlaceIs DEF EditorOK, Row, RowsOf
<1>2. PICK text : text = RemoveAt(Active(f), at)
  OBVIOUS
<1>3. text \in Seq(Chars) /\ Len(text) = Len(Active(f)) - 1
  BY <1>1, <1>2, RowRemoved
<1>4. g = Retyped(f, text, cursor)
  BY <1>1, <1>2 DEF RemoveChar, Retyped
<1> QED BY <1>2, <1>3, <1>4

\* DeleteChar is in place and local.
LEMMA DeleteCharIs ==
  ASSUME NEW f, EditorOK(f)
  PROVE  EditorOK(DeleteChar(f)) /\ Local(f, DeleteChar(f))
<1>1. CASE ~Exists(f)
  <2>1. DeleteChar(f) = f
    BY <1>1 DEF DeleteChar
  <2> QED BY <2>1, CellsOfPairs
<1>2. CASE Exists(f)
  <2>1. /\ f.cursor \in 0..Len(Active(f)) /\ Len(Active(f)) \in Nat /\ Active(f) \in Seq(Chars)
        /\ f \in Editors
    BY PlaceIs DEF EditorOK, Placed, FieldsOK
  <2>2. CASE f.cursor < Len(Active(f))
    <3>1. PICK at \in 1..Len(Active(f)) : at = f.cursor + 1
      BY <2>1, <2>2
    <3>2. PICK cursor \in 0..(Len(Active(f)) - 1) : cursor = f.cursor
      BY <2>1, <2>2
    <3>3. PICK h : h = RemoveChar(f, at)
      OBVIOUS
    <3>4. h = [RemoveChar(f, at) EXCEPT !.cursor = cursor]
      BY <2>1, <3>2, <3>3 DEF RemoveChar, Editors
    <3>5. PICK text \in Seq(Chars) : cursor \in 0..Len(text) /\ h = Retyped(f, text, cursor)
      BY <1>2, <3>4, RemovedCharIs
    <3>6. DeleteChar(f) = DropEmpty(h)
      BY <1>2, <2>2, <3>1, <3>3 DEF DeleteChar
    <3>7. EditorOK(DropEmpty(h)) /\ Local(f, DropEmpty(h))
      BY <1>2, <3>5, DropIs
    <3> QED BY <3>6, <3>7
  <2>3. CASE ~(f.cursor < Len(Active(f)))
    <3>1. DeleteChar(f) = DropEmpty(f)
      BY <1>2, <2>3 DEF DeleteChar
    <3>2. ~(HasRows(Kind(f)) /\ Empty(Row(f)))
      <4>1. FieldOK(Kind(f), RowsOf(f)) /\ f.item \in 1..Len(RowsOf(f))
        BY <1>2, PlaceIs DEF EditorOK
      <4> QED BY <4>1 DEF FieldOK, Row
    <3>3. DropEmpty(f) = f
      BY <3>2 DEF DropEmpty
    <3> QED BY <3>1, <3>3, CellsOfPairs
  <2> QED BY <2>2, <2>3
<1> QED BY <1>1, <1>2

\* A character is deleted back.
LEMMA BackIs ==
  ASSUME NEW f, EditorOK(f), Exists(f), f.cursor > 0
  PROVE  LET text == RemoveAt(Active(f), f.cursor)
         IN  /\ text \in Seq(Chars) /\ f.cursor - 1 \in 0..Len(text)
             /\ PopChar(f) = DropEmpty(Retyped(f, text, f.cursor - 1))
<1>1. /\ f.cursor \in 0..Len(Active(f)) /\ Len(Active(f)) \in Nat /\ Active(f) \in Seq(Chars)
      /\ f \in Editors
  BY PlaceIs DEF EditorOK, Placed, FieldsOK
<1>2. PICK at \in 1..Len(Active(f)) : at = f.cursor
  BY <1>1
<1>3. PICK cursor \in 0..(Len(Active(f)) - 1) : cursor = f.cursor - 1
  BY <1>1
<1>4. PICK g : g = [RemoveChar(f, at) EXCEPT !.cursor = cursor]
  OBVIOUS
<1>5. /\ RemoveAt(Active(f), at) \in Seq(Chars) /\ cursor \in 0..Len(RemoveAt(Active(f), at))
      /\ g = Retyped(f, RemoveAt(Active(f), at), cursor)
  BY <1>4, RemovedCharIs
<1>6. g = [RemoveChar(f, f.cursor) EXCEPT !.cursor = @ - 1]
  <2>1. RemoveChar(f, at).cursor = f.cursor
    BY <1>1 DEF RemoveChar, Editors
  <2> QED BY <1>2, <1>3, <1>4, <2>1
<1>7. PopChar(f) = DropEmpty(g)
  BY <1>1, <1>6 DEF PopChar
<1> QED BY <1>2, <1>3, <1>5, <1>7

\* PopChar is in place and local.
LEMMA PopCharIs ==
  ASSUME NEW f, EditorOK(f)
  PROVE  EditorOK(PopChar(f)) /\ Local(f, PopChar(f))
<1>1. /\ f.cursor \in 0..Len(Active(f)) /\ Len(Active(f)) \in Nat
      /\ FieldOK(Kind(f), RowsOf(f)) /\ Len(RowsOf(f)) \in Nat
      /\ f.item \in 1..(Len(RowsOf(f)) + 1) /\ (~Exists(f) => Len(Active(f)) = 0)
      /\ RowsIn(f, f.selected) = IF HasRows(Kind(f)) THEN Len(RowsOf(f)) + 1 ELSE 1
  BY PlaceIs DEF EditorOK
<1>2. CASE HasRows(Kind(f)) /\ ~Exists(f)
  <2>1. CASE f.item > 1
    <3>1. PICK item \in 1..RowsIn(f, f.selected) : item = f.item - 1
      BY <1>1, <1>2, <2>1
    <3>2. PICK cell \in 1..Cells(Kind(f)) : cell = Cells(Kind(f))
      BY DEF Cells
    <3>3. PICK g : g = [f EXCEPT !.item = item, !.cell = cell]
      OBVIOUS
    <3>4. Placed(g) /\ Local(f, g)
      BY <3>3, RowIs
    <3>5. PopChar(f) = ToEnd(g)
      BY <1>2, <2>1, <3>1, <3>2, <3>3 DEF PopChar
    <3> QED BY <3>4, <3>5, EndsThere
  <2>2. CASE ~(f.item > 1)
    <3>1. PopChar(f) = f
      BY <1>2, <2>2 DEF PopChar
    <3> QED BY <3>1, CellsOfPairs
  <2> QED BY <2>1, <2>2
<1>3. CASE ~(HasRows(Kind(f)) /\ ~Exists(f)) /\ f.cursor = 0
  <2>1. CASE f.cell = 2
    <3>1. PICK g : g = [f EXCEPT !.cell = 1]
      OBVIOUS
    <3>2. EditorOK(ToEnd(g)) /\ Local(f, ToEnd(g))
      BY <2>1, <3>1, CellsOfPairs, OtherCellIs
    <3>3. PopChar(f) = ToEnd(g)
      BY <1>3, <2>1, <3>1 DEF PopChar
    <3> QED BY <3>2, <3>3
  <2>2. CASE f.cell # 2
    <3>1. PopChar(f) = f
      BY <1>3, <2>2 DEF PopChar
    <3> QED BY <3>1, CellsOfPairs
  <2> QED BY <2>1, <2>2
<1>4. CASE f.cursor # 0
  <2>1. Exists(f) /\ f.cursor > 0
    BY <1>1, <1>4
  <2>2. PICK text \in Seq(Chars) : /\ f.cursor - 1 \in 0..Len(text)
                                   /\ PopChar(f) = DropEmpty(Retyped(f, text, f.cursor - 1))
    BY <2>1, BackIs
  <2>3. PICK cursor \in 0..Len(text) : cursor = f.cursor - 1
    BY <2>2
  <2>4. EditorOK(DropEmpty(Retyped(f, text, cursor))) /\ Local(f, DropEmpty(Retyped(f, text, cursor)))
    BY <2>1, DropIs
  <2> QED BY <2>2, <2>3, <2>4
<1> QED BY <1>2, <1>3, <1>4

-----------------------------------------------------------------------------
(* TuiForm: deleting a word *)

\* A form is its fields and where its caret is.
LEMMA SameEditor ==
  ASSUME NEW g \in Editors, NEW h \in Editors, g.fields = h.fields, g.selected = h.selected,
         g.item = h.item, g.cell = h.cell, g.cursor = h.cursor
  PROVE  g = h
BY DEF Editors

\* The last of two texts counts, and the text that is there is the form itself.
LEMMA RetypedAgain ==
  ASSUME NEW f, EditorOK(f), Exists(f), NEW text \in Seq(Chars), NEW cursor \in Nat,
         NEW g, g = Retyped(f, text, cursor), EditorOK(g),
         NEW again \in Seq(Chars), NEW there \in Nat
  PROVE  /\ Exists(g) /\ Active(g) = text /\ g.cursor = cursor
         /\ Retyped(g, again, there) = Retyped(f, again, there)
<1> DEFINE R == [1..Cells(Kind(f)) -> Seq(Chars)]
<1>1. /\ f \in Editors /\ f.selected \in DOMAIN FieldKinds /\ f.item \in 1..Len(RowsOf(f))
      /\ DOMAIN RowsOf(f) = 1..Len(RowsOf(f)) /\ Row(f) \in R /\ f.cell \in 1..Cells(Kind(f))
  <2>1. /\ f \in Editors /\ f.selected \in DOMAIN FieldKinds /\ f.item \in 1..Len(RowsOf(f))
        /\ Kind(f) \in {"text", "list", "pairs", "bool"} /\ FieldOK(Kind(f), RowsOf(f))
        /\ Row(f) \in R /\ f.cell \in 1..Cells(Kind(f))
    BY PlaceIs DEF EditorOK, Placed, FieldsOK
  <2> QED BY <2>1, RowsAre
<1>2. /\ g \in Editors /\ g.fields = FieldsWith(f, RowsWith(f, text)) /\ g.selected = f.selected
      /\ g.item = f.item /\ g.cell = f.cell /\ g.cursor = cursor /\ Exists(g) /\ Active(g) = text
      /\ RowsOf(g) = RowsWith(f, text) /\ Row(g) = RowWith(f, text)
  BY RetypedIs
<1>3. RowWith(g, again) = RowWith(f, again)
  BY <1>1, <1>2 DEF RowWith
<1>4. RowsWith(g, again) = RowsWith(f, again)
  <2>1. PICK row : row = RowWith(f, again)
    OBVIOUS
  <2>2. [RowsWith(f, text) EXCEPT ![f.item] = row] = [RowsOf(f) EXCEPT ![f.item] = row]
    BY <1>1 DEF RowsWith
  <2> QED BY <1>2, <1>3, <2>1, <2>2 DEF RowsWith
<1>5. FieldsWith(g, RowsWith(g, again)) = FieldsWith(f, RowsWith(f, again))
  <2>1. PICK rows : rows = RowsWith(f, again)
    OBVIOUS
  <2>2. PICK old : old = RowsWith(f, text)
    OBVIOUS
  <2>3. [FieldsWith(f, old) EXCEPT ![f.selected] = rows] = [f.fields EXCEPT ![f.selected] = rows]
    BY <1>1 DEF FieldsWith, Editors
  <2> QED BY <1>2, <1>4, <2>1, <2>2, <2>3 DEF FieldsWith
<1>6. PICK g2 : g2 = Retyped(g, again, there)
  OBVIOUS
<1>7. PICK g3 : g3 = Retyped(f, again, there)
  OBVIOUS
<1>8. /\ g2 \in Editors /\ g2.fields = FieldsWith(g, RowsWith(g, again)) /\ g2.selected = g.selected
      /\ g2.item = g.item /\ g2.cell = g.cell /\ g2.cursor = there
  BY <1>2, <1>6, RetypedIs
<1>9. /\ g3 \in Editors /\ g3.fields = FieldsWith(f, RowsWith(f, again)) /\ g3.selected = f.selected
      /\ g3.item = f.item /\ g3.cell = f.cell /\ g3.cursor = there
  BY <1>7, RetypedIs
<1>10. g2 = g3
  BY <1>2, <1>5, <1>8, <1>9, SameEditor
<1> QED BY <1>2, <1>6, <1>7, <1>10

\* The text that is there, typed again, is no change.
LEMMA RetypedSame ==
  ASSUME NEW f, EditorOK(f), Exists(f)
  PROVE  Retyped(f, Active(f), f.cursor) = f
<1> DEFINE R == [1..Cells(Kind(f)) -> Seq(Chars)]
<1>1. /\ f \in Editors /\ f.selected \in DOMAIN FieldKinds /\ f.item \in 1..Len(RowsOf(f))
      /\ RowsOf(f) \in Seq(R) /\ Row(f) \in R /\ f.cell \in 1..Cells(Kind(f))
      /\ Active(f) = Row(f)[f.cell] /\ Active(f) \in Seq(Chars) /\ f.cursor \in Nat
  <2>1. /\ f \in Editors /\ f.selected \in DOMAIN FieldKinds /\ f.item \in 1..Len(RowsOf(f))
        /\ Kind(f) \in {"text", "list", "pairs", "bool"} /\ FieldOK(Kind(f), RowsOf(f))
        /\ Row(f) \in R /\ f.cell \in 1..Cells(Kind(f))
        /\ Active(f) = Row(f)[f.cell] /\ Active(f) \in Seq(Chars)
    BY PlaceIs DEF EditorOK, Placed, FieldsOK
  <2>2. f.cursor \in Nat
    BY <2>1 DEF Editors
  <2> QED BY <2>1, <2>2, RowsAre
<1>2. RowWith(f, Active(f)) = Row(f)
  BY <1>1 DEF RowWith
<1>3. RowsWith(f, Active(f)) = RowsOf(f)
  <2>1. DOMAIN RowsOf(f) = 1..Len(RowsOf(f)) /\ RowsOf(f) \in [1..Len(RowsOf(f)) -> R]
    <3> HIDE DEF R
    <3> QED BY <1>1, LenProperties
  <2> HIDE DEF R
  <2>2. [RowsOf(f) EXCEPT ![f.item] = Row(f)] = RowsOf(f)
    BY <1>1, <2>1 DEF Row
  <2> QED BY <1>2, <2>2 DEF RowsWith
<1>4. PICK g : g = Retyped(f, Active(f), f.cursor)
  OBVIOUS
<1>5. /\ g \in Editors /\ g.fields = FieldsWith(f, RowsWith(f, Active(f))) /\ g.selected = f.selected
      /\ g.item = f.item /\ g.cell = f.cell /\ g.cursor = f.cursor
  BY <1>1, <1>4, RetypedIs
<1>6. FieldsWith(f, RowsOf(f)) = f.fields
  BY <1>1 DEF Editors, RowsOf, FieldsWith
<1> QED BY <1>1, <1>3, <1>4, <1>5, <1>6, SameEditor

\* A text without the n characters before the caret.
Cut(text, cursor, n) == SubSeq(text, 1, cursor - n) \o SubSeq(text, cursor + 1, Len(text))

\* The characters of a text that is cut.
LEMMA CutIs ==
  ASSUME NEW S, NEW text \in Seq(S), NEW cursor \in 0..Len(text), NEW n \in 0..cursor
  PROVE  /\ Cut(text, cursor, n) \in Seq(S) /\ Len(Cut(text, cursor, n)) = Len(text) - n
         /\ \A j \in 1..(Len(text) - n) :
              Cut(text, cursor, n)[j] = IF j <= cursor - n THEN text[j] ELSE text[j + n]
<1> DEFINE first == SubSeq(text, 1, cursor - n)
           rest == SubSeq(text, cursor + 1, Len(text))
           cut == Cut(text, cursor, n)
<1>1. Len(text) \in Nat /\ cursor \in Nat /\ n \in Nat /\ cursor <= Len(text) /\ n <= cursor
  BY LenProperties
<1>2. /\ first \in Seq(S) /\ Len(first) = cursor - n
      /\ \A i \in 1..(cursor - n) : first[i] = text[i]
  <2>1. PICK m \in Nat \ {0} : m = 1
    OBVIOUS
  <2>2. PICK to \in 0..Len(text) : to = cursor - n
    BY <1>1
  <2>3. m <= to + 1 /\ to - m + 1 = to /\ \A i \in 1..to : m + i - 1 = i
    BY <2>1, <2>2
  <2>4. /\ SubSeq(text, m, to) \in Seq(S) /\ Len(SubSeq(text, m, to)) = to - m + 1
        /\ \A i \in 1..(to - m + 1) : SubSeq(text, m, to)[i] = text[m + i - 1]
    BY <2>3, PartIs
  <2> QED BY <2>1, <2>2, <2>3, <2>4
<1>3. /\ rest \in Seq(S) /\ Len(rest) = Len(text) - cursor
      /\ \A i \in 1..(Len(text) - cursor) : rest[i] = text[cursor + i]
  <2>1. PICK m \in Nat \ {0} : m = cursor + 1
    BY <1>1
  <2>2. PICK to \in 0..Len(text) : to = Len(text)
    BY <1>1
  <2>3. /\ m <= to + 1 /\ to - m + 1 = Len(text) - cursor
        /\ \A i \in 1..(Len(text) - cursor) : m + i - 1 = cursor + i
    BY <1>1, <2>1, <2>2
  <2>4. /\ SubSeq(text, m, to) \in Seq(S) /\ Len(SubSeq(text, m, to)) = to - m + 1
        /\ \A i \in 1..(to - m + 1) : SubSeq(text, m, to)[i] = text[m + i - 1]
    BY <2>3, PartIs
  <2> QED BY <2>1, <2>2, <2>3, <2>4
<1>4. cut = first \o rest
  BY DEF Cut
<1> HIDE DEF first, rest, cut
<1>5. /\ cut \in Seq(S) /\ Len(cut) = Len(first) + Len(rest)
      /\ \A i \in 1..(Len(first) + Len(rest)) :
           cut[i] = IF i <= Len(first) THEN first[i] ELSE rest[i - Len(first)]
  BY <1>2, <1>3, <1>4, ConcatProperties
<1>6. Len(first) + Len(rest) = Len(text) - n
  BY <1>1, <1>2, <1>3
<1>7. ASSUME NEW j \in 1..(Len(text) - n)
      PROVE  cut[j] = IF j <= cursor - n THEN text[j] ELSE text[j + n]
  <2>1. cut[j] = IF j <= cursor - n THEN first[j] ELSE rest[j - (cursor - n)]
    BY <1>2, <1>5, <1>6
  <2>2. CASE j <= cursor - n
    BY <1>1, <1>2, <2>1, <2>2
  <2>3. CASE ~(j <= cursor - n)
    <3>1. PICK i \in 1..(Len(text) - cursor) : i = j - (cursor - n) /\ cursor + i = j + n
      BY <1>1, <2>3
    <3> QED BY <1>3, <2>1, <2>3, <3>1
  <2> QED BY <2>2, <2>3
<1> QED BY <1>5, <1>6, <1>7 DEF cut

\* One more character.
LEMMA CutOn ==
  ASSUME NEW S, NEW text \in Seq(S), NEW cursor \in 0..Len(text), NEW n \in 0..cursor, n < cursor
  PROVE  RemoveAt(Cut(text, cursor, n), cursor - n) = Cut(text, cursor, n + 1)
<1>1. Len(text) \in Nat /\ cursor \in Nat /\ n \in Nat /\ cursor <= Len(text)
  BY LenProperties
<1>2. PICK m \in 0..cursor : m = n + 1
  BY <1>1
<1>3. PICK cut : cut = Cut(text, cursor, n)
  OBVIOUS
<1>4. PICK next : next = Cut(text, cursor, m)
  OBVIOUS
<1>5. /\ cut \in Seq(S) /\ Len(cut) = Len(text) - n
      /\ \A j \in 1..(Len(text) - n) : cut[j] = IF j <= cursor - n THEN text[j] ELSE text[j + n]
  BY <1>3, CutIs
<1>6. /\ next \in Seq(S) /\ Len(next) = Len(text) - m
      /\ \A j \in 1..(Len(text) - m) : next[j] = IF j <= cursor - m THEN text[j] ELSE text[j + m]
  BY <1>4, CutIs
<1>7. PICK at \in 1..Len(cut) : at = cursor - n
  BY <1>1, <1>5
<1>8. PICK less : less = RemoveAt(cut, at)
  OBVIOUS
<1>9. /\ less \in Seq(S) /\ Len(less) = Len(cut) - 1
      /\ \A j \in 1..(Len(cut) - 1) : less[j] = IF j < at THEN cut[j] ELSE cut[j + 1]
  BY <1>5, <1>8, RowRemoved
<1>10. Len(cut) - 1 = Len(text) - m
  BY <1>1, <1>2, <1>5
<1>11. ASSUME NEW j \in 1..(Len(text) - m) PROVE less[j] = next[j]
  <2>1. CASE j < at
    <3>1. j \in 1..(Len(text) - n) /\ j <= cursor - n /\ j <= cursor - m
      BY <1>1, <1>2, <1>7, <2>1
    <3> QED BY <1>5, <1>6, <1>9, <1>10, <2>1, <3>1
  <2>2. CASE ~(j < at)
    <3>1. PICK i \in 1..(Len(text) - n) :
            i = j + 1 /\ ~(i <= cursor - n) /\ ~(j <= cursor - m) /\ i + n = j + m
      BY <1>1, <1>2, <1>7, <2>2
    <3> QED BY <1>5, <1>6, <1>9, <1>10, <2>2, <3>1
  <2> QED BY <2>1, <2>2
<1>12. less = next
  BY <1>6, <1>9, <1>10, <1>11, SeqEqual
<1> QED BY <1>2, <1>3, <1>4, <1>7, <1>8, <1>12

\* None of them.
LEMMA CutNone ==
  ASSUME NEW S, NEW text \in Seq(S), NEW cursor \in 0..Len(text)
  PROVE  Cut(text, cursor, 0) = text
<1>1. Len(text) \in Nat /\ cursor \in Nat
  BY LenProperties
<1>2. PICK n \in 0..cursor : n = 0
  BY <1>1
<1>3. PICK cut : cut = Cut(text, cursor, n)
  OBVIOUS
<1>4. /\ cut \in Seq(S) /\ Len(cut) = Len(text) - n
      /\ \A j \in 1..(Len(text) - n) : cut[j] = IF j <= cursor - n THEN text[j] ELSE text[j + n]
  BY <1>3, CutIs
<1>5. Len(text) - n = Len(text) /\ \A j \in 1..Len(text) : j + n = j
  BY <1>1, <1>2
<1>6. \A j \in 1..Len(text) : cut[j] = text[j]
  BY <1>4, <1>5
<1>7. cut = text
  BY <1>4, <1>5, <1>6, SeqEqual
<1> QED BY <1>2, <1>3, <1>7

\* k times PopChar, as PopWord has it.
Popped(f, k) ==
  LET Pops[n \in 0..k] == IF n = 0 THEN f ELSE PopChar(Pops[n - 1]) IN Pops[k]

\* The function by which PopWord deletes has the value of any that deletes as it does.
LEMMA PopsAre ==
  ASSUME NEW k \in Nat, NEW f, NEW passed, passed[0] = f,
         \A n \in 1..k : passed[n] = PopChar(passed[n - 1])
  PROVE  Popped(f, k) = passed[k]
<1> DEFINE Good(g) == g = [n \in 0..k |-> IF n = 0 THEN f ELSE PopChar(g[n - 1])]
           first == [n \in 0..k |-> passed[n]]
           pops == CHOOSE g : Good(g)
<1>1. Good(first)
  <2> DEFINE second == [n \in 0..k |-> IF n = 0 THEN f ELSE PopChar(first[n - 1])]
  <2>1. ASSUME NEW n \in 0..k PROVE first[n] = second[n]
    <3>1. CASE n = 0
      BY <3>1
    <3>2. CASE n # 0
      <4>1. n \in 1..k /\ n - 1 \in 0..k
        BY <3>2
      <4>2. first[n - 1] = passed[n - 1] /\ first[n] = passed[n]
        BY <4>1
      <4>3. second[n] = PopChar(first[n - 1])
        <5> HIDE DEF first
        <5> QED BY <3>2
      <4> HIDE DEF first, second
      <4> QED BY <4>1, <4>2, <4>3
    <3> QED BY <3>1, <3>2
  <2>2. first = [n \in 0..k |-> first[n]]
    OBVIOUS
  <2> HIDE DEF first
  <2>3. second = [n \in 0..k |-> second[n]]
    OBVIOUS
  <2> HIDE DEF second
  <2>4. first = second
    BY <2>1, <2>2, <2>3
  <2> QED BY <2>4 DEF second
<1>2. Good(pops)
  <2> HIDE DEF first
  <2> QED BY <1>1
<1> HIDE DEF pops
<1>3. \A n \in 0..k : pops[n] = passed[n]
  <2> DEFINE bad == {n \in 0..k : pops[n] # passed[n]}
  <2> SUFFICES ASSUME bad # {} PROVE FALSE
    OBVIOUS
  <2>1. PICK n \in bad : \A v \in bad : n <= v
    <3> HIDE DEF bad
    <3>1. bad \in SUBSET Nat
      BY DEF bad
    <3> QED BY <3>1, LeastLength
  <2>2. n \in 0..k /\ pops[n] # passed[n]
    BY <2>1
  <2>3. pops[n] = IF n = 0 THEN f ELSE PopChar(pops[n - 1])
    BY <1>2, <2>2, Zenon
  <2>4. n # 0
    BY <2>2, <2>3
  <2>5. n \in 1..k /\ n - 1 \in 0..k /\ n - 1 \notin bad
    <3>1. n \in 1..k /\ n - 1 \in 0..k /\ ~(n <= n - 1)
      BY <2>2, <2>4
    <3> HIDE DEF bad
    <3> QED BY <2>1, <3>1
  <2>6. pops[n - 1] = passed[n - 1]
    BY <2>5
  <2>7. passed[n] = PopChar(passed[n - 1])
    BY <2>5
  <2> QED BY <2>2, <2>3, <2>4, <2>6, <2>7, Zenon
<1>4. pops[k] = passed[k]
  BY <1>3
<1> QED BY <1>4, Zenon DEF pops, Popped

\* The form when n characters of the word are deleted.
Deleted(f, n) == Retyped(f, Cut(Active(f), f.cursor, n), f.cursor - n)

\* One more of them, before the row is empty and at last.
LEMMA OneMore ==
  ASSUME NEW f, EditorOK(f), Exists(f), NEW n \in 0..f.cursor, n < f.cursor, EditorOK(Deleted(f, n))
  PROVE  /\ PopChar(Deleted(f, n)) = DropEmpty(Deleted(f, n + 1))
         /\ n + 1 < f.cursor => /\ PopChar(Deleted(f, n)) = Deleted(f, n + 1)
                                /\ EditorOK(Deleted(f, n + 1))
<1>1. /\ Active(f) \in Seq(Chars) /\ f.cursor \in 0..Len(Active(f)) /\ Len(Active(f)) \in Nat
      /\ Row(f) \in [1..Cells(Kind(f)) -> Seq(Chars)] /\ f.cell \in 1..Cells(Kind(f))
  BY PlaceIs DEF EditorOK
<1>2. PICK text : text = Cut(Active(f), f.cursor, n)
  OBVIOUS
<1>3. PICK cursor : cursor = f.cursor - n
  OBVIOUS
<1>4. PICK m \in 0..f.cursor : m = n + 1
  BY <1>1
<1>5. PICK next : next = Cut(Active(f), f.cursor, m)
  OBVIOUS
<1>6. text \in Seq(Chars) /\ Len(text) = Len(Active(f)) - n
  BY <1>1, <1>2, CutIs
<1>7. next \in Seq(Chars) /\ Len(next) = Len(Active(f)) - m
  BY <1>1, <1>5, CutIs
<1>8. RemoveAt(text, cursor) = next
  BY <1>1, <1>2, <1>3, <1>4, <1>5, CutOn
<1>9. cursor \in Nat /\ cursor > 0 /\ cursor - 1 = f.cursor - m /\ cursor - 1 \in Nat
  BY <1>1, <1>3, <1>4
<1>10. PICK g : g = Retyped(f, text, cursor)
  OBVIOUS
<1>11. g = Deleted(f, n) /\ EditorOK(g)
  BY <1>2, <1>3, <1>10 DEF Deleted
<1>12. /\ Exists(g) /\ Active(g) = text /\ g.cursor = cursor
       /\ Retyped(g, next, cursor - 1) = Retyped(f, next, cursor - 1)
  <2>1. PICK there \in Nat : there = cursor - 1
    BY <1>9
  <2>2. /\ Exists(g) /\ Active(g) = text /\ g.cursor = cursor
        /\ Retyped(g, next, there) = Retyped(f, next, there)
    <3>1. text \in Seq(Chars) /\ next \in Seq(Chars) /\ cursor \in Nat /\ EditorOK(g)
      BY <1>6, <1>7, <1>9, <1>11
    <3>2. there \in Nat
      OBVIOUS
    <3> HIDE <2>1
    <3> QED BY <1>10, <3>1, <3>2, RetypedAgain
  <2> QED BY <2>1, <2>2
<1>13. PopChar(g) = DropEmpty(Retyped(g, next, cursor - 1))
  BY <1>8, <1>9, <1>11, <1>12, BackIs
<1>14. PICK h : h = Retyped(f, next, cursor - 1)
  OBVIOUS
<1>15. h = Deleted(f, n + 1)
  BY <1>4, <1>5, <1>9, <1>14 DEF Deleted
<1>16. PopChar(g) = DropEmpty(h)
  BY <1>12, <1>13, <1>14
<1>17. ASSUME n + 1 < f.cursor PROVE DropEmpty(h) = h /\ EditorOK(h)
  <2>1. ~Gone(f, next)
    <3>1. RowWith(f, next) \in [1..Cells(Kind(f)) -> Seq(Chars)] /\ RowWith(f, next)[f.cell] = next
      BY <1>1, <1>7 DEF RowWith
    <3>2. Len(RowWith(f, next)[f.cell]) > 0 /\ Cells(Kind(f)) \in Nat
      <4>1. Len(next) > 0
        BY <1>1, <1>4, <1>7, <1>17
      <4> QED BY <3>1, <4>1 DEF Cells
    <3>3. ~Empty(RowWith(f, next))
      BY <1>1, <3>1, <3>2, EmptyIs
    <3> QED BY <3>3 DEF Gone
  <2>2. PICK there \in 0..Len(next) : there = cursor - 1
    BY <1>1, <1>4, <1>7, <1>9
  <2>3. h = Retyped(f, next, there)
    BY <1>14, <2>2
  <2>4. PICK d : d = DropEmpty(h)
    OBVIOUS
  <2>5. EditorOK(d) /\ d = h
    BY <1>7, <2>1, <2>3, <2>4, DropIs
  <2> QED BY <2>4, <2>5
<1> QED BY <1>11, <1>15, <1>16, <1>17

\* A word is deleted a character at a time, and is deleted whole.
LEMMA PopWordIs ==
  ASSUME NEW f, EditorOK(f), Exists(f), f.cursor > 0
  PROVE  LET k == f.cursor - WordStart(Active(f), f.cursor)
         IN  k \in 1..f.cursor /\ PopWord(f) = DropEmpty(Deleted(f, k))
<1>1. /\ Active(f) \in Seq(Chars) /\ f.cursor \in 0..Len(Active(f)) /\ Len(Active(f)) \in Nat
  BY PlaceIs DEF EditorOK
<1>2. PICK start \in 0..f.cursor : start = WordStart(Active(f), f.cursor) /\ start < f.cursor
  BY <1>1, WordsAre
<1>3. PICK k \in 1..f.cursor : k = f.cursor - start
  BY <1>1, <1>2
<1>4. Deleted(f, 0) = f
  <2>1. Cut(Active(f), f.cursor, 0) = Active(f)
    BY <1>1, CutNone
  <2>2. f.cursor - 0 = f.cursor
    BY <1>1
  <2> QED BY <2>1, <2>2, RetypedSame DEF Deleted
<1>5. \A n \in 0..(k - 1) : EditorOK(Deleted(f, n))
  <2> DEFINE bad == {n \in 0..(k - 1) : ~EditorOK(Deleted(f, n))}
  <2> SUFFICES ASSUME bad # {} PROVE FALSE
    OBVIOUS
  <2>1. PICK n \in bad : \A v \in bad : n <= v
    <3> HIDE DEF bad
    <3>1. bad \in SUBSET Nat
      BY DEF bad
    <3> QED BY <3>1, LeastLength
  <2>2. n \in 0..(k - 1) /\ ~EditorOK(Deleted(f, n))
    BY <2>1
  <2>3. n # 0
    BY <1>4, <2>2
  <2>4. PICK m \in 0..f.cursor : n = m + 1 /\ m \in 0..(k - 1) /\ m + 1 < f.cursor /\ m < f.cursor /\ ~(n <= m)
    BY <1>1, <1>3, <2>2, <2>3
  <2>5. EditorOK(Deleted(f, m))
    <3>1. m \notin bad
      <4> HIDE DEF bad
      <4> QED BY <2>1, <2>4
    <3> QED BY <2>4, <3>1
  <2>6. EditorOK(Deleted(f, m + 1))
    BY <2>4, <2>5, OneMore
  <2> QED BY <2>2, <2>4, <2>6
<1> DEFINE passed == [n \in 0..k |-> IF n = k THEN DropEmpty(Deleted(f, k)) ELSE Deleted(f, n)]
<1>6. passed[0] = f /\ passed[k] = DropEmpty(Deleted(f, k))
  BY <1>1, <1>3, <1>4
<1>7. ASSUME NEW n \in 1..k PROVE passed[n] = PopChar(passed[n - 1])
  <2>1. PICK m \in 0..f.cursor : n = m + 1 /\ m = n - 1 /\ m \in 0..(k - 1) /\ m < f.cursor /\ m \in 0..k /\ m # k
    BY <1>1, <1>3
  <2>2. passed[m] = Deleted(f, m) /\ EditorOK(Deleted(f, m))
    BY <1>5, <2>1
  <2>3. CASE n = k
    <3>1. passed[n] = DropEmpty(Deleted(f, n))
      BY <2>3
    <3> HIDE DEF passed
    <3>2. PopChar(Deleted(f, m)) = DropEmpty(Deleted(f, m + 1))
      BY <2>1, <2>2, OneMore
    <3> QED BY <2>1, <2>2, <3>1, <3>2
  <2>4. CASE n # k
    <3>1. passed[n] = Deleted(f, n)
      BY <2>4
    <3> HIDE DEF passed
    <3>2. m + 1 < f.cursor
      BY <1>1, <1>3, <2>1, <2>4
    <3>3. PopChar(Deleted(f, m)) = Deleted(f, m + 1)
      BY <2>1, <2>2, <3>2, OneMore
    <3> QED BY <2>1, <2>2, <3>1, <3>3
  <2> QED BY <2>3, <2>4
<1> HIDE DEF passed
<1>8. Popped(f, k) = passed[k]
  <2>1. k \in Nat
    BY <1>1, <1>3
  <2> QED BY <1>6, <1>7, <2>1, PopsAre
<1>9. PopWord(f) = Popped(f, k)
  BY <1>2, <1>3 DEF PopWord, Popped
<1>10. PopWord(f) = DropEmpty(Deleted(f, k))
  BY <1>6, <1>8, <1>9, Zenon
<1> QED BY <1>2, <1>3, <1>10

\* PopWord in a text leaves the form without the characters of the word.
LEMMA DeletedIs ==
  ASSUME NEW f, EditorOK(f), Exists(f), f.cursor > 0,
         NEW k, k = f.cursor - WordStart(Active(f), f.cursor),
         NEW left, left = Cut(Active(f), f.cursor, k), NEW g, g = PopWord(f)
  PROVE  /\ EditorOK(g) /\ Local(f, g)
         /\ RowsOf(g) = IF Gone(f, left) THEN RemoveAt(RowsOf(f), f.item) ELSE RowsWith(f, left)
<1>1. /\ Active(f) \in Seq(Chars) /\ f.cursor \in 0..Len(Active(f)) /\ Len(Active(f)) \in Nat
  BY PlaceIs DEF EditorOK
<1>2. k \in 1..f.cursor /\ g = DropEmpty(Deleted(f, k))
  BY PopWordIs
<1>3. PICK m \in 0..f.cursor : m = k
  BY <1>1, <1>2
<1>4. left \in Seq(Chars) /\ Len(left) = Len(Active(f)) - m
  BY <1>1, <1>3, CutIs
<1>5. PICK cursor \in 0..Len(left) : cursor = f.cursor - k
  BY <1>1, <1>2, <1>3, <1>4
<1>6. PICK r : r = Retyped(f, left, cursor)
  OBVIOUS
<1>7. g = DropEmpty(r)
  BY <1>2, <1>5, <1>6 DEF Deleted
<1> QED BY <1>4, <1>6, <1>7, DropIs

\* PopWord is in place and local.
LEMMA PopWordOK ==
  ASSUME NEW f, EditorOK(f)
  PROVE  EditorOK(PopWord(f)) /\ Local(f, PopWord(f))
<1>1. CASE Exists(f) /\ f.cursor > 0
  BY <1>1, DeletedIs
<1>2. CASE ~(Exists(f) /\ f.cursor > 0)
  <2>1. PopWord(f) = PopChar(f)
    <3>1. CASE ~Exists(f)
      BY <3>1 DEF PopWord
    <3>2. CASE Exists(f)
      <4>1. /\ Active(f) \in Seq(Chars) /\ f.cursor \in 0..Len(Active(f)) /\ Len(Active(f)) \in Nat
        BY PlaceIs DEF EditorOK
      <4>2. f.cursor = 0
        BY <1>2, <3>2, <4>1
      <4>3. WordStart(Active(f), f.cursor) \in 0..f.cursor
        BY <4>1, WordsAre
      <4>4. WordStart(Active(f), f.cursor) = f.cursor
        BY <4>2, <4>3
      <4> QED BY <3>2, <4>4 DEF PopWord
    <3> QED BY <3>1, <3>2
  <2> QED BY <2>1, PopCharIs
<1> QED BY <1>1, <1>2

-----------------------------------------------------------------------------
(* TuiForm: the theorem *)

\* The new form is right.
LEMMA FormInitOK == FormInit => EditorOK(editor)
<1> SUFFICES ASSUME FormInit PROVE EditorOK(editor)
  OBVIOUS
<1> DEFINE start(kind) == IF kind = "text" THEN <<<<<<>>>>>> ELSE <<>>
<1>1. ASSUME NEW kind \in {"text", "list", "pairs", "bool"} PROVE FieldOK(kind, start(kind))
  <2>1. CASE kind = "text"
    <3> DEFINE R == [1..1 -> Seq(Chars)]
    <3>1. <<<<>>>> \in R
      <4>1. <<>> \in Seq(Chars)
        BY EmptySeq
      <4> DEFINE T == Seq(Chars)
      <4> HIDE DEF T
      <4>2. PICK none : none = <<>> /\ none \in T
        BY <4>1 DEF T
      <4>3. <<none>> \in [1..1 -> T]
        BY <4>2
      <4> QED BY <4>2, <4>3 DEF T
    <3> HIDE DEF R
    <3>2. <<<<<<>>>>>> \in Seq(R) /\ Len(<<<<<<>>>>>>) = 1
      BY <3>1
    <3> QED BY <2>1, <3>2 DEF FieldOK, RowsOfKind, Cells, HasRows, R
  <2>2. CASE kind # "text"
    <3> DEFINE R == [1..Cells(kind) -> Seq(Chars)]
    <3> HIDE DEF R
    <3>1. <<>> \in Seq(R) /\ Len(<<>>) = 0
      BY EmptySeq
    <3> QED BY <2>2, <3>1 DEF FieldOK, RowsOfKind, R
  <2> QED BY <2>1, <2>2
<1>2. /\ editor.fields = [i \in DOMAIN FieldKinds |-> start(FieldKinds[i])]
      /\ editor = [fields |-> editor.fields, selected |-> 1, item |-> 1, cell |-> 1, cursor |-> 0]
  BY DEF FormInit
<1> HIDE DEF start
<1>3. \A i \in DOMAIN FieldKinds :
        FieldKinds[i] \in {"text", "list", "pairs", "bool"} /\ FieldOK(FieldKinds[i], editor.fields[i])
  BY <1>1, <1>2, KindsAre
<1>4. editor \in Editors
  <2>1. \A i \in DOMAIN FieldKinds : editor.fields[i] \in FieldRows
    BY <1>3, RowsAre
  <2>2. editor.fields \in [DOMAIN FieldKinds -> FieldRows]
    BY <1>2, <2>1
  <2>3. 1 \in DOMAIN FieldKinds
    BY KindsAre
  <2> QED BY <1>2, <2>2, <2>3 DEF Editors
<1>5. Placed(editor)
  <2>1. \A i \in DOMAIN FieldKinds : HasRows(FieldKinds[i]) => Len(editor.fields[i]) = 0
    <3> TAKE i \in DOMAIN FieldKinds
    <3>1. HasRows(FieldKinds[i]) => editor.fields[i] = <<>>
      BY <1>2 DEF start, HasRows
    <3>2. Len(<<>>) = 0
      BY EmptySeq
    <3> QED BY <3>1, <3>2
  <2>2. FieldsOK(editor)
    BY <1>3, <1>4, <2>1 DEF FieldsOK
  <2>3. /\ editor.selected = 1 /\ editor.item = 1 /\ editor.cell = 1 /\ 1 \in DOMAIN FieldKinds
    BY <1>2, KindsAre
  <2>4. 1 \in 1..RowsIn(editor, 1) /\ 1 \in 1..Cells(Kind(editor))
    BY <2>1, <2>3 DEF RowsIn, Cells
  <2> QED BY <2>2, <2>3, <2>4 DEF Placed
<1>6. Len(Active(editor)) \in Nat /\ editor.cursor = 0
  BY <1>2, <1>5, PlaceIs
<1> QED BY <1>5, <1>6 DEF EditorOK

\* Every key keeps the form right, and is local.
LEMMA FormNextOK ==
  ASSUME EditorOK(editor), FormNext
  PROVE  EditorOK(editor') /\ Local(editor, editor')
<1>1. CASE Move
  <2>1. CASE editor' \in {SelectNext(editor), SelectPrevious(editor)}
    BY <2>1, SelectNextIs, SelectPreviousIs
  <2>2. CASE editor' \in {SelectNextCell(editor), SelectPreviousCell(editor)}
    BY <2>2, SelectCellIs
  <2>3. CASE editor' \in {Left(editor), Right(editor)}
    BY <2>3, LeftRightIs
  <2>4. CASE \E forward \in BOOLEAN : editor' = MoveWord(editor, forward)
    BY <2>4, MoveWordIs
  <2> QED BY <1>1, <2>1, <2>2, <2>3, <2>4 DEF Move
<1>2. CASE TypeText
  <2>1. CASE \E c \in Chars : editor' = PushChar(editor, c)
    BY <2>1, PushCharIs
  <2>2. CASE editor' \in {PushComma(editor), PushEquals(editor)}
    BY <2>2, PushedIs
  <2> QED BY <1>2, <2>1, <2>2 DEF TypeText
<1>3. CASE Delete
  BY <1>3, DeleteCharIs, PopCharIs DEF Delete
<1>4. CASE DeleteWord
  BY <1>4, PopWordOK DEF DeleteWord
<1> QED BY <1>1, <1>2, <1>3, <1>4 DEF FormNext

\* What is local edits locally.
LEMMA LocalEdits ==
  ASSUME Local(editor, editor')
  PROVE  EditsLocally
<1> SUFFICES ASSUME NEW i \in DOMAIN FieldKinds
             PROVE  LET before == editor.fields[i]
                        after == editor'.fields[i]
                    IN  CASE i # editor.selected -> after = before
                          [] i = editor.selected /\ editor'.selected # i ->
                               after = before \/ BlanksDropped(before, after)
                          [] i = editor.selected /\ editor'.selected = i ->
                               /\ Len(after) >= editor.item - 1
                               /\ SubSeq(after, 1, editor.item - 1) = SubSeq(before, 1, editor.item - 1)
                               /\ \E last \in {editor.item - 1, editor.item} :
                                    SubSeq(after, last + 1, Len(after))
                                      = SubSeq(before, editor.item + 1, Len(before))
  BY DEF EditsLocally
<1>1. CASE i # editor.selected
  BY <1>1 DEF Local
<1>2. CASE i = editor.selected /\ editor'.selected # i
  BY <1>2 DEF Local
<1>3. CASE i = editor.selected /\ editor'.selected = i
  BY <1>3 DEF Local, Around
<1> QED BY <1>1, <1>2, <1>3

\* A word is deleted whole.
LEMMA WholeWord ==
  ASSUME EditorOK(editor)
  PROVE  DeletesWholeWord
<1> SUFFICES ASSUME DeleteWord, Exists(editor), editor.cursor > 0
             PROVE  LET text == Active(editor)
                        start == WordStart(text, editor.cursor)
                        left == SubSeq(text, 1, start) \o SubSeq(text, editor.cursor + 1, Len(text))
                        row == [Row(editor) EXCEPT ![editor.cell] = left]
                        gone == HasRows(Kind(editor)) /\ Empty(row)
                    IN  RowsOf(editor') = IF gone THEN RemoveAt(RowsOf(editor), editor.item)
                                        ELSE [RowsOf(editor) EXCEPT ![editor.item] = row]
  BY DEF DeletesWholeWord
<1>1. PICK k : k = editor.cursor - WordStart(Active(editor), editor.cursor)
  OBVIOUS
<1>2. PICK left : left = Cut(Active(editor), editor.cursor, k)
  OBVIOUS
<1>3. RowsOf(editor') = IF Gone(editor, left) THEN RemoveAt(RowsOf(editor), editor.item)
                        ELSE RowsWith(editor, left)
  <2>1. editor' = PopWord(editor)
    BY DEF DeleteWord
  <2> QED BY <1>1, <1>2, <2>1, DeletedIs
<1>4. left = SubSeq(Active(editor), 1, WordStart(Active(editor), editor.cursor))
               \o SubSeq(Active(editor), editor.cursor + 1, Len(Active(editor)))
  <2>1. /\ Active(editor) \in Seq(Chars) /\ editor.cursor \in 0..Len(Active(editor))
        /\ Len(Active(editor)) \in Nat
    BY PlaceIs DEF EditorOK
  <2>2. WordStart(Active(editor), editor.cursor) \in 0..editor.cursor
    BY <2>1, WordsAre
  <2>3. editor.cursor - k = WordStart(Active(editor), editor.cursor)
    BY <1>1, <2>1, <2>2
  <2> QED BY <1>2, <2>3 DEF Cut
<1> QED BY <1>3, <1>4 DEF Gone, RowsWith, RowWith

\* The invariant is stronger than the properties.
LEMMA CaretThere ==
  ASSUME EditorOK(editor)
  PROVE  CaretInText /\ NoBlankRows
<1>1. /\ editor.selected \in DOMAIN FieldKinds /\ editor.item \in 1..RowsIn(editor, editor.selected)
      /\ editor.cell \in 1..Cells(Kind(editor)) /\ editor.cursor \in 0..Len(Active(editor))
  BY PlaceIs DEF EditorOK, Placed
<1>2. ASSUME NEW i \in DOMAIN FieldKinds
      PROVE  /\ DOMAIN editor.fields[i] = 1..Len(editor.fields[i])
             /\ \A j \in 1..Len(editor.fields[i]) : Len(editor.fields[i][j]) = Cells(FieldKinds[i])
  <2>1. FieldKinds[i] \in {"text", "list", "pairs", "bool"} /\ FieldOK(FieldKinds[i], editor.fields[i])
    BY KindsAre DEF EditorOK, Placed, FieldsOK
  <2>2. /\ DOMAIN editor.fields[i] = 1..Len(editor.fields[i]) /\ Cells(FieldKinds[i]) \in 1..2
        /\ \A j \in 1..Len(editor.fields[i]) :
             editor.fields[i][j] \in [1..Cells(FieldKinds[i]) -> Seq(Chars)]
    BY <2>1, RowsAre
  <2>3. ASSUME NEW row \in [1..Cells(FieldKinds[i]) -> Seq(Chars)] PROVE Len(row) = Cells(FieldKinds[i])
    <3>1. PICK n \in Nat : n = Cells(FieldKinds[i])
      BY <2>2
    <3>2. row \in [1..n -> Seq(Chars)]
      BY <3>1
    <3>3. row \in Seq(Seq(Chars)) /\ DOMAIN row = 1..n
      BY <3>2, SeqDef
    <3> QED BY <3>1, <3>3
  <2> QED BY <2>2, <2>3
<1>3. CaretInText
  BY <1>1, <1>2 DEF CaretInText
<1>4. NoBlankRows
  BY <1>2 DEF NoBlankRows, EditorOK, Placed, FieldsOK, FieldOK
<1> QED BY <1>3, <1>4

\* Keys edit the text under the caret and nothing else: the caret is always in a text that
\* is there, an edit leaves the other rows and fields alone, no row is left empty, and a
\* word is deleted whole and nothing besides.
THEOREM EditsCorrect == FormSpec => EditsAreRight
<1>1. FormInit => EditorOK(editor)
  BY FormInitOK
<1>2. EditorOK(editor) /\ [FormNext]_editor => EditorOK(editor)'
  BY FormNextOK
<1>3. EditorOK(editor) => CaretInText /\ NoBlankRows
  BY CaretThere
<1>4. EditorOK(editor) /\ [FormNext]_editor => [EditsLocally]_editor
  BY FormNextOK, LocalEdits
<1>5. EditorOK(editor) => [DeletesWholeWord]_editor
  BY WholeWord
<1> QED
  BY <1>1, <1>2, <1>3, <1>4, <1>5, PTL DEF FormSpec, EditsAreRight, EditsAreLocal, WordsAreDeletedWhole
=============================================================================
