------------------------------ MODULE TuiCopies ------------------------------
(***************************************************************************)
(* How the terminal user interface makes a copy of a job or a schedule: a  *)
(* form is built from the input schema of the job type, filled in from the *)
(* selected row, may be edited, and is turned into a request again.  The   *)
(* form is typed: the payload and the durations pass through text, toggles *)
(* and choices, and come back as what those mean.                          *)
(*                                                                         *)
(* JSON scalars are [t, v, items], v the text of a literal.  Payloads map  *)
(* the paths of their leaves to values.  Texts of options are modelled by  *)
(* what they parse to: Absent if blank, Bad if they do not.                *)
(***************************************************************************)
EXTENDS Conversions, FiniteSets

CONSTANTS
  Defs,            \* the $defs of the schemas
  Rows,            \* the selected rows, [kind, schema, payload, wire]
  Bad,             \* an option text that does not parse
  Edits,           \* option texts the user may enter, [option, text]
  Trim(_),         \* str::trim, a text without the blanks around it
  IntTexts, TimeTexts,  \* the texts that parse as an i64, and as a time
  Floats,          \* the values of the texts that parse as an f64, as JSON numbers
  MaxSchemaDepth   \* MAX_SCHEMA_DEPTH, 8

VARIABLES
  row,      \* the selected row, as listed
  form,     \* [inputs, options], Absent when there is none
  edited,   \* whether the user changed an option
  error,    \* the error shown in the form
  request,  \* what is sent when the user confirms, Absent before
  stored    \* what the server makes of it; the definition is Absent if it is refused

vars == <<row, form, edited, error, request, stored>>

Value(t, v) == [t |-> t, v |-> v, items |-> <<>>]

-------------------------------------------------------------------------------
(* From the schema to fields. *)

Resolve(node) ==
  IF node.ref = Absent THEN node
  ELSE [k \in DOMAIN node |-> IF k = "ref" THEN Absent ELSE Or(node[k], Defs[node.ref][k])]

IsNull(node) == node.type = <<"null">>

\* The branches of an anyOf or oneOf that are not null.
Branches(nodes) == SelectSeq([i \in DOMAIN nodes |-> Resolve(nodes[i])], LAMBDA b : ~IsNull(b))

\* type_of, without nullability
TypeOf(node) ==
  LET NonNull(names) == SelectSeq(names, LAMBDA n : n # "null")
      First(names) == IF names = <<>> THEN Absent ELSE Head(names)
  IN  IF node.anyOf # Absent
      THEN LET b == Branches(node.anyOf)
           IN  IF b = <<>> \/ b[1].type = Absent \/ Len(b[1].type) # 1 THEN Absent
               ELSE b[1].type[1]
      ELSE IF node.type = Absent THEN Absent ELSE First(NonNull(node.type))

\* The literals a node allows, from an enum or a const per branch.
RECURSIVE ChoicesOf(_)
ChoicesOf(node) ==
  IF node.enum # Absent THEN node.enum
  ELSE LET of == Or(node.oneOf, node.anyOf)
       IN  IF of = Absent THEN Absent
           ELSE LET b == Branches(of)
                IN  IF Len(b) = 1 /\ b[1].const = Absent THEN ChoicesOf(b[1])
                    ELSE IF b = <<>> \/ \E i \in DOMAIN b : b[i].const = Absent THEN Absent
                    ELSE [i \in DOMAIN b |-> b[i].const]

FormatOf(node) ==
  IF node.format # Absent \/ node.anyOf = Absent THEN node.format
  ELSE LET b == Branches(node.anyOf) IN IF b = <<>> THEN Absent ELSE b[1].format

Scalar(type) ==
  CASE type = "boolean" -> "bool" [] type = "integer" -> "int"
    [] type = "number" -> "num" [] OTHER -> "text"

Kind(name, choices, item) == [name |-> name, choices |-> choices, item |-> item]

\* field_kind and list_item_kind
FieldKind(node) ==
  LET choices == ChoicesOf(node)
  IN  IF choices # Absent THEN Kind("choice", [i \in DOMAIN choices |-> choices[i].v], Absent)
      ELSE IF FormatOf(node) \in {"date-time", "date"} THEN Kind("time", Absent, Absent)
      ELSE IF TypeOf(node) = "array"
      THEN Kind("list", Absent, IF node.item = Absent THEN "text"
                                ELSE Scalar(TypeOf(Resolve(node.item))))
      ELSE Kind(Scalar(TypeOf(node)), Absent, Absent)

Texts(values) == [i \in DOMAIN values |-> values[i].v]

\* apply_default: a value of the payload or of the schema, if the field can show it.
ApplyDefault(f, d) ==
  IF d = Absent THEN f
  ELSE IF f.kind.name = "bool" /\ d.t = "bool" THEN [f EXCEPT !.toggled = (d.v = "true")]
  ELSE IF f.kind.name = "choice" /\ d.t = "string"
  THEN IF \E i \in DOMAIN f.kind.choices : f.kind.choices[i] = d.v
       THEN [f EXCEPT !.choice = CHOOSE i \in DOMAIN f.kind.choices : f.kind.choices[i] = d.v]
       ELSE f
  ELSE IF f.kind.name = "list" /\ d.t = "array"
  THEN [f EXCEPT !.items = Texts(SelectSeq(d.items, LAMBDA v : v.t = "string"))]
  ELSE IF d.t \in {"string", "int", "num"} THEN [f EXCEPT !.text = d.v]
  ELSE f

Blank(path, kind, required) ==
  [path |-> path, kind |-> kind, required |-> required,
   text |-> "", items |-> <<>>, toggled |-> FALSE, choice |-> 1]

\* collect_fields: nested objects are groups of fields, down to some depth.
RECURSIVE FieldsOf(_, _, _)
FieldsOf(node, path, depth) ==
  IF depth > MaxSchemaDepth \/ node.props = Absent THEN {}
  ELSE UNION {LET p == Resolve(node.props[name])
                  at == Append(path, name)
              IN  IF TypeOf(p) = "object" /\ p.props # Absent THEN FieldsOf(p, at, depth + 1)
                  ELSE {ApplyDefault(Blank(at, FieldKind(p), name \in node.required), p.default)}
             : name \in DOMAIN node.props}

\* Form::new; types without a schema have no input fields.
InputsOf(schema) == IF schema = Absent THEN {} ELSE FieldsOf(schema, <<>>, 0)

-------------------------------------------------------------------------------
(* From fields to the payload. *)

\* A text is taken as it is; of the others the blanks around them are left out.
Parsed(kind, text) ==
  LET t == Trim(text)
  IN  CASE kind = "text" -> {Value("string", text)}
        [] kind = "int" -> IF t \in IntTexts THEN {Value("int", t)} ELSE {}
        [] kind = "num" -> IF t \in DOMAIN Floats THEN {Floats[t]} ELSE {}
        [] kind = "bool" -> IF t \in {"true", "false"} THEN {Value("bool", t)} ELSE {}
        [] kind = "time" -> IF t \in TimeTexts THEN {Value("string", "instant")} ELSE {}

Only(values) == IF values = {} THEN Absent ELSE CHOOSE v \in values : TRUE

\* The items, trimmed, that are not blank and can be parsed.
ListOf(kind, texts) ==
  LET ok == SelectSeq([i \in DOMAIN texts |-> Trim(texts[i])],
                      LAMBDA t : t # "" /\ Parsed(kind, t) # {})
  IN  [t |-> "array", v |-> "", items |-> [i \in DOMAIN ok |-> Only(Parsed(kind, ok[i]))]]

\* Field::value: Absent if the field is left out.
FieldValue(f) ==
  IF f.kind.name = "bool" THEN Value("bool", IF f.toggled THEN "true" ELSE "false")
  ELSE IF f.kind.name = "choice"
  THEN IF f.choice \in DOMAIN f.kind.choices THEN Value("string", f.kind.choices[f.choice])
       ELSE Absent
  ELSE IF f.kind.name = "list"
  THEN LET list == ListOf(f.kind.item, f.items)
       IN  IF list.items = <<>> /\ ~f.required THEN Absent ELSE list
  ELSE IF Trim(f.text) = "" THEN Absent ELSE Only(Parsed(f.kind.name, f.text))

Payload(inputs) ==
  LET present == {f \in inputs : FieldValue(f) # Absent}
  IN  [p \in {f.path : f \in present} |-> FieldValue(CHOOSE f \in present : f.path = p)]

\* jsonschema::is_valid for a leaf.
RECURSIVE Fits(_, _)
Fits(node, value) ==
  /\ node.enum # Absent => \E i \in DOMAIN node.enum : node.enum[i] = value
  /\ node.const # Absent => node.const = value
  /\ LET of == Or(node.oneOf, node.anyOf)
     IN  of # Absent => \E i \in DOMAIN of : Fits(Resolve(of[i]), value)
  /\ node.type # Absent =>
       \E i \in DOMAIN node.type :
         \/ node.type[i] = "null" /\ value.t = "null"
         \/ node.type[i] = "string" /\ value.t = "string"
         \/ node.type[i] = "boolean" /\ value.t = "bool"
         \/ node.type[i] = "integer" /\ value.t = "int"
         \/ node.type[i] = "number" /\ value.t \in {"int", "num"}
         \/ /\ node.type[i] = "array" /\ value.t = "array"
            /\ node.item = Absent \/ \A k \in DOMAIN value.items : Fits(Resolve(node.item), value.items[k])

RECURSIVE NodeAt(_, _)
NodeAt(node, path) ==
  IF path = <<>> THEN node ELSE NodeAt(Resolve(node.props[Head(path)]), Tail(path))

\* Form::validate
ValidInputs(inputs, schema) ==
  /\ \A f \in inputs :
       /\ f.required => FieldValue(f) # Absent
       /\ f.kind.name \in {"time", "int", "num"} /\ Trim(f.text) # "" => Parsed(f.kind.name, f.text) # {}
       /\ FieldValue(f) # Absent => Fits(NodeAt(schema, f.path), FieldValue(f))

\* Form::prefill_input: each field takes the value at its own path.
Prefill(inputs, payload) ==
  {ApplyDefault(f, IF f.path \in DOMAIN payload THEN payload[f.path] ELSE Absent) : f \in inputs}

-------------------------------------------------------------------------------
(* The options. *)

NoOptions ==
  [timeout |-> Absent, base |-> "start", backoff |-> Absent, max |-> Absent, strategy |-> "fixed",
   labels |-> <<>>, target |-> Absent, cron |-> Absent, interval |-> Absent, missed |-> "skip",
   start |-> Absent, end |-> Absent]

\* Durations are shown if they are there and not zero.
Shown(d) == IF FromWire(d) = 0 THEN Absent ELSE d

\* fill_policies
FillPolicies(options, w) ==
  [options EXCEPT !.timeout = Shown(w.timeout.duration), !.base = ServerBase(w.timeout.base),
                  !.backoff = Shown(w.retry.backoff), !.max = Shown(w.retry.max),
                  !.strategy = Strategy(w.retry.strategy)]

\* Past times are dropped: the copy of a schedule starts now, and does not end.
Future(time) == IF time = "supported" THEN time ELSE Absent

\* fill_from_schedule
FillSchedule(options, w) ==
  [FillPolicies(options, w.template) EXCEPT
     !.labels = w.labels, !.cron = IF w.policy.kind = "cron" THEN w.policy.cron ELSE Absent,
     !.interval = w.policy.interval, !.missed = Missed(w.policy.missed),
     !.start = Future(w.start), !.end = Future(w.end)]

Fill(options, r) ==
  IF r.kind = "job" THEN [FillPolicies(options, r.wire) EXCEPT !.labels = r.wire.labels]
  ELSE FillSchedule(options, r.wire)

Durations(o) == {o.timeout, o.backoff, o.max}

\* The times of a form were parsed, so they are in the supported range.
Parse(kind, o) ==
  /\ Bad \notin Durations(o)
  /\ kind = "job" => o.target # Bad
  /\ kind = "schedule" =>
       /\ o.cron # Bad /\ {o.start, o.end} \cap {Bad} = {}
       /\ o.cron = Absent => o.interval \notin {Absent, Bad}

\* Mutant: a label needs a value too.
ParseLabels_values(rows) ==
  LET trimmed == [i \in DOMAIN rows |-> [key |-> Trim(rows[i].key), value |-> Trim(rows[i].value)]]
  IN  SelectSeq(trimmed, LAMBDA label : label.key # "" /\ label.value # "")

\* parse_labels: trimmed, without those whose key is blank.
ParseLabels(rows) ==
  LET trimmed == [i \in DOMAIN rows |-> [key |-> Trim(rows[i].key), value |-> Trim(rows[i].value)]]
  IN  SelectSeq(trimmed, LAMBDA label : label.key # "")

\* build_job and policies
BuildJob(o, target, labels) ==
  [typed |-> TRUE, json |-> TRUE, target |-> target, labels |-> ParseLabels(labels),
   timeout |-> [duration |-> ToWire(o.timeout), base |-> o.base],
   retry |-> [backoff |-> ToWire(o.backoff), max |-> ToWire(o.max), strategy |-> o.strategy]]

\* Mutant: the interval is used if there are both.
BuildSchedule_interval(o) ==
  [policy |-> IF o.interval \in {Absent, Bad}
              THEN [kind |-> "cron", interval |-> Absent, cron |-> o.cron, missed |-> o.missed]
              ELSE [kind |-> "interval", interval |-> ToWire(o.interval), cron |-> "valid",
                    missed |-> o.missed],
   template |-> BuildJob(o, "supported", <<>>), labels |-> ParseLabels(o.labels),
   start |-> o.start, end |-> o.end]

\* build_schedule: a cron expression is used rather than an interval.
BuildSchedule(o) ==
  [policy |-> IF o.cron # Absent
              THEN [kind |-> "cron", interval |-> Absent, cron |-> o.cron, missed |-> o.missed]
              ELSE [kind |-> "interval", interval |-> ToWire(o.interval), cron |-> "valid",
                    missed |-> o.missed],
   template |-> BuildJob(o, "supported", <<>>), labels |-> ParseLabels(o.labels),
   start |-> o.start, end |-> o.end]

Build(kind, o) ==
  IF kind = "job" THEN BuildJob(o, Or(o.target, "supported"), o.labels) ELSE BuildSchedule(o)

-------------------------------------------------------------------------------
Init ==
  /\ row \in Rows
  /\ form = Absent /\ edited = FALSE /\ error = FALSE /\ request = Absent /\ stored = Absent

\* duplicate
Duplicate ==
  /\ form = Absent /\ request = Absent
  /\ form' = [inputs |-> Prefill(InputsOf(row.schema), row.payload),
              options |-> Fill(NoOptions, row)]
  /\ UNCHANGED <<row, edited, error, request, stored>>

\* The user writes another text into an option.
Edit ==
  /\ form # Absent /\ request = Absent /\ ~edited
  /\ \E e \in Edits : form' = [form EXCEPT !.options[e.option] = e.text]
  /\ edited' = TRUE /\ UNCHANGED <<row, error, request, stored>>

\* submit_form: the form is validated and a confirmation opens, or an error is shown.
Submit ==
  /\ form # Absent /\ request = Absent
  /\ IF ValidInputs(form.inputs, row.schema) /\ Parse(row.kind, form.options)
     THEN /\ request' = [payload |-> Payload(form.inputs),
                         wire |-> Build(row.kind, form.options)]
          /\ error' = FALSE
     ELSE error' = TRUE /\ UNCHANGED request
  /\ UNCHANGED <<row, form, edited, stored>>

\* The user confirms and the server answers; a refusal opens the form again.
Confirm ==
  /\ request # Absent /\ stored = Absent
  /\ IF ValidItem(row.kind, request.wire)
     THEN stored' = [payload |-> request.payload,
                     definition |-> ReadItem([kind |-> row.kind, inherit |-> TRUE], request.wire)]
     ELSE stored' = [payload |-> request.payload, definition |-> Absent]
  /\ UNCHANGED <<row, form, edited, error, request>>

Next == Duplicate \/ Edit \/ Submit \/ Confirm

Spec == Init /\ [][Next]_vars

-------------------------------------------------------------------------------
Str(text) == Value("string", text)

Accepted == stored # Absent /\ stored.definition # Absent

\* The shape of the state.
CopiesTypeOK ==
  /\ edited \in BOOLEAN /\ error \in BOOLEAN
  /\ form # Absent =>
       /\ \A f \in form.inputs : f.kind.name = "choice" => f.choice \in DOMAIN f.kind.choices
       /\ \A f, g \in form.inputs : f.path = g.path => f = g

FieldPaths == {f.path : f \in InputsOf(row.schema)}

\* The leaves of the payload that have a field and are what the schema asks for.
Fitting ==
  {p \in DOMAIN row.payload \cap FieldPaths : Fits(NodeAt(row.schema, p), row.payload[p])}

\* A number field holds a float: an integer becomes the one that is nearest to it.
CopyOf(v, path) ==
  IF v.t = "int" /\ TypeOf(NodeAt(row.schema, path)) = "number" THEN Floats[v.v] ELSE v

\* A copy has the input of the original (form.rs, prefill_input and payload): no
\* value becomes another one, but for the precision of a number field, and none is
\* lost but blank texts and nulls.  Lists and plain dates are treated below and in
\* the README.
InputKept ==
  request # Absent =>
    \A p \in Fitting :
      LET v == row.payload[p]
      IN  v.t \notin {"null", "array"} /\ Trim(v.v) \notin {"", "date"} =>
            p \in DOMAIN request.payload /\ request.payload[p] = CopyOf(v, p)

SamePolicies(j, k) ==
  /\ j.timeout = k.timeout /\ j.base = k.base
  /\ j.backoff = k.backoff /\ j.strategy = k.strategy
  /\ j.max # 0 => j.max = k.max

\* The labels of the one are those of the other but for the blanks around them: each
\* comes from one of the original, and of the keys that are not blank none is lost.
\* Of labels whose keys differ in blanks one remains.
LabelsCopied(old, new) ==
  LET Trimmed(l) == [key |-> Trim(l.key), value |-> Trim(l.value)]
      keys == {Trim(old[i].key) : i \in DOMAIN old} \ {""}
  IN  /\ {new[i].key : i \in DOMAIN new} = keys /\ Len(new) = Cardinality(keys)
      /\ \A i \in DOMAIN new : \E k \in DOMAIN old : new[i] = Trimmed(old[k])

\* A copy that was not edited is accepted and has the options of the original
\* (tui.rs, duplicate): all but the target time and past times, a maximum backoff of
\* zero, which a form cannot show, and the blanks in labels.
OptionsKept ==
  stored # Absent /\ ~edited =>
    /\ stored.definition # Absent
    /\ LET old == ReadItem([kind |-> row.kind, inherit |-> TRUE], row.wire)
           new == stored.definition
       IN  IF row.kind = "job" THEN SamePolicies(old, new) /\ LabelsCopied(old.labels, new.labels)
           ELSE /\ SamePolicies(old.template, new.template)
                /\ new.policy = old.policy /\ LabelsCopied(old.labels, new.labels)
                /\ new.start \in {old.start, Absent} /\ new.end \in {old.end, Absent}

\* What is stored is what the form shows when it is submitted (build_job,
\* build_schedule): an interval is never shortened, and a cron expression is
\* used if there is one.
AsShown ==
  Accepted =>
    LET o == form.options
        d == stored.definition
        j == IF row.kind = "job" THEN d ELSE d.template
    IN  /\ Bad \notin Durations(o)
        /\ o.timeout # Absent /\ o.timeout <= LongestWire => j.timeout = o.timeout
        /\ o.max # Absent /\ o.max <= LongestWire => j.max = o.max
        /\ row.kind = "schedule" =>
             IF o.cron # Absent THEN d.policy.kind = "cron" ELSE d.policy.interval = o.interval

\* A copy creates what its form shows, which is what the original was.
CopiesAgree == CopiesTypeOK /\ InputKept /\ OptionsKept /\ AsShown

\* Violated: "Open a creation form filled in from the selected row" (tui.rs); a
\* job type without an input schema has no fields, and its payload becomes {}.
InputWithoutSchemaKept ==
  request # Absent /\ row.schema = Absent => request.payload = row.payload

\* Violated: prefill_input "fills in what still fits"; numbers and booleans in
\* lists fit, and are dropped.
ListsKept ==
  request # Absent =>
    \A p \in Fitting : row.payload[p].t = "array" /\ row.payload[p].items # <<>> =>
      p \in DOMAIN request.payload /\ request.payload[p] = row.payload[p]

\* Violated: prefill_input "leaves the rest empty"; for a null, or a value that is
\* not there, the default of the schema stays in the field.
RestIsEmpty ==
  request # Absent =>
    \A p \in Fitting : row.payload[p].t = "null" => p \notin DOMAIN request.payload

\* Violated: "Open a creation form filled in from the selected row"; labels are
\* trimmed, those with a blank key are dropped, and of two that become the same key
\* the server keeps the first, although it accepts and lists all of them.
LabelsKept ==
  stored # Absent /\ ~edited /\ stored.definition # Absent =>
    stored.definition.labels = ReadItem([kind |-> row.kind, inherit |-> TRUE], row.wire).labels

\* Violated: "Open a creation form filled in from the selected row"; the labels of
\* the jobs of a schedule are lost, unless the schedule has them too.
TemplateLabelsKept ==
  Accepted /\ ~edited /\ row.kind = "schedule" =>
    stored.definition.template.labels =
      ReadItem([kind |-> row.kind, inherit |-> TRUE], row.wire).template.labels
===============================================================================
