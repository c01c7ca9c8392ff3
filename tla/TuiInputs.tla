------------------------------ MODULE TuiInputs ------------------------------
(***************************************************************************)
(* What is copied in MCTui.  Rows with every kind of property a derived    *)
(* schema has, with values that fit it and some of an older schema, and    *)
(* with plain payloads and many options.  The self-referential schema is   *)
(* cut at depth one.                                                       *)
(***************************************************************************)
EXTENDS Integers, Sequences, TLC

CONSTANTS Absent, Bad  \* of TuiCopies

Value(t, v) == [t |-> t, v |-> v, items |-> <<>>]
Str(text) == Value("string", text)

Node == [ref |-> Absent, type |-> Absent, anyOf |-> Absent, oneOf |-> Absent, enum |-> Absent,
         const |-> Absent, format |-> Absent, item |-> Absent, default |-> Absent,
         props |-> Absent, required |-> {}]
Type(t) == [Node EXCEPT !.type = <<t>>]
Ref(name) == [Node EXCEPT !.ref = name]
Object(props, required) == [Type("object") EXCEPT !.props = props, !.required = required]
ArrayOf(item) == [Type("array") EXCEPT !.item = item]

Defs ==
  [color |-> [Node EXCEPT !.enum = <<Str("x"), Str("y")>>],
   doc |-> [Node EXCEPT !.oneOf = <<[Node EXCEPT !.const = Str("x")], [Node EXCEPT !.const = Str("y")]>>],
   tree |-> Object([a |-> Type("integer"), b |-> Ref("tree")], {"a"})]

Leaves ==
  {Type("string"), Type("integer"), Type("number"), Type("boolean"),
   [Type("string") EXCEPT !.format = "date-time"], [Type("string") EXCEPT !.format = "date"],
   [Node EXCEPT !.type = <<"string", "null">>], [Node EXCEPT !.type = <<"integer", "null">>],
   ArrayOf(Type("string")), ArrayOf(Type("integer")), ArrayOf(Absent),
   [Node EXCEPT !.enum = <<Value("int", "1"), Value("int", "2")>>],
   Ref("color"), Ref("doc"), [Node EXCEPT !.anyOf = <<Ref("color"), Type("null")>>],
   [Node EXCEPT !.anyOf = <<[Type("string") EXCEPT !.format = "date-time"], Type("null")>>],
   [Type("string") EXCEPT !.default = Str("x")],
   [Node EXCEPT !.type = <<"string", "null">>, !.default = Str("x")],
   [Type("boolean") EXCEPT !.default = Value("bool", "true")],
   [Type("integer") EXCEPT !.default = Value("int", "2")],
   [Ref("color") EXCEPT !.default = Str("y")],
   [ArrayOf(Type("string")) EXCEPT !.default = [t |-> "array", v |-> "", items |-> <<Str("x")>>]]}

Array(items) == [t |-> "array", v |-> "", items |-> items]
Values ==
  {Str(""), Str(" "), Str("x"), Str(" x"), Str("y"), Str("instant"), Str("date"),
   Value("int", "1"), Value("int", "large"), Value("int", "huge"),
   Value("num", "half"), Value("bool", "true"), Value("bool", "false"), Value("null", ""),
   Array(<<>>), Array(<<Str("x"), Str("y")>>), Array(<<Str(" x"), Str(" ")>>),
   Array(<<Value("int", "1")>>)}

Duration(d) == [duration |-> d, base |-> "start"]
Retry(b, m, s) == [backoff |-> b, max |-> m, strategy |-> s]
Wire(timeout, retry, labels) ==
  [typed |-> TRUE, json |-> TRUE, target |-> "past", labels |-> labels,
   timeout |-> timeout, retry |-> retry]
Plain == Wire(Duration(0), Retry(0, Absent, "fixed"), <<>>)
Label(k) == [key |-> k, value |-> "x"]
\* As the server lists them, by their keys: plain ones, and some with blanks, of which
\* two keys differ in nothing else, or are blank.
LabelLists ==
  {<<>>, <<Label("a"), Label("b")>>,
   <<[key |-> " a", value |-> " y"], Label("a"), [key |-> "b", value |-> ""]>>,
   <<Label(""), Label(" "), [key |-> " a", value |-> " "]>>}
WireJobs == {Wire([duration |-> t, base |-> b], Retry(d, m, s), l) :
               t \in {0, 3}, b \in {"start", "target"}, d \in {0, 1}, m \in {Absent, 0, 2},
               s \in {"fixed", "exponential"}, l \in LabelLists}
Policies == {[kind |-> "interval", interval |-> d, cron |-> "valid", missed |-> m] :
               d \in {1, 2}, m \in {"skip", "create"}}
            \cup {[kind |-> "cron", interval |-> Absent, cron |-> "valid", missed |-> m] :
                    m \in {"skip", "create"}}
WireSchedules == [policy : Policies, template : {Wire(Duration(3), Retry(1, 2, "exponential"), l) :
                                                   l \in {<<>>, <<Label("a")>>}},
                  labels : LabelLists,
                  start : {Absent, "past", "supported"}, end : {Absent, "past", "supported"}]

\* The texts here that have blanks around them.
Trim(text) ==
  CASE text = " " -> "" [] text = " x" -> "x" [] text = " y" -> "y" [] text = " a" -> "a"
    [] OTHER -> text

\* Integers above 2^53 are not all floats; those above 2^63 are no i64.
IntTexts == {"1", "2", "large"}
Floats == [t \in {"1", "2", "half"} |-> Value("num", t)]
          @@ [t \in {"large", "huge"} |-> Value("num", "rounded")]

One(v) == <<"a">> :> v
Row(kind, schema, payload, wire) ==
  [kind |-> kind, schema |-> schema, payload |-> payload, wire |-> wire]
Empty == Object([x \in {} |-> Node], {})
CopiedRows ==
  {Row("job", Object([a |-> n], r), One(v), Plain) : n \in Leaves, r \in {{}, {"a"}}, v \in Values}
  \cup {Row("job", Object([a |-> n], {}), [x \in {} |-> Node], Plain) : n \in Leaves}
  \cup {Row("job", Ref("tree"), One(Value("int", "1")), Plain),
        Row("job", Defs["tree"], (<<"a">> :> Value("int", "1")) @@ (<<"b", "a">> :> Value("int", "1"))
                                   @@ (<<"b", "b", "a">> :> Value("int", "1")), Plain),
        Row("job", Absent, One(Str("x")), Plain)}
  \cup {Row("job", Empty, [x \in {} |-> Node], w) : w \in WireJobs}
  \cup {Row("schedule", Empty, [x \in {} |-> Node], w) : w \in WireSchedules}

Edits ==
  [option : {"timeout", "max"}, text : {Absent, 1, 4, Bad}]
  \cup [option : {"interval"}, text : {Absent, 1, 3, 4, Bad}]
  \cup [option : {"cron"}, text : {Absent, "valid", Bad}]
  \cup [option : {"target", "end"}, text : {Absent, "past", Bad}]
===============================================================================
