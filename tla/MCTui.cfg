\* Two filters, a schedule and listings of up to three pages; two executors, two forms
\* that are edited and sent again, and a user who waits for the answer to a form and
\* holds no modifier over a confirmation; a form with a field of each kind and up to
\* four characters.  The instance of the copies is in the module.
CONSTANTS
  None = None
  Nothing = Nothing
  Absent = Absent
  Bad = Bad
  TypeLists <- OldOrNewTypes
  Filters = {0, 1}
  NoFilter = 0
  Schedules = {"s"}
  AutoPages = 2
  MaxPages = 3
  MaxKeys = 2
  Executors = {"e1", "e2"}
  Rows = {"row"}
  MaxForms = 2
  MaxText = 2
  MaxSent = 3
  LeavesForm = FALSE
  Modified = FALSE
  FieldKinds <- OneOfEachKind
  MaxChars = 4
SPECIFICATION TuiSpec
INVARIANTS
  AnswersInPlace
  DialogsAgree
  CopiesAgree
PROPERTIES
  EditsAreRight
CHECK_DEADLOCK FALSE
