\* Seven ticks of time, all small intervals (0 is an error), cron expressions
\* without a match, with one, and with regular and irregular ones; a cancellation, a
\* retry, a failure and a success of the execution that runs, the start of the next,
\* and two conditional calls of add_jobs; the instances of the other parts are in the
\* module.
CONSTANTS
  NoTime = NoTime
  Error = Error
  MaxTime = 7
  Intervals = {0, 1, 2, 3}
  Crons = {{}, {2}, {0, 3, 6}, {1, 2, 5}}
  Ends = {NoTime, 0, 2}
  Absent = Absent
  LongestWire = 3
  LongestInterval = 2
  Written <- DefinitionsWritten
  Sent <- DefinitionsSent
  MaxAdditions = 2
  None = None
  Jobs = {1, 2, 3}
  Executions = {1, 2, 3}
  Cancels = {"cancel"}
  Retries = {"retry"}
  Failures = {"fail"}
  Successes = {"succeed"}
  Starts = {"start"}
  Adds = {"add 1", "add 2"}
SPECIFICATION RequestsSpec
INVARIANTS
  TimesAreRight
  MeaningIsKept
  TransactionsAgree
  PagesAreOneListing
PROPERTIES
  FiltersAreMeant
CHECK_DEADLOCK FALSE
