------------------------------ MODULE TuiDialogs ------------------------------
(***************************************************************************)
(* What may own the keyboard of the terminal user interface: a             *)
(* confirmation, the form below it, the detail view of each tab; and the    *)
(* answers that arrive meanwhile, for the form and for the jobs in the      *)
(* detail view of an executor.                                              *)
(*                                                                         *)
(* What is typed into a form is a number that grows.  The tables are        *)
(* TuiTables's part: here their rows are any.                               *)
(***************************************************************************)
EXTENDS Naturals, FiniteSets

CONSTANTS
  Executors, Rows,  \* the executors, and the other rows a detail view can show
  Nothing,  \* no detail view, form or confirmation
  MaxForms, MaxText, MaxSent,  \* bounds: forms opened, edits of one, creations sent
  LeavesForm,  \* the user may close a form that is submitting
  Modified     \* the user may hold shift, alt or control over a confirmation

VARIABLES
  tab, detail,         \* the active tab, and the detail view of each tab
  executorJobs,        \* whose jobs executor_jobs are
  waiting, requests,   \* pending.executor_jobs, and what may still be answered
  form, confirm,
  forms, sent,         \* how many forms were opened, creations sent
  creations            \* the creations that may still be answered

details == <<tab, detail, executorJobs, waiting, requests>>
dialogs == <<form, confirm, forms, sent, creations>>
dialogVars == <<details, dialogs>>

\* The tabs, each of which has a detail view.
Views == {"jobs", "schedules", "executors"}

Forms ==
  [id : 1..MaxForms, text : 0..MaxText, submitting : BOOLEAN, error : 1..MaxForms \cup {Nothing}]

\* Ids are unique, and Nothing is no form.
ASSUME IdsAssumption ==
  /\ Executors \cap Rows = {} /\ Nothing \notin Executors \cup Rows \cup Forms
  /\ MaxForms \in Nat /\ MaxText \in Nat /\ MaxSent \in Nat

-----------------------------------------------------------------------------
(* The jobs of an executor *)

\* fetch_executor_jobs, for the detail view d.  Counter::start aborts the task of the
\* request before, if it still holds it, which may be too late.
FetchExecutorJobs(d) ==
  /\ waiting' = TRUE
  /\ requests' = {[r EXCEPT !.live = @ /\ ~waiting] : r \in requests}
                   \cup {[id |-> d, live |-> TRUE]}

\* What fetch does of interest here, in tab t with the detail view d.
FetchDetail(t, d, force) ==
  IF t = "executors" /\ d # Nothing /\ (force \/ ~waiting)
  THEN FetchExecutorJobs(d)
  ELSE UNCHANGED <<waiting, requests>>

RefreshDetail ==
  /\ FetchDetail(tab, detail[tab], FALSE)
  /\ UNCHANGED <<tab, detail, executorJobs>> /\ UNCHANGED dialogs

\* The job type selection has settled.
SettleDetail ==
  /\ FetchDetail(tab, detail[tab], TRUE)
  /\ UNCHANGED <<tab, detail, executorJobs>> /\ UNCHANGED dialogs

\* Whether the answer is for the view that is shown.
Wanted(id) == detail[tab] = id

ExecutorJobsUpdated(r) ==
  /\ r \in requests /\ requests' = requests \ {r}
  /\ IF Wanted(r.id)
     THEN waiting' = FALSE /\ executorJobs' = r.id
     ELSE UNCHANGED <<waiting, executorJobs>>
  /\ UNCHANGED <<tab, detail>> /\ UNCHANGED dialogs

ExecutorJobsFailed(r) ==
  /\ r \in requests /\ requests' = requests \ {r} /\ waiting' = FALSE
  /\ UNCHANGED <<tab, detail, executorJobs>> /\ UNCHANGED dialogs

Aborted(r) ==
  /\ r \in requests /\ ~r.live /\ requests' = requests \ {r}
  /\ UNCHANGED <<tab, detail, executorJobs, waiting>> /\ UNCHANGED dialogs

\* pending.executor_jobs.cancel(), which aborts a task it still holds.
CancelExecutorJobs ==
  /\ waiting' = FALSE
  /\ requests' = {[r EXCEPT !.live = @ /\ ~waiting] : r \in requests}

-----------------------------------------------------------------------------
(* Tabs and detail views: keys that need no confirmation and no form *)

FreeKey == confirm = Nothing /\ form = Nothing

\* A key with shift passes a confirmation that has no form under it.
ChangeTab(t) ==
  /\ t # tab /\ form = Nothing /\ (confirm = Nothing \/ Modified)
  /\ tab' = t
  /\ FetchDetail(t, detail[t], FALSE)
  /\ UNCHANGED <<detail, executorJobs>> /\ UNCHANGED dialogs

\* Mutant: the jobs of the executor shown before are kept.
OpenDetail_keepsJobs(d) ==
  /\ FreeKey /\ detail[tab] = Nothing
  /\ d \in (IF tab = "executors" THEN Executors ELSE Rows)
  /\ detail' = [detail EXCEPT ![tab] = d]
  /\ IF tab = "executors" THEN FetchExecutorJobs(d) ELSE UNCHANGED <<waiting, requests>>
  /\ UNCHANGED <<tab, executorJobs>> /\ UNCHANGED dialogs

OpenDetail(d) ==
  /\ FreeKey /\ detail[tab] = Nothing
  /\ d \in (IF tab = "executors" THEN Executors ELSE Rows)
  /\ detail' = [detail EXCEPT ![tab] = d]
  /\ IF tab = "executors"
     THEN FetchExecutorJobs(d) /\ executorJobs' = Nothing
     ELSE UNCHANGED <<waiting, requests, executorJobs>>
  /\ UNCHANGED tab /\ UNCHANGED dialogs

CloseDetail ==
  /\ FreeKey /\ detail[tab] # Nothing
  /\ detail' = [detail EXCEPT ![tab] = Nothing]
  /\ CancelExecutorJobs
  /\ UNCHANGED <<tab, executorJobs>> /\ UNCHANGED dialogs

\* The jobs of a schedule, in the other tab, whose detail view is closed.
ShowScheduleJobs ==
  /\ FreeKey /\ tab = "schedules" /\ detail[tab] = Nothing
  /\ tab' = "jobs" /\ detail' = [detail EXCEPT !["jobs"] = Nothing]
  /\ CancelExecutorJobs
  /\ UNCHANGED executorJobs /\ UNCHANGED dialogs

-----------------------------------------------------------------------------
(* Forms and confirmations *)

\* open_form and duplicate; detail views and the executors tab have no such key.
OpenForm ==
  /\ FreeKey /\ detail[tab] = Nothing /\ tab # "executors" /\ forms < MaxForms
  /\ forms' = forms + 1
  /\ form' = [id |-> forms + 1, text |-> 0, submitting |-> FALSE, error |-> Nothing]
  /\ UNCHANGED <<confirm, sent, creations>> /\ UNCHANGED details

\* Typing and pasting.  Only keys without a modifier go to the confirmation; capital
\* letters have one.
EditForm ==
  /\ form # Nothing /\ (confirm = Nothing \/ Modified) /\ form.text < MaxText
  /\ form' = [form EXCEPT !.text = @ + 1]
  /\ UNCHANGED <<confirm, forms, sent, creations>> /\ UNCHANGED details

\* Enter, again in spite of a confirmation if shift is held.
SubmitForm ==
  /\ form # Nothing /\ (confirm = Nothing \/ Modified) /\ ~form.submitting
  /\ \/ /\ confirm' = [kind |-> "create", id |-> form.id, text |-> form.text]
        /\ form' = [form EXCEPT !.error = Nothing]
     \/ form' = [form EXCEPT !.error = form.id] /\ UNCHANGED confirm
  /\ UNCHANGED <<forms, sent, creations>> /\ UNCHANGED details

CloseForm ==
  /\ form # Nothing /\ (confirm = Nothing \/ Modified) /\ (LeavesForm \/ ~form.submitting)
  /\ form' = Nothing
  /\ UNCHANGED <<confirm, forms, sent, creations>> /\ UNCHANGED details

\* confirm_cancel_job and confirm_stop_schedule
ConfirmAction ==
  /\ FreeKey /\ detail[tab] = Nothing /\ tab # "executors"
  /\ confirm' = [kind |-> "act"]
  /\ UNCHANGED <<form, forms, sent, creations>> /\ UNCHANGED details

Dismiss ==
  /\ confirm # Nothing /\ confirm' = Nothing
  /\ UNCHANGED <<form, forms, sent, creations>> /\ UNCHANGED details

Submitting(f) == IF f = Nothing THEN f ELSE [f EXCEPT !.submitting = TRUE]

\* run_confirmed_action and stop_schedule_keeping_jobs
RunConfirmedAction ==
  /\ confirm # Nothing /\ confirm' = Nothing
  /\ \/ confirm.kind = "act" /\ UNCHANGED <<form, sent, creations>>
     \/ /\ confirm.kind = "create" /\ sent < MaxSent
        /\ sent' = sent + 1
        /\ creations' = creations \cup {[number |-> sent, id |-> confirm.id, text |-> confirm.text]}
        /\ form' = Submitting(form)
  /\ UNCHANGED forms /\ UNCHANGED details

CreateFailed(c) ==
  /\ c \in creations /\ creations' = creations \ {c}
  /\ form' = IF form = Nothing THEN Nothing ELSE [form EXCEPT !.submitting = FALSE, !.error = c.id]
  /\ UNCHANGED <<confirm, forms, sent>> /\ UNCHANGED details

CreationDone(c) ==
  /\ c \in creations /\ creations' = creations \ {c}
  /\ form' = Nothing
  /\ FetchDetail(tab, detail[tab], TRUE)
  /\ UNCHANGED <<confirm, forms, sent>> /\ UNCHANGED <<tab, detail, executorJobs>>

-----------------------------------------------------------------------------

DialogsInit ==
  /\ tab = "jobs" /\ detail = [t \in Views |-> Nothing] /\ executorJobs = Nothing
  /\ waiting = FALSE /\ requests = {}
  /\ form = Nothing /\ confirm = Nothing /\ forms = 0 /\ sent = 0 /\ creations = {}

DialogsNext ==
  \/ \E r \in requests : ExecutorJobsUpdated(r) \/ ExecutorJobsFailed(r) \/ Aborted(r)
  \/ \E c \in creations : CreationDone(c) \/ CreateFailed(c)
  \/ RefreshDetail \/ SettleDetail
  \/ \E t \in Views : ChangeTab(t)
  \/ \E d \in Executors \cup Rows : OpenDetail(d)
  \/ CloseDetail \/ ShowScheduleJobs
  \/ OpenForm \/ EditForm \/ SubmitForm \/ CloseForm
  \/ ConfirmAction \/ Dismiss \/ RunConfirmedAction

DialogsSpec == DialogsInit /\ [][DialogsNext]_dialogVars

-----------------------------------------------------------------------------
(* Properties *)

\* The types, and: there is a view to wait for whenever an executor's jobs are waited
\* for, so that no wait is shown in the view that is opened next.
DialogsTypeOK ==
  /\ tab \in Views /\ DOMAIN detail = Views
  /\ detail["executors"] \in Executors \cup {Nothing}
  /\ \A t \in Views \ {"executors"} : detail[t] \in Rows \cup {Nothing}
  /\ forms \in 0..MaxForms /\ sent \in 0..MaxSent
  /\ waiting => detail["executors"] # Nothing

\* The jobs in the detail view of an executor are its own, whatever views were opened
\* and closed while their requests were on the way.
JobsOfDetail ==
  detail["executors"] # Nothing => executorJobs \in {Nothing, detail["executors"]}

\* What is confirmed is what the form below shows.
ConfirmMatchesForm ==
  confirm # Nothing /\ form # Nothing =>
    confirm.kind = "create" /\ confirm.id = form.id /\ confirm.text = form.text

\* A form is submitting exactly while its creation may be answered: it is not sent
\* twice, and not stuck.
SubmittingIsCreating ==
  form # Nothing => (form.submitting <=> \E c \in creations : c.id = form.id)

\* Views, forms and confirmations show what belongs to them.
DialogsAgree ==
  DialogsTypeOK /\ JobsOfDetail /\ ConfirmMatchesForm /\ SubmittingIsCreating

\* The message of a creation that failed is shown on the form it was made from.
FailureOnItsForm ==
  form # Nothing => form.error \in {Nothing, form.id}

\* Whenever an executor's jobs are waited for, there is a request for them.
JobsRequested ==
  waiting => \E r \in requests : r.live /\ r.id = detail["executors"]
=============================================================================
