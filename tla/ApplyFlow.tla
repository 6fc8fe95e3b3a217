------------------------------ MODULE ApplyFlow ------------------------------
(***************************************************************************)
(* Applications from POST /api/applications to their final outcome: the    *)
(* request handlers (app/graph/apply_service.py, the human-action routes), *)
(* the five nodes of the apply graph (app/graph/apply_nodes.py), the       *)
(* dashboard rows (app/graph/persistence.py) and the operator answering    *)
(* interrupts.                                                             *)
(*                                                                         *)
(* Three stores are written by separate steps of a handler and are         *)
(* therefore modelled apart: the LangGraph checkpoint (thread), the        *)
(* applications table (row) and the human_interventions table (queue).     *)
(* LangGraph itself is external: an invocation loads the latest            *)
(* checkpoint, runs one node after another from its own memory, writes a   *)
(* checkpoint after each of them, and re-runs an interrupted node from its *)
(* first line with the answers given so far, matched by position.          *)
(***************************************************************************)
EXTENDS Naturals, Sequences, FiniteSets

CONSTANTS
  Job,                \* jobs an application can be started for
  NoJob,
  App,                \* the pool uuid4 draws application ids from
  NoApp,
  Call,               \* request handlers and CLI commands that may be in flight
  PageLists,          \* values of challenge_page_urls, as what each page shows
  Modes,              \* values approval.mode takes in automation.yaml
  Faults,             \* which faults may happen
  Serial,             \* TRUE: an application gets one answer at a time
  MaxInterventions    \* bound: queue records per application before the operator stops

PageKinds == {"OTP_REQUIRED", "CAPTCHA_REQUIRED", "unrecognized"}

ASSUME ConstantsAssumption ==
  /\ NoJob \notin Job
  /\ NoApp \notin App
  /\ PageLists \subseteq Seq(PageKinds)
  /\ Modes \subseteq {"manual", "hybrid", "automatic"}
  /\ Modes # {}
  /\ Faults \subseteq {"crash", "browser", "config", "pages", "retry"}
  /\ Serial \in BOOLEAN
  /\ MaxInterventions \in Nat

Questions == {"UNKNOWN_REQUIRED_FIELD", "OTP_REQUIRED", "CAPTCHA_REQUIRED",
              "MANUAL_APPROVAL_REQUIRED"}

(* What the operator may send; "retry" is a resume that answers nothing.   *)
Payloads  == {"fields", "some_fields", "otp", "solved", "approve", "decline", "retry"}
Decisions == {"approve", "decline"}

(* The payloads the Human Review page composes for a question.             *)
Reply == [UNKNOWN_REQUIRED_FIELD   |-> {"fields", "some_fields"},
          OTP_REQUIRED             |-> {"otp"},
          CAPTCHA_REQUIRED         |-> {"solved"},
          MANUAL_APPROVAL_REQUIRED |-> {"approve", "decline"}]

Approved == {"dry_run_ready", "submitted_mock"}
Outcomes == Approved \cup {"rejected_by_human"}

(* The edges of the linear apply graph.                                    *)
Successor == [detect_and_map_fields |-> "fill_and_validate",
              fill_and_validate     |-> "check_challenges",
              check_challenges      |-> "manual_approval",
              manual_approval       |-> "finalize_application",
              finalize_application  |-> "END"]

(* A checkpoint: the node to run next, the answers its interrupts have     *)
(* received, the interrupt it is paused at, and the values of              *)
(* ApplicationState the later nodes read.  form_unknown and strong stand   *)
(* for the form having fields the mapper cannot fill, and for a score and  *)
(* a mapping confidence that clear the hybrid bars.                        *)
Checkpoints ==
  [next         : DOMAIN Successor \cup {"absent", "END"},
   answers      : Seq(Payloads),
   waiting      : Questions \cup {"none"},
   pages        : Seq(PageKinds),
   form_unknown : BOOLEAN,
   strong       : BOOLEAN,
   unresolved   : BOOLEAN,
   approved     : BOOLEAN,
   status       : Outcomes \cup {"none"}]

(* What aget_state finds for an id that has no checkpoint.                 *)
NoCheckpoint ==
  [next |-> "absent", answers |-> <<>>, waiting |-> "none", pages |-> <<>>,
   form_unknown |-> FALSE, strong |-> FALSE, unresolved |-> FALSE,
   approved |-> FALSE, status |-> "none"]

Rows == [job    : Job \cup {NoJob},
         status : {"absent", "waiting_human", "completed"} \cup Outcomes,
         reason : Questions \cup {"none"}]

QueueRecords == [id     : Nat,
                 status : {"none", "pending", "resolved"},
                 reason : Questions \cup {"none"}]

(* A handler in flight: the application and, for a start, the job it works *)
(* on; the resume payload it has not consumed; the queue record a resolve  *)
(* was addressed to; the graph state in its memory; and whether the        *)
(* checkpoint it works on is still the latest of its thread.               *)
Calls == [pc     : {"idle", "create", "invoke", "lookup", "load", "run", "persist"},
          app    : App \cup {NoApp},
          job    : Job \cup {NoJob},
          pay    : Payloads \cup {"none"},
          view   : Nat,
          mem    : Checkpoints,
          latest : BOOLEAN]

Idle == [pc |-> "idle", app |-> NoApp, job |-> NoJob, pay |-> "none", view |-> 0,
         mem |-> NoCheckpoint, latest |-> FALSE]

VARIABLES
  row,       \* applications table
  queue,     \* human_interventions: the last row of each application
  thread,    \* latest checkpoint of each thread_id
  call,      \* the handlers
  mode,      \* approval.mode as the next load of automation.yaml returns it
  dryRun,    \* AUTOMATION_DRY_RUN of the running process
  said,      \* history: the decisions the operator sent, per application
  waived     \* history: applications approved by the mode instead of a human

db   == <<row, queue>>
conf == <<mode, dryRun>>
hist == <<said, waived>>
vars == <<row, queue, thread, call, mode, dryRun, said, waived>>

TypeOK ==
  /\ row    \in [App -> Rows]
  /\ queue  \in [App -> QueueRecords]
  /\ thread \in [App -> Checkpoints]
  /\ call   \in [Call -> Calls]
  /\ mode   \in Modes
  /\ dryRun \in BOOLEAN
  /\ said   \in [App -> SUBSET Decisions]
  /\ waived \in SUBSET App

-----------------------------------------------------------------------------
(* Requests.                                                               *)

InFlight(a) == \E c \in Call : call[c].app = a

(* In the serial regime the operator opens a question only when no call    *)
(* for the application is outstanding.                                     *)
OperatorMayAnswer(a) == Serial => ~InFlight(a)

(* The handler returns or raises: nothing of the call is left.             *)
Return(c) == call' = [call EXCEPT ![c] = Idle]

(* start_application, first session: the duplicate check.  Requests that   *)
(* are refused (no profile, duplicate) change nothing; nothing is reserved *)
(* for the start that passes.                                              *)
CheckDuplicate(c, j) ==
  /\ call[c].pc = "idle"
  /\ \A a \in App : row[a].job # j
  /\ call' = [call EXCEPT ![c].pc = "create", ![c].job = j]
  /\ UNCHANGED <<db, thread, conf, hist>>

(* Mutant of CreateRow: the row starts with the question every application *)
(* ends at, and that question is in the queue at once.                     *)
CreateRowQueued(c) ==
  /\ call[c].pc = "create"
  /\ \E a \in App :
       /\ row[a].status = "absent"
       /\ row' = [row EXCEPT ![a] = [job |-> call[c].job, status |-> "waiting_human",
                                     reason |-> "MANUAL_APPROVAL_REQUIRED"]]
       /\ queue' = [queue EXCEPT ![a] = [id |-> 1, status |-> "pending",
                                         reason |-> "MANUAL_APPROVAL_REQUIRED"]]
       /\ call' = [call EXCEPT ![c].pc = "invoke", ![c].app = a]
  /\ UNCHANGED <<thread, conf, hist>>

(* start_application: a fresh uuid and create_application_record.          *)
CreateRow(c) ==
  /\ call[c].pc = "create"
  /\ \E a \in App :
       /\ row[a].status = "absent"
       /\ row' = [row EXCEPT ![a] = [job |-> call[c].job, status |-> "waiting_human",
                                     reason |-> "none"]]
       /\ call' = [call EXCEPT ![c].pc = "invoke", ![c].app = a]
  /\ UNCHANGED <<queue, thread, conf, hist>>

(* Writing a checkpoint makes it the latest of its thread, whatever other  *)
(* invocations of the same thread have written since this one loaded.      *)
WriteCheckpoint(c, m, label) ==
  /\ thread' = [thread EXCEPT ![call[c].app] = m]
  /\ call' = [d \in Call |->
                IF d = c THEN [call[c] EXCEPT !.pc = label, !.pay = "none",
                                              !.mem = m, !.latest = TRUE]
                ELSE [call[d] EXCEPT !.latest = @ /\ call[d].app # call[c].app]]

(* graph.ainvoke(initial_state): the first checkpoint of the thread.       *)
Invoke(c) ==
  /\ call[c].pc = "invoke"
  /\ \E list \in PageLists, unknown \in BOOLEAN, strong \in BOOLEAN :
       WriteCheckpoint(c, [NoCheckpoint EXCEPT !.next = "detect_and_map_fields",
                             !.pages = list, !.form_unknown = unknown, !.strong = strong],
                       "run")
  /\ UNCHANGED <<db, conf, hist>>

(* The operator composes payload p for application a.                      *)
Send(c, a, p, label, view) ==
  /\ call[c].pc = "idle"
  /\ OperatorMayAnswer(a)
  /\ queue[a].id <= MaxInterventions
  /\ call' = [call EXCEPT ![c].pc = label, ![c].app = a, ![c].pay = p, ![c].view = view]
  /\ said' = [said EXCEPT ![a] = @ \cup ({p} \cap Decisions)]
  /\ UNCHANGED <<db, thread, conf, waived>>

(* An item of GET /api/human-actions is answered.                          *)
Answer(c, a, p) ==
  /\ queue[a].status = "pending"
  /\ p \in Reply[queue[a].reason]
  /\ Send(c, a, p, "lookup", queue[a].id)

(* The operator reads GET /api/applications/{id} and posts to its /resume: *)
(* an answer when an interrupt is shown, a retry otherwise.                *)
ResumeDirect(c, a, p) ==
  /\ thread[a].next # "absent"
  /\ \/ thread[a].waiting # "none" /\ p \in Reply[thread[a].waiting]
     \/ thread[a].waiting = "none" /\ p = "retry" /\ "retry" \in Faults
  /\ Send(c, a, p, "load", 0)

(* resolve_human_action (and `jobagent human resolve`): the record must    *)
(* still be pending, otherwise 404.                                        *)
Lookup(c) ==
  /\ call[c].pc = "lookup"
  /\ LET record == queue[call[c].app]
     IN IF record.status = "pending" /\ record.id = call[c].view
          THEN call' = [call EXCEPT ![c].pc = "load"]
          ELSE Return(c)
  /\ UNCHANGED <<db, thread, conf, hist>>

(* Mutant of Load: a finished application is taken up again at the gate.   *)
LoadAtGate(c) ==
  /\ call[c].pc = "load"
  /\ LET m == thread[call[c].app]
     IN IF m.next = "absent"
          THEN Return(c)
          ELSE call' = [call EXCEPT ![c].pc = "run",
                                    ![c].mem = IF m.next # "END" THEN m
                                               ELSE [m EXCEPT !.next = "manual_approval"],
                                    ![c].latest = TRUE]
  /\ UNCHANGED <<db, thread, conf, hist>>

(* resume_application up to ainvoke: nothing asks whether the thread is    *)
(* paused, nor at which interrupt.  A finished thread runs no node.        *)
Load(c) ==
  /\ call[c].pc = "load"
  /\ LET m == thread[call[c].app]
     IN IF m.next = "absent"
          THEN Return(c)
          ELSE call' = [call EXCEPT ![c].pc = IF m.next = "END" THEN "persist" ELSE "run",
                                    ![c].mem = m, ![c].latest = TRUE]
  /\ UNCHANGED <<db, thread, conf, hist>>

-----------------------------------------------------------------------------
(* Nodes of the apply graph.                                               *)

At(c, node) == call[c].pc = "run" /\ call[c].mem.next = node

(* The answers interrupt() finds: those of earlier resumes, then the       *)
(* payload of this one.                                                    *)
Answers(c) == IF call[c].pay = "none" THEN call[c].mem.answers
                                      ELSE Append(call[c].mem.answers, call[c].pay)

(* The questions a list of pages raises before its k-th.                   *)
AskedBefore(list, k) == Cardinality({i \in 1 .. k - 1 : list[i] # "unrecognized"})

Answered(c, list) == AskedBefore(list, Len(list) + 1) <= Len(Answers(c))

(* Mutant of Complete: the next node inherits the answers.                 *)
CompleteKeepingAnswers(c, update) ==
  LET next == Successor[update.next]
  IN /\ WriteCheckpoint(c, [update EXCEPT !.next = next, !.answers = Answers(c),
                                          !.waiting = "none"],
                        IF next = "END" THEN "persist" ELSE "run")
     /\ UNCHANGED <<db, conf, said>>

(* The node returns: its update is checkpointed and the successor is next. *)
(* A payload the node did not ask for is dropped with the step.            *)
Complete(c, update) ==
  LET next == Successor[update.next]
  IN /\ WriteCheckpoint(c, [update EXCEPT !.next = next, !.answers = <<>>, !.waiting = "none"],
                        IF next = "END" THEN "persist" ELSE "run")
     /\ UNCHANGED <<db, conf, said>>

(* interrupt(): the run stops at the first question without an answer.     *)
(* Interrupt and answers are pending writes of the checkpoint the call     *)
(* works on: they show only while that one is the latest.                  *)
Pause(c, list) ==
  /\ \E k \in DOMAIN list :
       /\ list[k] # "unrecognized"
       /\ AskedBefore(list, k) = Len(Answers(c))
       /\ LET m == [call[c].mem EXCEPT !.answers = Answers(c), !.waiting = list[k]]
          IN /\ call' = [call EXCEPT ![c].pc = "persist", ![c].pay = "none", ![c].mem = m]
             /\ thread' = IF call[c].latest THEN [thread EXCEPT ![call[c].app] = m]
                                            ELSE thread
  /\ UNCHANGED <<db, conf, hist>>

(* The form as this execution of the node finds it.                        *)
FormUnknown(m) == IF "pages" \in Faults THEN BOOLEAN ELSE {m.form_unknown}

UnknownFields(unknown) == IF unknown THEN <<"UNKNOWN_REQUIRED_FIELD">> ELSE <<>>

(* One interrupt for all the fields that need the human; those it leaves   *)
(* out stay unresolved and the graph goes on.                              *)
DetectAndMapFields(c) ==
  /\ At(c, "detect_and_map_fields")
  /\ \E unknown \in FormUnknown(call[c].mem) :
       \/ Pause(c, UnknownFields(unknown))
       \/ /\ Answered(c, UnknownFields(unknown))
          /\ Complete(c, [call[c].mem EXCEPT !.unresolved =
                             unknown /\ Answers(c)[1] # "fields"])
          /\ UNCHANGED waived

(* Problems of filling are warnings; the graph goes on.                    *)
FillAndValidate(c) ==
  /\ At(c, "fill_and_validate")
  /\ Complete(c, call[c].mem)
  /\ UNCHANGED waived

(* What the challenge pages show this execution.                           *)
Shown(m) == IF "pages" \in Faults THEN [1 .. Len(m.pages) -> PageKinds] ELSE {m.pages}

(* Neither otp_code nor captcha_resolved is read by a later node.          *)
CheckChallenges(c) ==
  /\ At(c, "check_challenges")
  /\ \E shown \in Shown(call[c].mem) :
       \/ Pause(c, shown)
       \/ /\ Answered(c, shown)
          /\ Complete(c, call[c].mem)
          /\ UNCHANGED waived

HybridAutoApproves(m) == m.strong /\ ~m.unresolved

ModeApproves(m) == \/ mode = "automatic"
                   \/ mode = "hybrid" /\ HybridAutoApproves(m)

ApprovalQuestion == <<"MANUAL_APPROVAL_REQUIRED">>

(* The mode is read again by every execution, before any recorded answer.  *)
ManualApproval(c) ==
  /\ At(c, "manual_approval")
  /\ \/ /\ ModeApproves(call[c].mem)
        /\ Complete(c, [call[c].mem EXCEPT !.approved = TRUE])
        /\ waived' = waived \cup {call[c].app}
     \/ /\ ~ModeApproves(call[c].mem)
        /\ Pause(c, ApprovalQuestion)
     \/ /\ ~ModeApproves(call[c].mem)
        /\ Answered(c, ApprovalQuestion)
        /\ Complete(c, [call[c].mem EXCEPT !.approved = Answers(c)[1] = "approve"])
        /\ UNCHANGED waived

(* Mutants of FinalStatus: the wrong word, the cases in the wrong order,   *)
(* an incomplete form taken for a rejection.                               *)
FinalStatusWord(m) == IF m.approved THEN "submitted" ELSE "rejected_by_human"

FinalStatusDryRunFirst(m) == IF dryRun THEN "dry_run_ready"
                             ELSE IF ~m.approved THEN "rejected_by_human"
                             ELSE "submitted_mock"

FinalStatusIncomplete(m) == IF ~m.approved \/ m.unresolved THEN "rejected_by_human"
                            ELSE IF dryRun THEN "dry_run_ready" ELSE "submitted_mock"

FinalStatus(m) == IF ~m.approved THEN "rejected_by_human"
                  ELSE IF dryRun THEN "dry_run_ready" ELSE "submitted_mock"

FinalizeApplication(c) ==
  /\ At(c, "finalize_application")
  /\ Complete(c, [call[c].mem EXCEPT !.status = FinalStatus(call[c].mem)])
  /\ UNCHANGED waived

-----------------------------------------------------------------------------
(* persist_application_result: one transaction over both tables.           *)

(* Mutants of Pending: a record that is pending is left as it is, or is    *)
(* closed without opening the next.                                        *)
PendingKept(q, reason) ==
  IF q.status = "pending" THEN q
  ELSE [id |-> q.id + 1, status |-> "pending", reason |-> reason]

PendingClosed(q, reason) ==
  IF q.status = "pending" THEN [q EXCEPT !.status = "resolved"]
  ELSE [id |-> q.id + 1, status |-> "pending", reason |-> reason]

(* _upsert_pending_intervention: a pending record is overwritten in place, *)
(* keeping its id; otherwise a new one is inserted.                        *)
Pending(q, reason) ==
  [id     |-> IF q.status = "pending" THEN q.id ELSE q.id + 1,
   status |-> "pending",
   reason |-> reason]

(* Mutant of Resolved: the record stays pending.                           *)
ResolvedLater(q) == q

(* _resolve_interventions.                                                 *)
Resolved(q) == IF q.status = "pending" THEN [q EXCEPT !.status = "resolved"] ELSE q

(* Mutant of RowStatus: the outcome of the graph is not taken over.        *)
RowStatusConstant(m) == "completed"

(* The status of a row whose graph stopped without a question.             *)
RowStatus(m) == IF m.status = "none" THEN "completed" ELSE m.status

PersistResult(c) ==
  /\ call[c].pc = "persist"
  /\ LET a == call[c].app
         m == call[c].mem
     IN IF m.waiting # "none"
        THEN /\ row'   = [row EXCEPT ![a].status = "waiting_human", ![a].reason = m.waiting]
             /\ queue' = [queue EXCEPT ![a] = Pending(@, m.waiting)]
        ELSE /\ row'   = [row EXCEPT ![a].status = RowStatus(m), ![a].reason = "none"]
             /\ queue' = [queue EXCEPT ![a] = Resolved(@)]
  /\ Return(c)
  /\ UNCHANGED <<thread, conf, hist>>

-----------------------------------------------------------------------------
(* Faults and configuration changes.                                       *)

(* A browser call of the node raises; the request ends with an error.      *)
(* Answers consumed earlier in the same execution stay recorded.           *)
BrowserFails(c) ==
  /\ "browser" \in Faults
  /\ \/ /\ At(c, "detect_and_map_fields") \/ At(c, "fill_and_validate")
        /\ UNCHANGED thread
     \/ /\ At(c, "check_challenges")
        /\ \E shown \in Shown(call[c].mem) : \E k \in DOMAIN shown :
             /\ AskedBefore(shown, k) <= Len(Answers(c))
             /\ thread' = IF call[c].latest /\ AskedBefore(shown, k) > Len(call[c].mem.answers)
                           THEN [thread EXCEPT ![call[c].app].answers = Answers(c)]
                           ELSE thread
  /\ Return(c)
  /\ UNCHANGED <<db, conf, hist>>

(* The process dies and restarts: calls are gone, the stores are not, and  *)
(* the environment is read again.                                          *)
Crash ==
  /\ "crash" \in Faults
  /\ \E c \in Call : call[c] # Idle
  /\ call' = [c \in Call |-> Idle]
  /\ dryRun' \in IF "config" \in Faults THEN BOOLEAN ELSE {dryRun}
  /\ UNCHANGED <<db, thread, mode, hist>>

(* PUT /api/settings writes the automation section and reloads it.         *)
EditMode ==
  /\ "config" \in Faults
  /\ mode' \in Modes \ {mode}
  /\ UNCHANGED <<db, thread, call, dryRun, hist>>

-----------------------------------------------------------------------------
Init ==
  /\ row    = [a \in App |-> [job |-> NoJob, status |-> "absent", reason |-> "none"]]
  /\ queue  = [a \in App |-> [id |-> 0, status |-> "none", reason |-> "none"]]
  /\ thread = [a \in App |-> NoCheckpoint]
  /\ call   = [c \in Call |-> Idle]
  /\ mode   \in Modes
  /\ dryRun \in BOOLEAN
  /\ said   = [a \in App |-> {}]
  /\ waived = {}

RunNode(c) ==
  \/ DetectAndMapFields(c)
  \/ FillAndValidate(c)
  \/ CheckChallenges(c)
  \/ ManualApproval(c)
  \/ FinalizeApplication(c)

(* What a call does without the operator or a fault.                       *)
Proceed(c) ==
  \/ CreateRow(c)
  \/ Invoke(c)
  \/ Lookup(c)
  \/ Load(c)
  \/ RunNode(c)
  \/ PersistResult(c)

Next ==
  \/ \E c \in Call, j \in Job : CheckDuplicate(c, j)
  \/ \E c \in Call, a \in App, p \in Payloads : Answer(c, a, p)
  \/ \E c \in Call, a \in App, p \in Payloads : ResumeDirect(c, a, p)
  \/ \E c \in Call : Proceed(c)
  \/ \E c \in Call : BrowserFails(c)
  \/ Crash
  \/ EditMode

Spec == Init /\ [][Next]_vars

(* Every handler step is eventually taken: asyncio runs a ready task.      *)
FairSpec == Spec /\ \A c \in Call : WF_vars(Proceed(c))

(* Besides, the operator works through the human-actions queue.            *)
AttendedSpec == FairSpec /\ \A a \in App :
                  WF_vars(\E c \in Call, p \in Payloads : Answer(c, a, p))

-----------------------------------------------------------------------------
(* Safety.                                                                 *)

(* SECURITY.md:18-19: an application counts as submitted (or ready to be)  *)
(* only if the operator approved this application, or approval.mode let it *)
(* through without one; whatever calls, retries, crashes and stale answers *)
(* interleave between manual_approval and the applications row.            *)
NoSubmitWithoutConsent ==
  \A a \in App : row[a].status \in Approved => "approve" \in said[a] \/ a \in waived

(* ARCHITECTURE.md:921-927: start_application never leaves two            *)
(* applications of one job.                                                *)
OneApplicationPerJob ==
  \A a, b \in App : row[a].job = row[b].job /\ row[a].job # NoJob => a = b

(* README:435-446: rejected_by_human means that the operator declined this *)
(* application, not that some other payload met the approval interrupt.    *)
RejectedMeansDeclined ==
  \A a \in App : row[a].status = "rejected_by_human" => "decline" \in said[a]

(* README:435-446, the other direction: an application the operator        *)
(* declined, and never approved, does not go through.                      *)
DeclineHonoured ==
  \A a \in App : row[a].status \in Approved =>
    ("decline" \in said[a] => "approve" \in said[a])

(* The two tables persist_application_result writes agree: an application  *)
(* is in the human-review queue exactly while its row waits for a question, *)
(* and with that question.                                                 *)
QueueMirrorsRow ==
  \A a \in App :
    /\ queue[a].status = "pending"
         <=> row[a].status = "waiting_human" /\ row[a].reason # "none"
    /\ queue[a].status = "pending" => queue[a].reason = row[a].reason

(* human_intervention.py:3: once the calls for an application returned,    *)
(* the interrupt its checkpoint is paused at is in the queue.              *)
InterruptsAreQueued ==
  \A a \in App : thread[a].waiting # "none" /\ ~InFlight(a) =>
    queue[a].status = "pending" /\ queue[a].reason = thread[a].waiting

(* Once the calls returned, the row is final exactly if the graph ended,   *)
(* and with the outcome the graph recorded.                                *)
RowFollowsGraph ==
  \A a \in App : ~InFlight(a) =>
    IF thread[a].next = "END" THEN row[a].status = thread[a].status
                              ELSE row[a].status \notin Outcomes

(* apply_service.py:103-107: whatever the dashboard shows of an            *)
(* application besides the bare row of its start - a question, an outcome, *)
(* a record in the queue, answered or not - has a checkpoint behind it     *)
(* that resume_application can take up, wherever the process died.         *)
ShownIsResumable ==
  \A a \in App :
    \/ row[a].reason # "none"
    \/ row[a].status \in Outcomes \cup {"completed"}
    \/ queue[a].status # "none"
    => thread[a].next # "absent"

(* What the node a run is at has to ask.                                   *)
QuestionsOf(m) ==
  CASE m.next = "detect_and_map_fields" -> UnknownFields(m.form_unknown)
    [] m.next = "check_challenges"      -> m.pages
    [] m.next = "manual_approval"       -> ApprovalQuestion
    [] OTHER                            -> <<>>

(* ARCHITECTURE.md:357-361: every answer a node is about to read was given *)
(* to the question at whose position it stands.                            *)
AnswersFitTheirQuestions ==
  \A c \in Call : call[c].pc = "run" =>
    LET list == QuestionsOf(call[c].mem)
    IN \A k \in DOMAIN list :
         list[k] # "unrecognized" /\ AskedBefore(list, k) < Len(Answers(c))
           => Answers(c)[AskedBefore(list, k) + 1] \in Reply[list[k]]

(* With an operator who answers, every application gets an outcome.        *)
Settles == \A a \in App : row[a].status = "waiting_human" ~> row[a].status \in Outcomes
=============================================================================
