----------------------------- MODULE DiscoveryRun -----------------------------
(***************************************************************************)
(* Discovery runs: start_run, resume_run and the human-action routes       *)
(* (app/graph/service.py), the nodes of the supervisor graph               *)
(* (app/graph/nodes.py) and what persist_run_result leaves in the          *)
(* automation_runs, jobs and human_interventions tables.                   *)
(*                                                                         *)
(* The job rows are shared: ids are stable, so every run that meets a job  *)
(* writes the same row.  LangGraph is external and behaves as in           *)
(* ApplyFlow; the portal tasks of a fan-out are one superstep, whose       *)
(* results are concatenated in the order of enabled_portals.               *)
(***************************************************************************)
EXTENDS Guardrails, SequencesExt

CONSTANTS
  Run,                \* the pool uuid4 draws run ids from
  NoRun,
  Call,               \* requests, CLI commands and scheduler jobs in flight
  Job,                \* stable job ids
  Opportunity,        \* (company, title family, location)
  Portal,
  PortalLists,        \* values enabled_portals takes
  Boards,             \* what a portal may answer: portal -> set of listings
  Ratings,            \* what scorer and guardrails may make of a posting
  Faults,             \* which faults may happen
  Serial,             \* TRUE: the operator waits for one answer before the next
  MaxInterventions    \* bound: queue records per run before the operator stops

(* What normalize_job makes of a raw job: its stable id, the opportunity   *)
(* the dedupe compares, and whether it has url, title and company.         *)
Postings == [job : Job, key : Opportunity, ok : BOOLEAN]

ASSUME ConstantsAssumption ==
  /\ NoRun \notin Run
  /\ PortalLists \subseteq Seq(Portal)
  /\ Boards \in [Portal -> SUBSET Seq(Postings)]
  /\ Ratings \subseteq [recommendation : Recommendations, verdict : Verdicts]
  /\ Faults \subseteq {"crash", "limits", "partial", "retry"}
  /\ Serial \in BOOLEAN
  /\ MaxInterventions \in Nat

Answers == {"queue", "reject"}

(* decisions of a resume: job id -> "queue" or "reject".                   *)
DecisionsFor(jobs) == [jobs -> Answers]
NoDecisions == DecisionsFor({})
Payloads == UNION {DecisionsFor(jobs) : jobs \in SUBSET Job}

Nodes == {"load_candidate_profile", "load_search_policy", "discover_portal",
          "normalize_jobs", "dedupe_jobs", "score_jobs", "policy_guard", "finalize"}

ScoredJobs == [job : Job, recommendation : Recommendations, verdict : Verdicts]

Metrics == [discovered : Nat, duplicates : Nat, scored : Nat,
            rejected : Nat, queued : Nat, human_review_pending : Nat]
NoMetrics == [discovered |-> 0, duplicates |-> 0, scored |-> 0,
              rejected |-> 0, queued |-> 0, human_review_pending |-> 0]

(* A checkpoint.  jobs: normalized_jobs; routed: which of rejected_jobs,   *)
(* application_queue and human_review_jobs each scored job is in; asked:   *)
(* the jobs of the interrupt the run is paused at.                         *)
Checkpoints ==
  [next       : Nodes \cup {"absent", "END"},
   profile    : BOOLEAN,
   portals    : Seq(Portal),
   discovered : Seq(Postings),
   jobs       : Seq(Postings),
   duplicates : Seq(Postings),
   scored     : Seq(ScoredJobs),
   routed     : Seq(Targets),
   asked      : SUBSET Job,
   metrics    : Metrics]

NoCheckpoint ==
  [next |-> "absent", profile |-> FALSE, portals |-> <<>>, discovered |-> <<>>,
   jobs |-> <<>>, duplicates |-> <<>>, scored |-> <<>>, routed |-> <<>>,
   asked |-> {}, metrics |-> NoMetrics]

RunRows == [status : {"absent", "waiting_human", "completed"}, metrics : Metrics]

JobRows == [run    : Run \cup {NoRun},
            status : {"absent", "queued", "rejected", "human_review", "duplicate"}]

QueueRecords == [id : Nat, status : {"none", "pending", "resolved"}, asked : SUBSET Job]

(* A call in flight: its run, whether it carries a resume payload and      *)
(* which, the queue record it was addressed to, the graph state in its     *)
(* memory and whether the checkpoint it works on is still the latest.      *)
Calls == [pc      : {"idle", "lookup", "load", "run", "persist"},
          run     : Run \cup {NoRun},
          resumes : BOOLEAN,
          pay     : Payloads,
          view    : Nat,
          mem     : Checkpoints,
          latest  : BOOLEAN]

Nothing == CHOOSE d \in NoDecisions : TRUE

Idle == [pc |-> "idle", run |-> NoRun, resumes |-> FALSE, pay |-> Nothing, view |-> 0,
         mem |-> NoCheckpoint, latest |-> FALSE]

VARIABLES
  runRow,    \* automation_runs
  jobRow,    \* jobs
  queue,     \* human_interventions: the last row of each run
  thread,    \* latest checkpoint of each run
  call,      \* the handlers
  limits,    \* TRUE while the application limits in force are above zero
  said,      \* history: decisions sent, as <<run, job, choice>>
  shown      \* history: jobs a pause has shown, as <<run, job>>

db   == <<runRow, jobRow, queue>>
vars == <<runRow, jobRow, queue, thread, call, limits, said, shown>>

TypeOK ==
  /\ runRow \in [Run -> RunRows]
  /\ jobRow \in [Job -> JobRows]
  /\ queue  \in [Run -> QueueRecords]
  /\ thread \in [Run -> Checkpoints]
  /\ call   \in [Call -> Calls]
  /\ limits \in BOOLEAN
  /\ said   \subseteq Run \X Job \X Answers
  /\ shown  \subseteq Run \X Job

-----------------------------------------------------------------------------
(* Requests.                                                               *)

InFlight(r) == \E c \in Call : call[c].run = r

Return(c) == call' = [call EXCEPT ![c] = Idle]

WriteCheckpoint(c, r, m, label) ==
  /\ thread' = [thread EXCEPT ![r] = m]
  /\ call' = [d \in Call |->
                IF d = c THEN [Idle EXCEPT !.pc = label, !.run = r, !.mem = m, !.latest = TRUE]
                ELSE [call[d] EXCEPT !.latest = @ /\ call[d].run # r]]

(* start_run: a fresh id and the first checkpoint; no table is written.    *)
StartRun(c, r) ==
  /\ call[c].pc = "idle"
  /\ thread[r].next = "absent"
  /\ WriteCheckpoint(c, r, [NoCheckpoint EXCEPT !.next = "load_candidate_profile"], "run")
  /\ UNCHANGED <<db, limits, said, shown>>

(* The operator sends decisions.                                           *)
Send(c, r, decisions, label, view) ==
  /\ call[c].pc = "idle"
  /\ Serial => ~InFlight(r)
  /\ queue[r].id <= MaxInterventions
  /\ call' = [call EXCEPT ![c].pc = label, ![c].run = r, ![c].resumes = TRUE,
                          ![c].pay = decisions, ![c].view = view]
  /\ said' = said \cup {<<r, j, decisions[j]>> : j \in DOMAIN decisions}
  /\ UNCHANGED <<db, thread, limits, shown>>

(* The decisions for the jobs a pause shows; with "partial" some are left  *)
(* out.                                                                    *)
Decided(jobs) ==
  IF "partial" \in Faults THEN UNION {DecisionsFor(s) : s \in (SUBSET jobs) \ {{}}}
                          ELSE DecisionsFor(jobs)

(* An item of GET /api/human-actions is answered.                          *)
Answer(c, r) ==
  /\ queue[r].status = "pending"
  /\ \E decisions \in Decided(queue[r].asked) : Send(c, r, decisions, "lookup", queue[r].id)

(* POST /api/runs/{id}/resume: an answer to what GET shows, or a retry of  *)
(* a run that shows no question, with a payload that names no job.         *)
ResumeDirect(c, r) ==
  /\ thread[r].next # "absent"
  /\ \/ /\ thread[r].asked # {}
        /\ \E decisions \in Decided(thread[r].asked) : Send(c, r, decisions, "load", 0)
     \/ /\ thread[r].asked = {}
        /\ "retry" \in Faults
        /\ Send(c, r, Nothing, "load", 0)

(* resolve_human_action: the record must still be pending.                 *)
Lookup(c) ==
  /\ call[c].pc = "lookup"
  /\ LET record == queue[call[c].run]
     IN IF record.status = "pending" /\ record.id = call[c].view
          THEN call' = [call EXCEPT ![c].pc = "load"]
          ELSE Return(c)
  /\ UNCHANGED <<db, thread, limits, said, shown>>

(* Mutant of Load: a finished run is routed and counted again.             *)
LoadAtGuard(c) ==
  /\ call[c].pc = "load"
  /\ LET m == thread[call[c].run]
     IN call' = [call EXCEPT ![c].pc = "run",
                             ![c].mem = IF m.next # "END" THEN m
                                        ELSE [m EXCEPT !.next = "policy_guard"],
                             ![c].latest = TRUE]
  /\ UNCHANGED <<db, thread, limits, said, shown>>

(* resume_run up to ainvoke; a finished thread runs no node.               *)
Load(c) ==
  /\ call[c].pc = "load"
  /\ LET m == thread[call[c].run]
     IN call' = [call EXCEPT ![c].pc = IF m.next = "END" THEN "persist" ELSE "run",
                             ![c].mem = m, ![c].latest = TRUE]
  /\ UNCHANGED <<db, thread, limits, said, shown>>

-----------------------------------------------------------------------------
(* Nodes of the supervisor graph.                                          *)

At(c, node) == call[c].pc = "run" /\ call[c].mem.next = node

(* The node returns its update; the payload of a resume goes with the      *)
(* first node the resume runs, whether it asked or not.                    *)
Complete(c, update, next) ==
  /\ WriteCheckpoint(c, call[c].run, [update EXCEPT !.next = next, !.asked = {}],
                     IF next = "END" THEN "persist" ELSE "run")
  /\ UNCHANGED <<db, limits, said, shown>>

LoadCandidateProfile(c) ==
  /\ At(c, "load_candidate_profile")
  /\ \E found \in BOOLEAN :
       Complete(c, [call[c].mem EXCEPT !.profile = found], "load_search_policy")

LoadSearchPolicy(c) ==
  /\ At(c, "load_search_policy")
  /\ \E list \in PortalLists :
       Complete(c, [call[c].mem EXCEPT !.portals = list], "discover_portal")

(* One Send per enabled portal; a portal that fails, or is not known,      *)
(* leaves an error or a warning and no jobs.                               *)
DiscoverPortals(c) ==
  /\ At(c, "discover_portal")
  /\ LET portals == call[c].mem.portals
     IN \E listing \in [DOMAIN portals -> (UNION {Boards[p] : p \in Portal}) \cup {<<>>}] :
          /\ \A i \in DOMAIN portals : listing[i] \in Boards[portals[i]] \cup {<<>>}
          /\ Complete(c, [call[c].mem EXCEPT !.discovered = FlattenSeq(listing)],
                      "normalize_jobs")

(* The entries of a list at some positions, in the order of the list.      *)
Pick(list, at) == FlattenSeq([i \in DOMAIN list |-> IF i \in at THEN <<list[i]>> ELSE <<>>])

(* A posting without url, title or company becomes an error.               *)
NormalizeJobs(c) ==
  /\ At(c, "normalize_jobs")
  /\ LET found == call[c].mem.discovered
     IN Complete(c, [call[c].mem EXCEPT !.jobs = Pick(found, {i \in DOMAIN found : found[i].ok})],
                 "dedupe_jobs")

(* The postings whose opportunity was, or was not, seen before.            *)
Repeats(list, repeated) ==
  Pick(list, {i \in DOMAIN list : (\E k \in 1 .. i - 1 : list[k].key = list[i].key) = repeated})

DedupeJobs(c) ==
  /\ At(c, "dedupe_jobs")
  /\ Complete(c, [call[c].mem EXCEPT !.jobs = Repeats(@, FALSE),
                                     !.duplicates = Repeats(call[c].mem.jobs, TRUE)],
              "score_jobs")

(* Without a profile nothing is scored.  verdict is what the checks make   *)
(* of job, match and profile, which all travel in the state.               *)
ScoreJobs(c) ==
  /\ At(c, "score_jobs")
  /\ LET jobs == call[c].mem.jobs
     IN \E rating \in [DOMAIN jobs -> Ratings] :
          Complete(c, [call[c].mem EXCEPT !.scored =
                         IF call[c].mem.profile
                           THEN [i \in DOMAIN jobs |->
                                   [job |-> jobs[i].job,
                                    recommendation |-> rating[i].recommendation,
                                    verdict |-> rating[i].verdict]]
                           ELSE <<>>],
                   "policy_guard")

(* The limits are loaded again by every execution, and the counts they     *)
(* are compared with stay 0.                                               *)
Destination(s) ==
  Route(s.recommendation, Overall({s.verdict, BlockIf(~limits)}))

Review(m) == {i \in DOMAIN m.scored : Destination(m.scored[i]) = "human_review"}

JobsAt(m, positions) == {m.scored[i].job : i \in positions}

(* Mutants of RouteAll: an omitted job goes to the queue; decisions are    *)
(* lost.                                                                   *)
RouteOmittedToQueue(m, decisions) ==
  [i \in DOMAIN m.scored |->
     IF i \notin Review(m) THEN Destination(m.scored[i])
     ELSE IF m.scored[i].job \in DOMAIN decisions THEN decisions[m.scored[i].job]
     ELSE "queue"]

RouteUndecided(m, decisions) == [i \in DOMAIN m.scored |-> Destination(m.scored[i])]

(* A decision moves a job under review; what it omits stays there.         *)
RouteAll(m, decisions) ==
  [i \in DOMAIN m.scored |->
     IF i \in Review(m) /\ m.scored[i].job \in DOMAIN decisions
       THEN decisions[m.scored[i].job]
       ELSE Destination(m.scored[i])]

(* Mutants of PolicyGuard: the run does not stop for the jobs under        *)
(* review; it stops again although it was answered.                        *)
PolicyGuardUnasked(c) ==
  /\ At(c, "policy_guard")
  /\ Complete(c, [call[c].mem EXCEPT !.routed = RouteAll(call[c].mem, call[c].pay)], "finalize")

PolicyGuardAgain(c) ==
  /\ At(c, "policy_guard")
  /\ LET m == call[c].mem
         paused == [m EXCEPT !.asked = JobsAt(m, Review(m))]
     IN \/ /\ Review(m) = {}
           /\ Complete(c, [m EXCEPT !.routed = RouteAll(m, call[c].pay)], "finalize")
        \/ /\ Review(m) # {}
           /\ call' = [call EXCEPT ![c].pc = "persist", ![c].mem = paused]
           /\ thread' = IF call[c].latest THEN [thread EXCEPT ![call[c].run] = paused]
                                          ELSE thread
           /\ shown' = shown \cup {<<call[c].run, j>> : j \in paused.asked}
           /\ UNCHANGED <<db, limits, said>>

PolicyGuard(c) ==
  /\ At(c, "policy_guard")
  /\ LET m == call[c].mem
         r == call[c].run
         review == Review(m)
         paused == [m EXCEPT !.asked = JobsAt(m, review)]
     IN \/ /\ review = {} \/ call[c].resumes
           /\ Complete(c, [m EXCEPT !.routed = RouteAll(m, call[c].pay)], "finalize")
        \/ /\ review # {} /\ ~call[c].resumes
           /\ call' = [call EXCEPT ![c].pc = "persist", ![c].mem = paused]
           /\ thread' = IF call[c].latest THEN [thread EXCEPT ![r] = paused] ELSE thread
           /\ shown' = shown \cup {<<r, j>> : j \in paused.asked}
           /\ UNCHANGED <<db, limits, said>>

Count(m, target) == Cardinality({i \in DOMAIN m.routed : m.routed[i] = target})

Finalize(c) ==
  /\ At(c, "finalize")
  /\ LET m == call[c].mem
     IN Complete(c, [m EXCEPT !.metrics =
                       [discovered           |-> Len(m.discovered),
                        duplicates           |-> Len(m.duplicates),
                        scored               |-> Len(m.scored),
                        rejected             |-> Count(m, "reject"),
                        queued               |-> Count(m, "queue"),
                        human_review_pending |-> Count(m, "human_review")]],
                 "END")

-----------------------------------------------------------------------------
(* Mutants of StatusIn: a row takes the name of its list; the duplicates   *)
(* are written before the routes.                                          *)
StatusOfList(m, j) ==
  LET routes == {m.routed[i] : i \in {k \in DOMAIN m.routed : m.scored[k].job = j}}
  IN IF routes = {} THEN "absent" ELSE CHOOSE route \in routes : TRUE

StatusRoutesFirst(m, j) ==
  LET routes == {m.routed[i] : i \in {k \in DOMAIN m.routed : m.scored[k].job = j}}
  IN IF "human_review" \in routes THEN "human_review"
     ELSE IF "reject" \in routes THEN "rejected"
     ELSE IF "queue" \in routes THEN "queued"
     ELSE IF \E i \in DOMAIN m.duplicates : m.duplicates[i].job = j THEN "duplicate"
     ELSE "absent"

(* persist_run_result: one transaction.  The lists are written in the      *)
(* order queue, rejected, human review, duplicates: of a job that is in    *)
(* several the last one stays.                                             *)
StatusIn(m, j) ==
  LET routes == {m.routed[i] : i \in {k \in DOMAIN m.routed : m.scored[k].job = j}}
  IN IF \E i \in DOMAIN m.duplicates : m.duplicates[i].job = j THEN "duplicate"
     ELSE IF "human_review" \in routes THEN "human_review"
     ELSE IF "reject" \in routes THEN "rejected"
     ELSE IF "queue" \in routes THEN "queued"
     ELSE "absent"

(* Mutant of Intervention: the record of a run that went on stays.         *)
InterventionKept(q, asked) ==
  IF asked = {} THEN q
  ELSE [id |-> IF q.status = "pending" THEN q.id ELSE q.id + 1,
        status |-> "pending", asked |-> asked]

(* _upsert_pending_intervention of a paused run, _resolve_interventions    *)
(* of one that ended.                                                      *)
Intervention(q, asked) ==
  IF asked # {}
    THEN [id |-> IF q.status = "pending" THEN q.id ELSE q.id + 1,
          status |-> "pending", asked |-> asked]
  ELSE IF q.status = "pending" THEN [q EXCEPT !.status = "resolved"]
  ELSE q

PersistRunResult(c) ==
  /\ call[c].pc = "persist"
  /\ LET r == call[c].run
         m == call[c].mem
     IN /\ runRow' = [runRow EXCEPT ![r] =
                        [status  |-> IF m.asked # {} THEN "waiting_human" ELSE "completed",
                         metrics |-> m.metrics]]
        /\ jobRow' = [j \in Job |-> IF StatusIn(m, j) = "absent" THEN jobRow[j]
                                    ELSE [run |-> r, status |-> StatusIn(m, j)]]
        /\ queue' = [queue EXCEPT ![r] = Intervention(@, m.asked)]
  /\ Return(c)
  /\ UNCHANGED <<thread, limits, said, shown>>

-----------------------------------------------------------------------------
(* The process dies and restarts: calls are gone, the stores are not.      *)
Crash ==
  /\ "crash" \in Faults
  /\ \E c \in Call : call[c] # Idle
  /\ call' = [c \in Call |-> Idle]
  /\ UNCHANGED <<db, thread, limits, said, shown>>

(* PUT /api/settings edits the limits of automation.yaml.                  *)
EditLimits ==
  /\ "limits" \in Faults
  /\ limits' = ~limits
  /\ UNCHANGED <<db, thread, call, said, shown>>

Init ==
  /\ runRow = [r \in Run |-> [status |-> "absent", metrics |-> NoMetrics]]
  /\ jobRow = [j \in Job |-> [run |-> NoRun, status |-> "absent"]]
  /\ queue  = [r \in Run |-> [id |-> 0, status |-> "none", asked |-> {}]]
  /\ thread = [r \in Run |-> NoCheckpoint]
  /\ call   = [c \in Call |-> Idle]
  /\ limits \in BOOLEAN
  /\ said   = {}
  /\ shown  = {}

RunNode(c) ==
  \/ LoadCandidateProfile(c)
  \/ LoadSearchPolicy(c)
  \/ DiscoverPortals(c)
  \/ NormalizeJobs(c)
  \/ DedupeJobs(c)
  \/ ScoreJobs(c)
  \/ PolicyGuard(c)
  \/ Finalize(c)

(* What a call does without the operator or a fault.                       *)
Proceed(c) == Lookup(c) \/ Load(c) \/ RunNode(c) \/ PersistRunResult(c)

Next ==
  \/ \E c \in Call, r \in Run : StartRun(c, r) \/ Answer(c, r) \/ ResumeDirect(c, r)
  \/ \E c \in Call : Proceed(c)
  \/ Crash
  \/ EditLimits

Spec == Init /\ [][Next]_vars

(* asyncio runs a ready handler; the operator works through the queue.     *)
AttendedSpec ==
  /\ Spec
  /\ \A c \in Call : WF_vars(Proceed(c))
  /\ \A r \in Run : WF_vars(\E c \in Call : Answer(c, r))

-----------------------------------------------------------------------------
(* nodes.py:199-205: whatever a human, a retry, a stale answer or a limit  *)
(* edit does, a job is queued only if score and guardrails allow it, or    *)
(* neither refuses it and the operator said queue to this job of this run. *)
QueuedOnlyIfCleared ==
  \A r \in Run : \A i \in DOMAIN thread[r].routed : thread[r].routed[i] = "queue" =>
    LET s == thread[r].scored[i]
    IN \/ Route(s.recommendation, s.verdict) = "queue"
       \/ /\ Route(s.recommendation, s.verdict) = "human_review"
          /\ <<r, s.job, "queue">> \in said

(* What the row of a job is called that its run routed.                    *)
RowName == [queue |-> "queued", reject |-> "rejected", human_review |-> "human_review"]

(* persistence.py:94-113: whichever run wrote it last, the row of a job    *)
(* tells what the checkpoint of that run says of it.  A job the run met a  *)
(* second time is told as a duplicate, one it kept and routed included;    *)
(* any other row is that of a list the run put the job in.                 *)
RowsTellTheirRun ==
  \A j \in Job : jobRow[j].status # "absent" =>
    LET m == thread[jobRow[j].run]
    IN /\ jobRow[j].status = "duplicate" <=> \E i \in DOMAIN m.duplicates : m.duplicates[i].job = j
       /\ jobRow[j].status # "duplicate" =>
            \E i \in DOMAIN m.routed : m.scored[i].job = j /\ jobRow[j].status = RowName[m.routed[i]]

(* human_intervention.py:3: once its calls returned, a paused run is in    *)
(* the human-review queue, with the jobs it is paused for, and its row     *)
(* says so.                                                                *)
PausedRunsAreQueued ==
  \A r \in Run : ~InFlight(r) /\ thread[r].next # "absent" =>
    /\ thread[r].asked # {} <=> runRow[r].status = "waiting_human"
    /\ thread[r].asked # {} => queue[r].status = "pending" /\ queue[r].asked = thread[r].asked
    /\ thread[r].asked = {} => queue[r].status # "pending"

(* README:329-333: a job the run leaves for human review was shown to the  *)
(* operator.                                                               *)
ReviewedJobsWereShown ==
  \A r \in Run : \A i \in DOMAIN thread[r].routed : thread[r].routed[i] = "human_review" =>
    <<r, thread[r].scored[i].job>> \in shown

(* ARCHITECTURE.md:183-186: the re-execution of policy_guard sends a job   *)
(* the operator decided on where the operator said.                        *)
DecisionsHonoured ==
  \A r \in Run : \A i \in DOMAIN thread[r].routed :
    \A choice \in Answers : <<r, thread[r].scored[i].job, choice>> \in said =>
      thread[r].routed[i] = choice

(* A completed run stays completed, with the metrics it reported.          *)
CompletedIsFinal ==
  [][\A r \in Run : runRow[r].status = "completed" => runRow'[r] = runRow[r]]_runRow

(* With an operator who answers, every run that starts completes.          *)
RunsComplete ==
  \A r \in Run : thread[r].next # "absent" ~> runRow[r].status = "completed"
=============================================================================
