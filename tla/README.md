# Verification of the job automation platform

TLA+ models of the program under `src/`, the TLC runs that check them and the
theorems TLAPS proves about them. Line numbers refer to the sources of this
repository.

## The system

A single operator imports a resume, lets the program discover jobs on portals,
reviews what a score cannot decide, and lets it fill application forms up to an
approval. One FastAPI process (and, beside it, CLI commands) works on three
stores: the LangGraph checkpoints (SQLite, one thread per run or application),
the dashboard tables (`automation_runs`, `jobs`, `applications`,
`human_interventions`) and the YAML configuration with its per-process cache.

| Component | State | Operations | Interacts with |
|---|---|---|---|
| Apply service and graph (`graph/apply_*.py`) | checkpoint per application, `applications` row | start, resume, five nodes | browser forms, approval mode, human queue, notifications |
| Discovery service and graph (`graph/service.py`, `nodes.py`) | checkpoint per run, run row, `jobs` rows | start, resume, eight nodes | portals, scorer, guardrails, human queue |
| Persistence (`graph/persistence.py`) | the four tables | upserts at the end of every call | both services |
| Human-action routes (`api/routes/human_actions.py`, `cli human`) | `human_interventions` | list, resolve | both services |
| Guardrails (`guardrails/`) | none; limits from `automation.yaml` | twelve checks, precedence | policy_guard node, profile, configuration |
| Matching (`matching/`) | none | component scores, bands | score node |
| Settings and scheduler (`api/routes/settings.py`, `core/config.py`, `scheduler/`) | YAML files, cache, registered jobs | PUT, reload, fire | approval mode, limits, start_run |
| Portal adapters (`portals/`) | browser, page, fields and mappings of a prepared form, in attributes of the instance | prepare, fill, validate, submit, verify, close; listing jobs | discovery node, browser forms, HTTP |
| Browser forms (`browser/forms.py`, `mapping.py`, `runner.py`) | none of its own; the page | detect, map, fill, validate | apply nodes, portal adapters, profile |
| Profile (`profile/profile_service.py`) | one profile row: preferences and resume | import, update | scorer, guardrails |
| Notifications, LLM, analytics, CLI | see PROJECT.json | | |

What is hard to test here, and what the properties are about:

* **Several stores, no common transaction.** A handler writes the row, runs the
  graph (which checkpoints after every node) and writes the tables again. A
  crash, a browser error or another call may fall between any two of these.
* **Resume without a question.** `resume_application` and `resume_run` hand
  their payload to whatever runs next; LangGraph matches answers by position.
* **Re-execution.** An interrupted node runs again from its first line with the
  configuration, the limits and the web pages of that moment.
* **Check then act over awaits.** The duplicate check and the insert of an
  application are in two sessions.
* **Rules in an order.** A score is the first rule that applies, a verdict the
  strictest of twelve; an edit of the profile may move a job under another rule.
* **Shared rows.** Job ids are stable, so runs overwrite each other's rows.
* **A page is opened many times.** Each node opens and detects the form anew and
  pairs fields, mappings and controls by position, key and selector; the portal
  may have changed the form since the answers were given.
* **State in attributes.** An adapter keeps browser, page, fields and mappings
  apart, and a `prepare` that fails half way leaves some of them.
* **Files behind a cache.** The configuration may be edited by hand while the
  service runs, and `${VAR}` in any section means what the environment of the
  process says.

## Modules

| Module | Models |
|---|---|
| `ApplyFlow` | start, resume and resolve calls, the five nodes, `persist_application_result`, operator, faults, edits |
| `ApplicationLifecycle` | what the `applications` table promises its readers, abstractly |
| `ApplyLifecycle` | the refinement mapping from `ApplyFlow` to `ApplicationLifecycle` |
| `MCApplyFlow` | instances of `ApplyFlow` for TLC |
| `ApplyFlowProofs` | theorems about `ApplyFlow` in every regime |
| `ApplySerialProofs` | theorems about `ApplyFlow` with an operator who waits and a process that lives; the refinement |
| `Guardrails` | the checks, their precedence, score bands and routing; constant level |
| `PolicyEdits`, `MCPolicyEdits` | one scored job under a policy that is edited freely |
| `PolicyEditsProofs` | theorems about `PolicyEdits` |
| `Matching` | the six component scores and their sum; constant level |
| `CandidateEdits`, `MCCandidateEdits` | one posting scored for a candidate whose profile is edited and imported |
| `CandidateEditsProofs` | theorems about `Matching` and `CandidateEdits` |
| `DiscoveryRun`, `MCDiscoveryRun` | start, resume and resolve of runs, the eight nodes, `persist_run_result`, shared job rows; uses `Guardrails` for routing |
| `RunLifecycle` | what a run promises who starts it and who answers it, abstractly |
| `DiscoveryLifecycle` | the refinement mapping from `DiscoveryRun` to `RunLifecycle` |
| `DiscoveryRunProofs` | theorems about `DiscoveryRun`; the refinement |
| `FormFilling` | pages and what the browser modules make of them: detection, selectors, `map_field`, filling, what the portal may change; its only variable is the form the portal serves |
| `ApplyForm` | the form of one application in the apply graph: ask, answer, map, fill, hybrid approval |
| `PortalAdapter` | one adapter instance, called in any order |
| `FormClients`, `MCFormClients` | both clients side by side on one changing form; the properties |
| `FormFillingProofs`, `FormClientsProofs` | theorems about the operators and about the two clients |
| `SettingsScheduler`, `MCSettingsScheduler` | `PUT /api/settings`, the configuration cache, the scheduler's reload, start-up and shutdown |
| `SettingsSchedulerProofs` | theorems about `SettingsScheduler` |

### State and actions

`ApplyFlow` and `DiscoveryRun` have the same shape. A *call* is a request
handler, a CLI command or a scheduled job with a program counter, the payload it
has not consumed, the graph state in its memory, and whether the checkpoint it
works on is still the latest of its thread. `thread` is the checkpoint store,
`row` (`runRow`, `jobRow`) and `queue` are the tables. One action is one step
between two awaits at which another call may run:

| Action | Code |
|---|---|
| `CheckDuplicate`, `CreateRow`, `Invoke` | the three sessions of `start_application` |
| `StartRun` | `start_run` up to the first node |
| `Answer`, `Lookup` | an item of the queue is answered; `resolve_human_action` re-reads it |
| `ResumeDirect` | the `/resume` routes, an answer or a retry |
| `Load` | `resume_application` / `resume_run` up to `ainvoke` |
| one action per node | the nodes, each with the checkpoint that ends it |
| `PersistResult`, `PersistRunResult` | the transaction after `ainvoke` |
| `BrowserFails`, `Crash`, `EditMode`, `EditLimits` | what may go wrong or change |

`said`, `waived` and `shown` are history variables: what the operator sent, what
the mode let through, what a pause displayed. No action reads them.

`SettingsScheduler` is shaped by the opposite fact: `update_settings_config`
awaits nothing, so a save is one action, and what can happen inside it are its
own failures. `PutAll` completes, `PutFails` stops at a section whose file cannot
be opened or written, `CrashInSection` and `CrashBeforeReload` end the process.
`file` holds the YAML files, `cache` what `YamlConfigLoader` holds of them,
`jobs` and `running` the ids APScheduler has registered and is executing.
`reload` and `edited` are history variables: what became of the last change of
`automation.yaml`, and which sections were edited by hand since the process read
or wrote them. `HandEdit` may come at any time, since `core/config.py:8-11` calls
the files editable without a restart; no step of the service notices it. A
configuration is four facts, the switch, the time zone, the hour and the
schedules, each of whose scalars may be `${VAR}`: `_interpolate_env`
(`config.py:86-99`) looks at every section. `Resolve` fills them in, `Raises` says
for which values `SchedulerService.reload` ends in an exception. A client that
sends back what it was served sends the value, not the placeholder, and the file
then no longer follows the environment of the next start; and a time zone
`${TZ}` that a save accepted may stop the start-up in another environment, which
is why `AcceptedSettingsBoot` speaks of the environment that accepted it.

`PolicyEdits` and `CandidateEdits` look at one job from two sides: what the
guardrails make of a score, and what the scorer makes of the profile. In both an
import replaces the preferences on record by those of `candidate.yaml`
(`profile_service.py:58`), so that what the operator edited before is gone, a
stated authorization included; nothing is queued on the strength of it.
`Matching` counts in hundredths of a point and uses exact fractions. `Round` goes
to the even neighbour at a half, where `round` of a binary fraction may fall on
either side; the sum of six scores may differ by that from the program's, the
properties do not depend on it. A text is what the scorer finds in it: the tokens
and family of a title, the canonical name of a skill, the preferences contained
in a location or an industry. Amounts and tenures are whole numbers.

In `FormFilling` a text on a page is the set of patterns of `mapping.py` found in
it, since nothing else of a label is ever looked at, and a value is where it
comes from: `OnRecord(k)`, the profile's entry for key `k`, or `AnswerTo(k)`, the
operator's answer for it. A control has the attributes a selector is built from,
and the values it `refuses` stand for the options of a select and for formats.
The selector is the first of test id, label, name, id and position, and what it
finds is the first control on the page that fits it, whichever was meant;
hidden inputs count for the position but are not detected as fields. `site` is
the form the portal serves at this moment, `run` the application, `filled` (history)
the form the application last filled, with its contents and whether the form had
changed since it was mapped. A fill that raises leaves the node to be run again.
The answers are any dictionary over `AnswerKeys`, asked for or not, with null
among the values: `resume_application` takes what it is given.

`adapter` holds the attributes of an instance and `browsers` the browsers that
run. Nothing under `src/app` calls `prepare_application` or `close` yet, so
`PortalAdapter` leaves the order of the calls open: a second `Prepare` without a
`Close` takes the stack of the first away (`replaced`), `Fill` asks for a page and
nothing else (`greenhouse/adapter.py:101`), also after a `prepare` that failed, and
`CloseFails` is an `aclose` that raises and leaves both attributes set. `caller` is
the last of these calls. `validate`, `submit` and `verify` change nothing: `submit`
answers `dry_run_ready` or raises.

Definitions marked as mutants are plausible bugs of the definition that follows
them. No specification uses them; they show that the properties notice.

### LangGraph (external)

Modelled as the code relies on it: a superstep writes one checkpoint, which
becomes the latest of its thread; a resume loads the latest checkpoint; the
payload of a resume is matched, after the answers recorded before, by position
to the `interrupt()` calls of the first node it runs, and is dropped if that node
does not ask; answers are recorded when the node pauses or raises after reading
them; a node that was interrupted or failed runs again; a finished thread runs
nothing; the tasks of a fan-out are one superstep and their lists are
concatenated in task order. Resumes with an empty payload are left out: what an
empty payload does depends on the version.

## Runs

| Run | Regime | Shows |
|---|---|---|
| `ApplySerial` | one answer at a time, browser errors, changing pages, retries | types, both directions of a decline, queue and row follow the graph; refinement of `ApplicationLifecycle`, by which outcomes are final |
| `ApplyConcurrent` | overlapping calls, crash, retry, edits of mode and dry-run | no submission without consent; queue mirrors row; what is shown has a checkpoint to resume |
| `ApplyAttended` | two applications in hybrid mode, fair handlers, fair operator, no faults | answers fit their questions; every application settles |
| `DiscoverySerial` | two runs sharing jobs, a portal enabled once or twice, partial decisions, resumes of finished runs, fair handlers, fair operator | rows, queue and decisions of runs; the row of a job tells what its run says; refinement of `RunLifecycle`, by which a run asks once, is answered once, does what was said and reports it once; every run completes |
| `DiscoveryConcurrent` | overlapping resumes, crash, limit edits | nothing is queued that was not cleared |
| `CandidateEdits` | two edits or imports, 32 postings that differ from a plain one in one respect | scores stay within their weights, spelling is of no consequence, wider preferences cost no points |
| `PolicyEdits` | any sequence of edits | guardrails only tighten |
| `SettingsScheduler` | saves of any sections that complete, fail or crash; restarts in another environment; placeholders anywhere; edits by hand at any time | cache, files and jobs agree where nobody edited by hand; no job of an earlier configuration fires; accepted settings boot again in their environment |
| `FormClients` | a form that changes at any time, any answers, fills that raise, an adapter called in any order whose calls fail at every step | only vouched or answered values in a form, each in its place; hybrid mode overlooks no gap; after a close no browser runs but a replaced one; forms get to the gate |

*Serial* means that the operator does not send an answer for an application or
run while a call for it is outstanding: the dashboard disables its buttons while it submits
(`HumanReview.tsx:41-54`), but nothing in the service enforces it, so the runs
with `Serial = FALSE` drop it. Starts may overlap in every run.

The other runs end in a counterexample; each is a place where the code does
something other than a doc or a comment says (PROJECT.json, findings):

| Run | Counterexample |
|---|---|
| `ApplyCrashRejects` | a retry after a crash is read as a declined approval |
| `ApplyTwice` | two overlapping starts of one job both pass the duplicate check, which `ARCHITECTURE.md:921-927` relies on for one application per job |
| `FormSensitive` | a field labelled "Ethnicity" is filled with the location on file, since `\blocation\|city\b` matches in it |

The serial properties name the guarantees the service gives its one operator;
several of them end with the regime. Changing `Serial` or `Faults` in a
configuration shows it: with overlapping calls a second OTP answer is read as a
declined approval (`RejectedMeansDeclined`), after a crash an interrupt may have
no queue record (`InterruptsAreQueued`, `PausedRunsAreQueued`) and an outcome no
row (`RowFollowsGraph`), with the mode edited during the pause a declined
application may be approved (`DeclineHonoured`), after a browser error an OTP may
answer a CAPTCHA (`AnswersFitTheirQuestions`), a resume after a crash answers the
review before it is asked (`ReviewedJobsWereShown`), and with limits edited during
the pause the guardrails, which run again, overrule a decision of the operator
(`DecisionsHonoured`, `nodes.py:224`).

Two facts of the code are in the properties as they are:

* A crash right after `create_application_record` (`apply_service.py:126`) leaves
  a row without a checkpoint. A start then refuses the job as a duplicate, while
  `resume_application`, which the comment at `apply_service.py:103-107` refers to,
  finds nothing and answers `None`. `ShownIsResumable` excepts this bare row: it
  says that whatever else is shown of an application, in any regime, has a
  checkpoint.
* Duplicates are written after the lists, and a posting that is listed again, by a
  portal enabled twice say, has the id of the one that was kept. The job was
  routed, and its row says duplicate (`persistence.py:110`). `RowsTellTheirRun`
  states exactly this: a row says duplicate if and only if its run met the job
  again, and otherwise names the list the run put the job in.

`README.md:666-667` of the repository says that the daily summary is registered
whenever `enabled: true`, independent of `schedules`. `reload` registers it last
and outside any `try` (`scheduler/service.py:105`): with `schedules: null`, an
unknown time zone or an hour that is none it raises first, which is `Raises` in
`SettingsScheduler`, and the summary is missing.

Modelling the forms showed more that is worth knowing and that no property
states, because the code means it or no document denies it:

* Hybrid mode takes the average of the confidences (`apply_nodes.py:131-135`, as
  `ARCHITECTURE.md:959` has it), while `automation.yaml:16-18` and
  `README.md:185-190` speak of every automatically filled field. A work mode
  alone has 0.8, below the bar of 0.85; an answered field keeps the confidence of
  the mapping that failed.
* A form that changes between mapping and filling but keeps its number of fields
  receives values in controls they were not mapped for; one with another number
  of fields fails on every retry, as long as the form stays as it is.
* A file field with a value makes `fill_form` raise each time: `upload_file` is
  called from nowhere in `src/app`.
* `:nth-match(input, i + 1)` counts hidden inputs, so a field with neither label
  nor attribute may be looked for in another control, and two fields with one key
  share an answer. `Identifiable` names the forms in which neither happens.
* The documented sequence of adapter calls (`portals/base/__init__.py:9-15`) has no
  `close`; a caller that follows it through two applications with one instance
  leaves a browser running, whose stack the second `prepare` has replaced.
* A `fill` after a `prepare` that failed half way fills the new page from the fields
  and mappings of the application before: `_page` is set, the two lists are not.
* An answer of null settles a field and leaves it empty, in hybrid mode too.
* `notify_all` builds its providers outside the `try`
  (`notifications/service.py:43`): a port that is no number fails the request
  after its result was persisted.

### Bounds

Two calls are enough for every overlap of two handlers, two runs for sharing a job
and its rows, two challenge pages for the positions of answers
to shift. `MaxInterventions` bounds the queue records of an application or run
after which the operator stops answering: 1 allows a second question after the first, which
the stale-answer scenarios need. Applications share nothing but the jobs they are
for: `ApplySerial` and `ApplyConcurrent` have one, with two calls and pages with up to
two challenges, `ApplyAttended` two whose answers may not mix, with three pages, and
`ApplyTwice` two for one job. In `DiscoverySerial` one portal lists a posting and an
incomplete one, the other a posting that is, or is not, the same opportunity; the
operator may decide on some of the jobs, and the first portal may be enabled twice,
which lists its posting again. `DiscoveryConcurrent` has one run, two calls, one
portal with two postings, every mix of score and verdict, and all faults but retries
of a run that is not paused, whose states are too many; `QueuedOnlyIfClearedHolds`
covers those as well. `PolicyEdits` has scores
on both sides of every band, tenures on both sides of half the demand, and
limits at and above zero. A component of the score looks at one group of
preferences and one group of facts of the posting, so postings that differ in one
group and two edits meet every pair; amounts lie below, between, at and beyond
the candidate's. `Widened` compares only profiles that state something in both
states: a first target, or a first preferred amount, is a demand where there was
none. A preferred amount set below the minimum is allowed, as in the code, and
then a job below the minimum scores in full.

`SettingsScheduler` has two sections, two environments and five configurations:
switched off, one for each scalar that may be a placeholder, and `schedules: null`.
A literal is a zone, an hour, a cron expression or blank, so each is wrong
everywhere else.

`FormClients` has three forms: all fields on file, with two inputs of one name and a
select that has no option for its value; a question only the human can answer between
a hidden input and what is on file; and as many fields again, with a name too
uncertain to fill in and a file to upload under the key of that question. Each is a
way in which pairing can go wrong, and the portal moves freely between them.
`FormSensitive` has two of its own. One key can be answered: an answer to what was
not asked is one to a form that changed, and the uncertain name stays open. The
confidences of fields lie on both sides of the threshold; the hybrid bar is 50 instead
of 85, so that a form with an answered field passes it, and one with an open field
would. Inputs that nothing identifies are left to the theorems, which take any pages,
answers and keys. Two browsers are enough to see one replaced and one closed.

Runs that can stop switch the deadlock check off: all work is done, or the bound
on interventions is reached.

### Fairness

`WF` of the steps of a call: asyncio runs a ready task. `WF` of `Answer`, only in
the attended specifications: the operator works through the queue. No fairness
for starts, direct resumes, edits and faults. `FormsGetToTheGate` rests on `WF` of
the steps of the form nodes and of the operator's answer; it says that an application
gets to its approval unless its form changed after it was mapped or its operator
gave a value for a file.

## Proofs

`ApplyFlowProofs`, for every set of jobs, applications, calls, pages and modes
and every combination of faults:

* `ConsentIsInvariant`: the inductive invariant. A row counts as submitted after
  a handler carried a status from a checkpoint, so consent must hold of the
  checkpoint, of every copy a handler has in memory, and of the answers recorded
  or travelling; `ConsentInv` states it for all of them, with the types.
* `TypeCorrect`, `NoSubmitWithoutConsentHolds` follow from it.
* `QueueMirrorsRowHolds`: only `PersistResult` writes both tables, and the
  types of a checkpoint exclude the statuses that would break the equivalence.
* `ShownIsResumableHolds`: only `PersistResult` shows more of an application than
  its bare row, a call gets there after the first checkpoint of its thread
  (`ShownInv`), and no step takes a checkpoint away.

`ApplySerialProofs`, for the same sets, under `Steady`: the operator waits
(`Serial`), nothing crashes and nobody edits the mode. Browser errors, changing
pages and retries are allowed. `RejectedMeansDeclinedHolds` and
`DeclineHonouredHolds` rest on the gate: `manual_approval` asks only if the mode
does not approve, what the mode looks at is settled once the gate is reached, and
a payload that arrives there is a decision. The last holds because a question the
operator sees, in the queue or in the application, is the one the checkpoint is
paused at; so the tables have to follow the graph, and `SerialInv` states all of
it at once: per application a checkpoint that fits its decisions (`Gate`,
`Outcome`) and its rows (`Tables`), per call a memory that is the checkpoint
(`HandlerInv`), and one call per application (`Alone`). `TouchStep` reduces each
step to the application it is about. `InterruptsAreQueuedHolds` and
`RowFollowsGraphHolds` follow from the same invariant.

`AnswersFitTheirQuestionsHolds` takes `Undisturbed`: besides, no browser error and
no page that changes between two executions of a node, since after either an
answer may meet another question than the one it was given to. `FitInv` counts: the
answers recorded in a checkpoint fit its questions in order and are as many as the
questions before the one it is paused at, and the payload of a call answers that one.

`ImplementsLifecycleHolds` is the refinement under `Steady`: the rows of
`applications`, read through the mapping of `ApplyLifecycle`, take only the steps of
`ApplicationLifecycle` or none. Only `CreateRow` and `PersistResult` write a row.
That a question never goes back in the form needs `OrderIsInvariant`: the stage of
the row is at most that of the node the checkpoint is at, whose question has that
stage, and a payload that arrives at the gate was given to the approval question;
that an outcome is final needs the checkpoint to have ended.

`DiscoveryRunProofs`, for any runs, jobs, portals, scores and calls:

* `ClearInvariant` and `QueuedOnlyIfClearedHolds`, in every regime: every
  checkpoint and every copy of one in a handler is sound, nothing is routed before
  `policy_guard`, and the decisions that travel with a payload were said.
* `SerialInvariant`, `PausedRunsAreQueuedHolds`, `ReviewedJobsWereShownHolds`,
  `RowsTellTheirRunHolds` and `CompletedIsFinalHolds`, under `Serial` and
  without crashes, limits edited at will: one call per run, its memory is the
  checkpoint, and a run no call works on is paused or ended with tables that agree.
  A row other than that of a duplicate must be one of an ended run, or the graph
  could still route its job otherwise (`RowStands`); whose lists no longer change.
  That completed runs stay as they are is a part of `RunLifecycle`, whose
  rows are reported once; it has a theorem of its own because it holds when limits
  are edited, too.
* `TypeCorrect`, in every regime. The lists of a checkpoint are put together by
  `FlattenSeq`, whose definition chooses a function that satisfies a recursion;
  `GlueExists` shows by a least counterexample that there is one, and
  `FlattenFacts` that each entry of the result comes from a place of its own in one
  of the parts. `PickFacts` says the same of the entries kept by normalisation and
  dedupe.
* `DistinctInvariant`, under `Serial`, without crashes and with
  `OneOpportunityPerId`: what portals answer to one run, the same portal twice
  included, gives an id one company, title family and location, from which the
  normaliser makes the key of the dedupe. Then the dedupe leaves one posting of each
  id, and a run scores a job once (`Distinct`). The boards of `MCDiscoveryRun`
  satisfy it, with a portal that is enabled twice.
* `HonourInvariant` and `DecisionsHonouredHolds`, with unchanged limits in addition:
  a decision is carried by a call to a run that is paused for its job, or carried
  out. The node runs again over the same scores, so what was asked about is under
  review still, and by `Distinct` no other entry has the job and another destination.
* `ToldInvariant`, under `Serial` and without crashes: a run asks at `policy_guard`
  and once, a call that works on a run that asks brings its one answer, and the
  numbers of a report are the numbers of entries routed so in the lists it was made
  from.
* `ImplementsRunLifecycleHolds` is the refinement, under `Serial`, without crashes,
  with unchanged limits and `OneOpportunityPerId`: read through `DiscoveryLifecycle`, runs take
  only the steps of `RunLifecycle` or none. The program counts entries of a list
  where `RunLifecycle` counts jobs; by `DistinctInv` a job has one entry, and `CountIsWent`
  maps one to the other. That an outcome follows the answer, and leaves for review
  exactly what was asked about and not decided, is `RoutedAsSaid`, from `HonourInv`.

`PolicyEditsProofs`, for all ranges of scores, amounts, years and limits:
`TypeCorrect`, `GuardrailsOnlyTightenHolds`, `UnknownIsNeverQueuedHolds`, and
`StricterPolicyNeverLoosensHolds`, check by check.

`CandidateEditsProofs`, for all postings, preferences, weights, tables of aliases
and families: `TypeCorrect`, `ScoresWithinWeightsHolds` and
`SpellingDoesNotMatterHolds`. The bound is one lemma per component on top of
`RoundBound` (a fraction of at most w rounds to at most w). The title needs more:
`Closest` is a choice, and `ClosestExists` shows that there is a best target,
since the sets of targets that beat a target shrink strictly and are finite.
`WideningNeverLowersHolds` goes component by component: with more to match, each
share of a component grows (`ShareMonotone`), rounding keeps the order
(`RoundMonotone`), and the best of more titles is no worse. The salary is the one with two
formulas: what a reference below the minimum gets is no more than what it gets on
the line from a lower minimum to the wish (`BelowTheLine`).

`SettingsSchedulerProofs`, for any sections, any configurations and any order in
which sections are written, provided `automation` comes first: `TypeCorrect`,
`InForceIsOnDiskHolds`, `ScheduleInForceHolds`, `AcceptedSettingsBootHolds` and
`FiredAsServedHolds`. `ScheduleInForce` says nothing of a reload that raised, so
it does not carry `FiredAsServed`; the invariant adds that the registered jobs
are then still among those asked for (`JobsServed`), and that a stopped process
remembers nothing (`NothingLeft`), without which a restart in another
environment could serve an old value. The sections edited by hand since are
excepted where they have to be; `ScheduleInForce` and `FiredAsServed` compare with
the settings in force and need no exception. That a file which a save accepted
boots again needs that `Resolve` gives the same in the same environment.

`FormFillingProofs` is about the operators, for all pages, patterns, profiles and
thresholds: what `map_field` returns is vouched for or left to the human
(`MapFieldIsVouched`); filling writes what was mapped (`FillWrites`), leaves out
nothing a control takes (`FillCompletes`), and, in a form that tells its controls
apart, each value into the control it was mapped for (`FillInPlace`). The last
needs that a selector finds its own field (`FoundAlone`) and that the position of
a field orders the detected controls (`Places`). `FormClientsProofs` carries this
through the interleavings: `ClientsInvariant` says that a mapping belongs to a page
the portal served, that an answered value is the answer to its key, that contents fit
their page, and that the stack of an adapter knows every browser that runs and was
not replaced. Without the last a failed `prepare` could not be told from one that
launched nothing. From it `TypeCorrect`, `OnlyVouchedOrAnsweredHolds`, `ValuesInPlaceHolds`,
`HybridLeavesNoGapsHolds` and `NoBrowserLeftBehindHolds`.

Model-checked only: liveness (`Settles`, `RunsComplete`, `FormsGetToTheGate`),
which is out of the prover's reach. Every invariant and every action property of
the runs that pass is a theorem, under the hypotheses named above.

## Not modelled

* The statements inside a row write. `_upsert_pending_intervention` selects before
  it inserts; SQLite serialises writers, and a write is one step here.
* `upload_file`, the storage state of `browser/sessions.py` and screenshots, which
  nothing in `src/app` calls or reads back; the translation of a portal's answers
  into postings, which is any outcome in `DiscoveryRun`.
* In the two graph models scores are not numbers, and notifications, timestamps,
  names and addresses are left out. The wording of a score's explanation and the
  extraction of text from a resume are not modelled.
* The fan-out of notifications keeps no state. No graph calls a language model.
  Analytics is read-only queries. These and the other components without a module
  are listed in PROJECT.json with the reason.

## Plan

1. `PersistRows`: the statements of the two persist functions, interleaved, for a
   database that does not serialise its writers.
2. The trigger times of the scheduler, and a run that fires while one is paused.
