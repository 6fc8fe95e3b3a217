------------------------------ MODULE PolicyEdits ------------------------------
(***************************************************************************)
(* One scored job under a policy that is edited: the preferences of the    *)
(* profile (PUT /api/profile) and the limits of                            *)
(* automation.yaml, which run_guardrails loads again for every job.        *)
(* The job and its score stay; importing a resume replaces what is known   *)
(* of the candidate and takes the preferences of candidate.yaml with it.   *)
(***************************************************************************)
EXTENDS Guardrails

CONSTANTS Score, Salary, Amount, Currency, Years, Limit, Thresholds,
          Configured  \* the preferences of config/candidate.yaml

(* The fields of CandidatePreferences the checks look at.                  *)
Preferences ==
  [minimum_match_score : Score, compensation_minimum : Amount, compensation_currency : Currency,
   excluded : {{}, {"company"}, {"role", "location"}}, work_authorization : BOOLEAN,
   maximum_applications_per_day : Limit]

ASSUME ValuesAssumption ==
  /\ Score \subseteq Nat
  /\ Salary \subseteq [low : Nat \cup {Unknown}, high : Nat \cup {Unknown},
                      currency : STRING]
  /\ Amount \subseteq Nat
  /\ Currency \subseteq STRING
  /\ Years \subseteq Nat
  /\ Limit \subseteq Int
  /\ Configured \in Preferences

VARIABLE ctx

(* The counts stay 0: policy_guard never fills them in (nodes.py:224-226). *)
(* The profile has preferences and no resume yet.                          *)
Init ==
  \E score \in Score, floor \in Years \cup {Unknown}, salary \in Salary, p \in Preferences :
    ctx = [score |-> score,
           recommendation |-> RecommendationFor(score, Thresholds),
           minimum_match_score |-> p.minimum_match_score,
           applications_today |-> 0, applications_today_for_company |-> 0,
           applications_per_day |-> 1,
           maximum_applications_per_day |-> p.maximum_applications_per_day,
           applications_per_company_per_day |-> 1,
           excluded |-> p.excluded, already_applied |-> FALSE,
           salary_min |-> salary.low, salary_max |-> salary.high,
           salary_currency |-> salary.currency,
           compensation_minimum |-> p.compensation_minimum,
           compensation_currency |-> p.compensation_currency,
           minimum_experience |-> floor, experience_years |-> Unknown,
           work_authorization |-> p.work_authorization, resume |-> "none", email |-> FALSE]

WithPreferences(p) ==
  [ctx EXCEPT !.minimum_match_score = p.minimum_match_score,
              !.compensation_minimum = p.compensation_minimum,
              !.compensation_currency = p.compensation_currency,
              !.excluded = p.excluded,
              !.work_authorization = p.work_authorization,
              !.maximum_applications_per_day = p.maximum_applications_per_day]

(* update_preferences replaces all of them.                                *)
UpdatePreferences(p) == ctx' = WithPreferences(p)

(* The limits of automation.yaml, which run_guardrails reads each time.    *)
SetLimits(system, company) ==
  ctx' = [ctx EXCEPT !.applications_per_day = system,
                     !.applications_per_company_per_day = company]

(* Mutant of ImportResume: the years of study are taken off afterwards.    *)
ImportResumeLessStudy(text, years, email) ==
  ctx' = [WithPreferences(Configured) EXCEPT !.resume = text, !.experience_years = years - 2,
                                             !.email = email]

(* import_profile: what the extraction makes of another resume, and the    *)
(* preferences of candidate.yaml in the place of those on record.          *)
ImportResume(text, years, email) ==
  ctx' = [WithPreferences(Configured) EXCEPT !.resume = text, !.experience_years = years,
                                             !.email = email]

Next ==
  \/ \E p \in Preferences : UpdatePreferences(p)
  \/ \E system, company \in Limit : SetLimits(system, company)
  \/ \E years \in Years \cup {Unknown}, email \in BOOLEAN, text \in {"blank", "text"} :
       ImportResume(text, years, email)

Spec == Init /\ [][Next]_ctx

Outcome == Route(ctx.recommendation, RunGuardrails(ctx))

(* What is on file, and every limit, only became more demanding; amounts   *)
(* of another currency say nothing of each other.                          *)
Tightened ==
  /\ ctx'.minimum_match_score >= ctx.minimum_match_score
  /\ ctx'.compensation_minimum >= ctx.compensation_minimum
  /\ ctx'.compensation_currency = ctx.compensation_currency
  /\ ctx.excluded \subseteq ctx'.excluded
  /\ ctx'.work_authorization => ctx.work_authorization
  /\ ctx'.applications_per_day <= ctx.applications_per_day
  /\ ctx'.applications_per_company_per_day <= ctx.applications_per_company_per_day
  /\ ctx'.maximum_applications_per_day <= ctx.maximum_applications_per_day
  /\ ctx'.resume = ctx.resume /\ (ctx'.email => ctx.email)
  /\ ctx'.experience_years = ctx.experience_years

TypeOK == ctx \in Contexts

(* ARCHITECTURE.md:224-226: whatever the policy, the guardrails move a job *)
(* from queue towards human_review and reject, never the other way.        *)
GuardrailsOnlyTighten ==
  Strictness[Outcome] >= Strictness[ScoreRoute(ctx.recommendation)]

(* policy.py:3-12: a job that states a minimum tenure is never queued for  *)
(* a candidate whose years were not extracted, and none is queued without  *)
(* a stated authorization, whatever the other checks say.                  *)
UnknownIsNeverQueued ==
  \/ ~ctx.work_authorization
  \/ Known(ctx.minimum_experience) /\ ~Known(ctx.experience_years)
  => Outcome # "queue"

(* A stricter policy never brings a job closer to the queue: no exception  *)
(* of one check (the score floor spares human_review, other currencies are *)
(* not compared) opens what another check closed.                          *)
StricterPolicyNeverLoosens ==
  [][Tightened => Strictness[Outcome'] >= Strictness[Outcome]]_ctx
=============================================================================
