------------------------------ MODULE Guardrails ------------------------------
(***************************************************************************)
(* The deterministic guardrail engine: the twelve checks of                *)
(* app/guardrails/policy.py over a context, the precedence of              *)
(* app/guardrails/engine.py, the score bands of app/matching/models.py and *)
(* the routing policy_guard derives from them.  Constant-level: contexts   *)
(* in, decisions out.  String matching (excluded names in lower case) is   *)
(* abstracted to its outcome.                                              *)
(***************************************************************************)
EXTENDS Integers

Verdicts == {"ALLOW", "HUMAN_INPUT_REQUIRED", "BLOCK"}
Targets  == {"queue", "human_review", "reject"}
Recommendations == {"priority_apply", "normal_apply", "apply_if_capacity",
                    "human_review", "reject"}

(* None of Python, for an amount or a number of years that is not known.   *)
Unknown == -1
Known(x) == x # Unknown

(* Stricter decisions rank higher.                                         *)
Strictness == [ALLOW |-> 0, queue |-> 0,
               HUMAN_INPUT_REQUIRED |-> 1, human_review |-> 1,
               BLOCK |-> 2, reject |-> 2]

(* What a context tells the checks.  excluded: the lists (company, role,   *)
(* location) the job matches; resume: what resume import left behind;       *)
(* "none" is the currency of a posting that states none.                   *)
Contexts ==
  [recommendation : Recommendations, score : Nat,
   minimum_match_score : Nat, compensation_minimum : Nat,
   applications_today : Nat, applications_today_for_company : Nat,
   applications_per_day : Int, applications_per_company_per_day : Int,
   maximum_applications_per_day : Int,
   salary_min : Nat \cup {Unknown}, salary_max : Nat \cup {Unknown},
   salary_currency : STRING, compensation_currency : STRING,
   minimum_experience : Nat \cup {Unknown}, experience_years : Nat \cup {Unknown},
   excluded : SUBSET {"company", "role", "location"}, already_applied : BOOLEAN,
   work_authorization : BOOLEAN, resume : {"none", "blank", "text"}, email : BOOLEAN]

BlockIf(condition) == IF condition THEN "BLOCK" ELSE "ALLOW"

(* recommendation_for: the bands of config/scoring.yaml, best first.       *)
RecommendationFor(score, thresholds) ==
  IF score >= thresholds.priority_apply         THEN "priority_apply"
  ELSE IF score >= thresholds.normal_apply      THEN "normal_apply"
  ELSE IF score >= thresholds.apply_if_capacity THEN "apply_if_capacity"
  ELSE IF score >= thresholds.human_review      THEN "human_review"
  ELSE "reject"

(* The floor spares what the scorer already sent to a human.               *)
CheckMinimumScore(ctx) ==
  BlockIf(ctx.recommendation # "human_review" /\ ctx.score < ctx.minimum_match_score)

CheckDailyLimit(ctx) ==
  BlockIf(\/ ctx.applications_today >= ctx.applications_per_day
          \/ ctx.applications_today >= ctx.maximum_applications_per_day)

CheckCompanyDailyLimit(ctx) ==
  BlockIf(ctx.applications_today_for_company >= ctx.applications_per_company_per_day)

CheckExcluded(ctx) == BlockIf(ctx.excluded # {})

(* Amounts in another currency are not compared.                           *)
CheckMinimumSalary(ctx) ==
  LET reference == IF Known(ctx.salary_max) THEN ctx.salary_max ELSE ctx.salary_min
  IN BlockIf(/\ Known(reference)
             /\ ctx.compensation_minimum > 0
             /\ ctx.salary_currency \in {"none", ctx.compensation_currency}
             /\ reference < ctx.compensation_minimum)

(* Mutant of CheckExperienceMismatch: a tenure nobody knows passes.        *)
CheckExperienceKnown(ctx) ==
  BlockIf(/\ Known(ctx.minimum_experience) /\ Known(ctx.experience_years)
          /\ 2 * ctx.experience_years < ctx.minimum_experience)

(* Unknown tenure is the human's to state, never assumed.                  *)
CheckExperienceMismatch(ctx) ==
  IF ~Known(ctx.minimum_experience) THEN "ALLOW"
  ELSE IF ~Known(ctx.experience_years) THEN "HUMAN_INPUT_REQUIRED"
  ELSE BlockIf(2 * ctx.experience_years < ctx.minimum_experience)

CheckWorkAuthorization(ctx) ==
  IF ctx.work_authorization THEN "ALLOW" ELSE "HUMAN_INPUT_REQUIRED"

CheckDuplicateApplication(ctx) == BlockIf(ctx.already_applied)

CheckResumeValidation(ctx) == BlockIf(ctx.resume # "text")

CheckMandatoryFields(ctx) == BlockIf(~ctx.email)

Checks(ctx) ==
  {CheckMinimumScore(ctx), CheckDailyLimit(ctx), CheckCompanyDailyLimit(ctx),
   CheckExcluded(ctx), CheckMinimumSalary(ctx), CheckExperienceMismatch(ctx),
   CheckWorkAuthorization(ctx), CheckDuplicateApplication(ctx),
   CheckResumeValidation(ctx), CheckMandatoryFields(ctx)}

(* Mutant of Overall: the two stricter decisions in the wrong order.       *)
OverallHumanFirst(verdicts) ==
  IF "HUMAN_INPUT_REQUIRED" \in verdicts THEN "HUMAN_INPUT_REQUIRED"
  ELSE IF "BLOCK" \in verdicts THEN "BLOCK"
  ELSE "ALLOW"

(* run_guardrails: BLOCK > HUMAN_INPUT_REQUIRED > ALLOW.                   *)
Overall(verdicts) ==
  IF "BLOCK" \in verdicts THEN "BLOCK"
  ELSE IF "HUMAN_INPUT_REQUIRED" \in verdicts THEN "HUMAN_INPUT_REQUIRED"
  ELSE "ALLOW"

RunGuardrails(ctx) == Overall(Checks(ctx))

(* Where a score alone would send the job.                                 *)
ScoreRoute(recommendation) ==
  CASE recommendation = "reject"       -> "reject"
    [] recommendation = "human_review" -> "human_review"
    [] OTHER                           -> "queue"

(* Mutant of Route: what the guardrails allow is queued.                   *)
RouteByVerdict(recommendation, verdict) ==
  CASE verdict = "BLOCK"                -> "reject"
    [] verdict = "HUMAN_INPUT_REQUIRED" -> "human_review"
    [] OTHER                            -> "queue"

(* policy_guard: a rejected score is final, the guardrails decide on the   *)
(* rest, and what they allow goes where the score sends it.                *)
Route(recommendation, verdict) ==
  CASE recommendation = "reject" \/ verdict = "BLOCK" -> "reject"
    [] recommendation # "reject" /\ verdict = "HUMAN_INPUT_REQUIRED" -> "human_review"
    [] OTHER -> ScoreRoute(recommendation)
=============================================================================
