-------------------------- MODULE PolicyEditsProofs --------------------------
(* Proofs about the guardrail engine and the policy edits, for every score, *)
(* amount, limit and threshold.                                            *)
EXTENDS PolicyEdits, TLAPS

LEMMA ChecksAreVerdicts ==
  ASSUME NEW c \in Contexts
  PROVE  Checks(c) \subseteq Verdicts /\ RunGuardrails(c) \in Verdicts
BY DEF Checks, Verdicts, RunGuardrails, Overall, BlockIf, CheckMinimumScore, CheckDailyLimit,
       CheckCompanyDailyLimit, CheckExcluded, CheckMinimumSalary, CheckExperienceMismatch,
       CheckWorkAuthorization, CheckDuplicateApplication, CheckResumeValidation,
       CheckMandatoryFields

(* Routing is as strict as the score and as strict as the guardrails.      *)
LEMMA RouteIsStrictest ==
  ASSUME NEW rec \in Recommendations, NEW v \in Verdicts
  PROVE  /\ Route(rec, v) \in Targets
         /\ Strictness[Route(rec, v)] >= Strictness[ScoreRoute(rec)]
         /\ Strictness[Route(rec, v)] >= Strictness[v]
         /\ \A s \in Int : s >= Strictness[ScoreRoute(rec)] /\ s >= Strictness[v]
              => s >= Strictness[Route(rec, v)]
BY DEF Route, ScoreRoute, Strictness, Recommendations, Verdicts, Targets

LEMMA RecommendationOK ==
  ASSUME NEW score, NEW thresholds
  PROVE  RecommendationFor(score, thresholds) \in Recommendations
BY DEF RecommendationFor, Recommendations

(* Every edit leaves a well-formed context.                                *)
THEOREM TypeCorrect == Spec => []TypeOK
<1>1. Init => TypeOK
  <2> SUFFICES ASSUME NEW score \in Score, NEW floor \in Years \cup {Unknown},
                      NEW salary \in Salary, NEW p \in Preferences, Init!(score, floor, salary, p)
               PROVE  TypeOK
    BY DEF Init
  <2>1. /\ p.minimum_match_score \in Nat /\ p.compensation_minimum \in Nat
        /\ p.compensation_currency \in STRING
        /\ p.excluded \in SUBSET {"company", "role", "location"}
        /\ p.work_authorization \in BOOLEAN /\ p.maximum_applications_per_day \in Int
    BY ValuesAssumption DEF Preferences
  <2>2. /\ score \in Nat /\ floor \in Nat \cup {Unknown}
        /\ salary.low \in Nat \cup {Unknown} /\ salary.high \in Nat \cup {Unknown}
        /\ salary.currency \in STRING
    BY ValuesAssumption
  <2>3. QED
    BY <2>1, <2>2, RecommendationOK DEF TypeOK, Contexts
<1>2. TypeOK /\ [Next]_ctx => TypeOK'
  <2> SUFFICES ASSUME TypeOK, [Next]_ctx PROVE TypeOK'
    OBVIOUS
  <2>1. ASSUME NEW p \in Preferences PROVE WithPreferences(p) \in Contexts
    <3>1. /\ p.minimum_match_score \in Nat /\ p.compensation_minimum \in Nat
          /\ p.compensation_currency \in STRING
          /\ p.excluded \in SUBSET {"company", "role", "location"}
          /\ p.work_authorization \in BOOLEAN /\ p.maximum_applications_per_day \in Int
      BY ValuesAssumption DEF Preferences
    <3>2. QED
      BY <3>1 DEF WithPreferences, TypeOK, Contexts
  <2>2. ASSUME NEW p \in Preferences, UpdatePreferences(p) PROVE TypeOK'
    BY <2>1, <2>2 DEF UpdatePreferences, TypeOK
  <2>3. ASSUME NEW system \in Limit, NEW company \in Limit, SetLimits(system, company)
        PROVE  TypeOK'
    BY <2>3, ValuesAssumption DEF SetLimits, TypeOK, Contexts
  <2>4. ASSUME NEW years \in Years \cup {Unknown}, NEW email \in BOOLEAN,
               NEW text \in {"blank", "text"}, ImportResume(text, years, email)
        PROVE  TypeOK'
    <3>1. WithPreferences(Configured) \in Contexts
      BY <2>1, ValuesAssumption
    <3>2. QED
      BY <2>4, <3>1, ValuesAssumption DEF ImportResume, TypeOK, Contexts
  <2>5. CASE UNCHANGED ctx
    BY <2>5 DEF TypeOK
  <2>6. QED
    BY <2>2, <2>3, <2>4, <2>5 DEF Next
<1>3. QED
  BY <1>1, <1>2, PTL DEF Spec

(* policy_guard: for every context and policy the guardrails move a job    *)
(* only from queue towards reject.                                         *)
THEOREM GuardrailsOnlyTightenHolds == Spec => []GuardrailsOnlyTighten
<1>1. TypeOK => GuardrailsOnlyTighten
  <2> SUFFICES ASSUME TypeOK PROVE GuardrailsOnlyTighten
    OBVIOUS
  <2>1. ctx \in Contexts /\ ctx.recommendation \in Recommendations
    BY DEF TypeOK, Contexts
  <2>2. QED
    BY <2>1, ChecksAreVerdicts, RouteIsStrictest DEF GuardrailsOnlyTighten, Outcome
<1>2. QED
  BY <1>1, TypeCorrect, PTL

(* check_experience_mismatch and check_work_authorization: what the        *)
(* candidate never stated is never taken as given.                         *)
THEOREM UnknownIsNeverQueuedHolds == Spec => []UnknownIsNeverQueued
<1>1. TypeOK => UnknownIsNeverQueued
  <2> SUFFICES ASSUME TypeOK,
                      \/ ~ctx.work_authorization
                      \/ Known(ctx.minimum_experience) /\ ~Known(ctx.experience_years)
               PROVE  Outcome # "queue"
    BY DEF UnknownIsNeverQueued
  <2>1. "HUMAN_INPUT_REQUIRED" \in Checks(ctx)
    BY DEF Checks, CheckWorkAuthorization, CheckExperienceMismatch
  <2>2. RunGuardrails(ctx) # "ALLOW" /\ RunGuardrails(ctx) \in Verdicts
    BY <2>1 DEF RunGuardrails, Overall, Verdicts
  <2>3. ctx.recommendation \in Recommendations
    BY DEF TypeOK, Contexts
  <2>4. QED
    BY <2>2, <2>3 DEF Outcome, Route, Verdicts, Recommendations
<1>2. QED
  BY <1>1, TypeCorrect, PTL

(* Each check gets stricter as its own part of the policy does.            *)
LEMMA BlocksStay ==
  ASSUME TypeOK, TypeOK', Tightened, UNCHANGED <<ctx.recommendation, ctx.score,
           ctx.applications_today, ctx.applications_today_for_company, ctx.already_applied,
           ctx.salary_min, ctx.salary_max, ctx.salary_currency, ctx.minimum_experience>>
  PROVE  /\ "BLOCK" \in Checks(ctx) => "BLOCK" \in Checks(ctx)'
         /\ "HUMAN_INPUT_REQUIRED" \in Checks(ctx) => "HUMAN_INPUT_REQUIRED" \in Checks(ctx)'
<1>1. CheckMinimumScore(ctx) = "BLOCK" => CheckMinimumScore(ctx)' = "BLOCK"
  BY DEF CheckMinimumScore, BlockIf, Tightened, TypeOK, Contexts
<1>2. CheckDailyLimit(ctx) = "BLOCK" => CheckDailyLimit(ctx)' = "BLOCK"
  BY DEF CheckDailyLimit, BlockIf, Tightened, TypeOK, Contexts
<1>3. CheckCompanyDailyLimit(ctx) = "BLOCK" => CheckCompanyDailyLimit(ctx)' = "BLOCK"
  BY DEF CheckCompanyDailyLimit, BlockIf, Tightened, TypeOK, Contexts
<1>4. CheckExcluded(ctx) = "BLOCK" => CheckExcluded(ctx)' = "BLOCK"
  BY DEF CheckExcluded, BlockIf, Tightened
<1>5. CheckMinimumSalary(ctx) = "BLOCK" => CheckMinimumSalary(ctx)' = "BLOCK"
  BY DEF CheckMinimumSalary, BlockIf, Known, Unknown, Tightened, TypeOK, Contexts
<1>6. CheckExperienceMismatch(ctx)' = CheckExperienceMismatch(ctx)
  BY DEF CheckExperienceMismatch, BlockIf, Known, Tightened
<1>7. CheckWorkAuthorization(ctx) = "HUMAN_INPUT_REQUIRED"
        => CheckWorkAuthorization(ctx)' = "HUMAN_INPUT_REQUIRED"
  BY DEF CheckWorkAuthorization, Tightened
<1>8. /\ CheckDuplicateApplication(ctx)' = CheckDuplicateApplication(ctx)
      /\ CheckResumeValidation(ctx)' = CheckResumeValidation(ctx)
      /\ CheckMandatoryFields(ctx) = "BLOCK" => CheckMandatoryFields(ctx)' = "BLOCK"
  BY DEF CheckDuplicateApplication, CheckResumeValidation, CheckMandatoryFields, BlockIf, Tightened
<1>9. "BLOCK" \in Checks(ctx) => "BLOCK" \in Checks(ctx)'
  BY <1>1, <1>2, <1>3, <1>4, <1>5, <1>6, <1>8 DEF Checks, CheckWorkAuthorization
<1>10. "HUMAN_INPUT_REQUIRED" \in Checks(ctx) => "HUMAN_INPUT_REQUIRED" \in Checks(ctx)'
  BY <1>6, <1>7 DEF Checks, BlockIf, CheckMinimumScore, CheckDailyLimit, CheckCompanyDailyLimit,
     CheckExcluded, CheckMinimumSalary, CheckDuplicateApplication, CheckResumeValidation,
     CheckMandatoryFields
<1>11. QED
  BY <1>9, <1>10

(* No edit that only demands more brings a job closer to the queue.        *)
THEOREM StricterPolicyNeverLoosensHolds == Spec => StricterPolicyNeverLoosens
<1>1. TypeOK /\ TypeOK' /\ [Next]_ctx
        => [Tightened => Strictness[Outcome'] >= Strictness[Outcome]]_ctx
  <2> SUFFICES ASSUME TypeOK, TypeOK', Next, Tightened
               PROVE  Strictness[Outcome'] >= Strictness[Outcome]
    OBVIOUS
  <2> DEFINE Frame == UNCHANGED <<ctx.recommendation, ctx.score, ctx.applications_today,
                        ctx.applications_today_for_company, ctx.already_applied,
                        ctx.salary_min, ctx.salary_max, ctx.salary_currency,
                        ctx.minimum_experience>>
  <2>1. Frame
    <3>1. ASSUME NEW p, UpdatePreferences(p) PROVE Frame
      BY <3>1 DEF UpdatePreferences, WithPreferences, TypeOK, Contexts
    <3>2. ASSUME NEW system, NEW company, SetLimits(system, company) PROVE Frame
      BY <3>2 DEF SetLimits, TypeOK, Contexts
    <3>3. ASSUME NEW years, NEW email, NEW text, ImportResume(text, years, email) PROVE Frame
      BY <3>3 DEF ImportResume, WithPreferences, TypeOK, Contexts
    <3> HIDE DEF Frame
    <3>4. QED
      BY <3>1, <3>2, <3>3 DEF Next
  <2>2. /\ "BLOCK" \in Checks(ctx) => "BLOCK" \in Checks(ctx)'
        /\ "HUMAN_INPUT_REQUIRED" \in Checks(ctx) => "HUMAN_INPUT_REQUIRED" \in Checks(ctx)'
    BY <2>1, BlocksStay
  <2>3. Strictness[RunGuardrails(ctx)'] >= Strictness[RunGuardrails(ctx)]
    BY <2>2 DEF RunGuardrails, Overall, Strictness
  <2>4. /\ ctx.recommendation \in Recommendations /\ ctx'.recommendation = ctx.recommendation
        /\ RunGuardrails(ctx) \in Verdicts /\ RunGuardrails(ctx)' \in Verdicts
    BY <2>1, ChecksAreVerdicts DEF TypeOK, Contexts
  <2>5. QED
    BY <2>3, <2>4 DEF Outcome, Route, ScoreRoute, Strictness, Recommendations, Verdicts
<1>2. QED
  BY <1>1, TypeCorrect, PTL DEF Spec, StricterPolicyNeverLoosens
=============================================================================
