------------------------------- MODULE Matching -------------------------------
(***************************************************************************)
(* The rule-based scorer of app/matching: six component scores and their   *)
(* sum.  Scores and weights are in hundredths of a point, as round(x, 2)   *)
(* leaves them; at an exact half Round goes to the even neighbour, where   *)
(* Python's binary fractions may fall on either.  Texts are what the       *)
(* scorer finds in them: the tokens and the family of a title, the         *)
(* canonical name of a skill, the preferences a location or an industry    *)
(* contains as substrings.                                                 *)
(***************************************************************************)
EXTENDS Guardrails, FiniteSets, Sequences

CONSTANTS
  Words,      \* [title -> _tokenize(title)]
  Family,     \* [title -> its title family, or NoFamily]
  Canonical,  \* [spelling of a skill -> normalize_skill(spelling)]
  NoFamily

(* round(n / d, 2) for amounts already scaled by 100.                      *)
Round(n, d) ==
  LET q == n \div d
      r == n % d
  IN IF 2 * r > d \/ (2 * r = d /\ q % 2 = 1) THEN q + 1 ELSE q

-----------------------------------------------------------------------------
(* Titles *)

(* token_overlap_ratio(a, b) = Common / Either; 0 if a side has no token.  *)
Common(a, b) == Cardinality(Words[a] \cap Words[b])
Either(a, b) == Cardinality(Words[a] \cup Words[b])

(* Mutant of Closest: any target that shares a word will do.               *)
SomeTarget(targets, title) == CHOOSE t \in targets : Common(t, title) > 0

(* The target with the best ratio.                                         *)
Closest(targets, title) ==
  CHOOSE t \in targets : \A u \in targets :
    Common(t, title) * Either(u, title) >= Common(u, title) * Either(t, title)

(* match_title.  A family counts in full, other titles by their overlap,   *)
(* from _PARTIAL_MATCH_FLOOR on.                                           *)
ScoreTitle(targets, title, w) ==
  IF targets = {} \/ \E t \in targets : Family[t] # NoFamily /\ Family[t] = Family[title]
  THEN w
  ELSE IF \A t \in targets : Common(t, title) = 0 THEN 0
  ELSE LET t == Closest(targets, title)
       IN IF 100 * Common(t, title) < 34 * Either(t, title) THEN 0
          ELSE Round(w * Common(t, title), Either(t, title))

-----------------------------------------------------------------------------
(* Skills *)

Normalized(skills) == {Canonical[s] : s \in skills}

(* Mutant of Matched: the spellings of the posting are taken as they are.  *)
MatchedVerbatim(skills, asked) ==
  Cardinality({i \in DOMAIN asked : asked[i] \in Normalized(skills)})

(* How many entries of a list of the posting the candidate has.            *)
Matched(skills, asked) ==
  Cardinality({i \in DOMAIN asked : Canonical[asked[i]] \in Normalized(skills)})

(* match_skills: 0.7 of the required and 0.3 of the preferred ratio; an    *)
(* empty list counts as matched.                                           *)
ScoreSkills(skills, required, preferred, w) ==
  LET had(asked)   == IF asked = <<>> THEN 1 ELSE Matched(skills, asked)
      outOf(asked) == IF asked = <<>> THEN 1 ELSE Len(asked)
  IN IF required = <<>> /\ preferred = <<>> THEN w
     ELSE Round(w * (7 * had(required) * outOf(preferred) + 3 * had(preferred) * outOf(required)),
                10 * outOf(required) * outOf(preferred))

-----------------------------------------------------------------------------
(* Experience, industry *)

ScoreExperience(years, low, high, w) ==
  IF ~Known(low) /\ ~Known(high) THEN w
  ELSE IF ~Known(years) THEN Round(w, 2)
  ELSE IF Known(low) /\ years < low THEN Round(w * years, low)
  ELSE IF Known(high) /\ 2 * years > 3 * high THEN Round(4 * w, 5)
  ELSE w

(* industry.says: the preferences its text contains.                       *)
ScoreIndustry(industry, preferred, w) ==
  IF preferred = {} THEN w
  ELSE IF ~industry.stated THEN Round(7 * w, 10)
  ELSE IF industry.says \cap preferred # {} THEN w
  ELSE Round(w, 5)

-----------------------------------------------------------------------------
(* Location *)

LocationMatches(location, places) == location.stated /\ location.says \cap places # {}

(* score_location.  The weight is even, so that w * 0.5 stays exact.       *)
ScoreLocation(location, mode, c, w) ==
  LET here == LocationMatches(location, c.places)
  IN CASE mode = "unknown"                        -> IF here THEN w ELSE w \div 2
       [] mode # "unknown" /\ mode \notin c.modes ->
            IF c.relocation /\ here THEN Round(w, 2) ELSE Round(w, 10)
       [] mode \in c.modes /\ (mode = "remote" \/ here)     -> w
       [] mode \in c.modes /\ ~(mode = "remote" \/ here)    ->
            IF c.relocation THEN Round(3 * w, 5) ELSE Round(w, 5)

-----------------------------------------------------------------------------
(* Compensation *)

(* Mutant of ScoreSalary: the position between the two is not clipped.     *)
ScoreSalaryUnclipped(job, c, w) ==
  LET reference == IF Known(job.salary_max) THEN job.salary_max ELSE job.salary_min
  IN IF ~Known(reference) THEN w
     ELSE IF job.currency \notin {"none", c.currency} THEN Round(w, 2)
     ELSE IF c.minimum > 0 /\ reference >= c.minimum /\ c.wish > c.minimum
     THEN Round(w * (6 * (c.wish - c.minimum) + 4 * (reference - c.minimum)),
                10 * (c.wish - c.minimum))
     ELSE IF c.minimum = 0 \/ reference >= c.minimum THEN w
     ELSE Round(w * (6 * reference), 10 * c.minimum)

(* score_salary: full from the preferred amount on, 0.6 at the minimum and *)
(* linear in between, less below.                                          *)
ScoreSalary(job, c, w) ==
  LET reference == IF Known(job.salary_max) THEN job.salary_max ELSE job.salary_min
  IN IF ~Known(reference) THEN w
     ELSE IF job.currency \notin {"none", c.currency} THEN Round(w, 2)
     ELSE IF (c.wish > 0 /\ reference >= c.wish) \/ c.minimum = 0 THEN w
     ELSE IF reference < c.minimum THEN Round(w * (6 * reference), 10 * c.minimum)
     ELSE IF c.wish <= c.minimum THEN w
     ELSE Round(w * (6 * (c.wish - c.minimum) + 4 * (reference - c.minimum)),
                10 * (c.wish - c.minimum))

-----------------------------------------------------------------------------
(* score_job *)

Breakdown(job, c, w) ==
  [title        |-> ScoreTitle(c.targets, job.title, w.title),
   skills       |-> ScoreSkills(c.skills, job.required, job.preferred, w.skills),
   experience   |-> ScoreExperience(c.years, job.minimum_experience, job.maximum_experience,
                                    w.experience),
   industry     |-> ScoreIndustry(job.industry, c.industries, w.industry),
   location     |-> ScoreLocation(job.location, job.work_mode, c, w.location),
   compensation |-> ScoreSalary(job, c, w.compensation)]

Overall100(b) == b.title + b.skills + b.experience + b.industry + b.location + b.compensation
=============================================================================
