---------------------------- MODULE CandidateEdits ----------------------------
(***************************************************************************)
(* One posting scored for a candidate whose preferences are edited and     *)
(* whose resume is imported again: what score_jobs_node makes of it in     *)
(* each state (graph/nodes.py, profile/profile_service.py).                *)
(***************************************************************************)
EXTENDS Matching

CONSTANTS Jobs, Industries, Places, Amounts, Tenures, Weights,
          Configured,  \* the preferences of config/candidate.yaml
          MaxEdits     \* bound: edits and imports of one behaviour

Titles    == DOMAIN Words
Spellings == DOMAIN Canonical
Modes     == {"remote", "onsite"}

(* The fields of CandidatePreferences the scorer looks at; its rules treat *)
(* hybrid work as they treat onsite work.                                  *)
Preferences ==
  [targets : SUBSET Titles, industries : SUBSET Industries, stated : SUBSET Spellings,
   places : SUBSET Places, modes : SUBSET Modes, relocation : BOOLEAN,
   minimum : Amounts, wish : Amounts, currency : {"preferred", "other"}]

Resumes == [skills : SUBSET Spellings, years : Tenures \cup {Unknown}]

ASSUME MatchingAssumption ==
  /\ Amounts \subseteq Nat /\ Tenures \subseteq Nat
  /\ Configured \in Preferences
  /\ Weights \in [{"title", "skills", "experience", "industry", "location", "compensation"} -> Nat]
  /\ Weights.location % 2 = 0
  /\ MaxEdits \in Nat

Texts(pieces) == [stated : BOOLEAN, says : SUBSET pieces]

ASSUME JobsAssumption ==
  \A j \in Jobs :
    /\ j.title \in Titles
    /\ j.required \in Seq(Spellings) /\ j.preferred \in Seq(Spellings)
    /\ {j.minimum_experience, j.maximum_experience, j.salary_min, j.salary_max}
         \subseteq Nat \cup {Unknown}
    /\ j.industry \in Texts(Industries) /\ j.location \in Texts(Places)
    /\ j.work_mode \in Modes \cup {"unknown"}
    /\ j.currency \in {"none", "preferred", "other"}

ASSUME TitlesAssumption == IsFiniteSet(Titles) /\ \A t \in Titles : IsFiniteSet(Words[t])

VARIABLES job, preferences, resume, edits

vars == <<job, preferences, resume, edits>>

NoResume == [skills |-> {}, years |-> Unknown]

(* score_jobs_node: the skills of the preferences and of the resume.       *)
Candidate(p, r) ==
  [targets |-> p.targets, industries |-> p.industries, places |-> p.places, modes |-> p.modes,
   relocation |-> p.relocation, minimum |-> p.minimum, wish |-> p.wish, currency |-> p.currency,
   skills |-> p.stated \cup r.skills, years |-> r.years]

Score == Breakdown(job, Candidate(preferences, resume), Weights)

Init ==
  /\ job \in Jobs
  /\ preferences = Configured
  /\ resume = NoResume
  /\ edits = 0

UpdatePreferences(p) ==
  /\ edits < MaxEdits /\ edits' = edits + 1
  /\ preferences' = p
  /\ UNCHANGED <<job, resume>>

(* Mutant of ImportResume: the year begun counts in full.                  *)
ImportResumeOneMore(skills, years) ==
  /\ edits < MaxEdits /\ edits' = edits + 1
  /\ resume' = [skills |-> skills, years |-> IF Known(years) THEN years + 1 ELSE Unknown]
  /\ preferences' = Configured
  /\ UNCHANGED job

(* import_profile: the preferences of candidate.yaml come with the resume. *)
ImportResume(skills, years) ==
  /\ edits < MaxEdits /\ edits' = edits + 1
  /\ resume' = [skills |-> skills, years |-> years]
  /\ preferences' = Configured
  /\ UNCHANGED job

(* The client changes one group of fields and sends the rest as they were. *)
Next ==
  \/ \E targets \in SUBSET Titles : UpdatePreferences([preferences EXCEPT !.targets = targets])
  \/ \E industries \in SUBSET Industries :
       UpdatePreferences([preferences EXCEPT !.industries = industries])
  \/ \E stated \in SUBSET Spellings : UpdatePreferences([preferences EXCEPT !.stated = stated])
  \/ \E places \in SUBSET Places, modes \in SUBSET Modes, relocation \in BOOLEAN :
       UpdatePreferences([preferences EXCEPT !.places = places, !.modes = modes,
                                             !.relocation = relocation])
  \/ \E minimum, wish \in Amounts, currency \in {"preferred", "other"} :
       UpdatePreferences([preferences EXCEPT !.minimum = minimum, !.wish = wish,
                                             !.currency = currency])
  \/ \E skills \in SUBSET Spellings, years \in Tenures \cup {Unknown} :
       ImportResume(skills, years)

Spec == Init /\ [][Next]_vars

-----------------------------------------------------------------------------
(* Properties *)

TypeOK ==
  /\ job \in Jobs
  /\ preferences \in Preferences
  /\ resume \in Resumes
  /\ edits \in 0 .. MaxEdits

(* No component scores more than its weight, whichever amounts, tenures    *)
(* and overlaps meet: otherwise a score could pass 100 and outweigh what   *)
(* the thresholds of scoring.yaml are set for (matching/salary.py:33-45,   *)
(* experience.py:23-25, skills.py:80-86).                                  *)
ScoresWithinWeights ==
  /\ Score \in [DOMAIN Weights -> Nat]
  /\ \A part \in DOMAIN Weights : Score[part] <= Weights[part]

(* Whichever of the spellings normalize_skill takes for one skill the      *)
(* candidate, the resume and the posting use, the score is the same        *)
(* (matching/skills.py:3-7); a name that is no alias is its own skill, in  *)
(* the case it was written in (skills.py:37).                              *)
Respellings ==
  {f \in [Spellings -> Spellings] : \A s \in Spellings : Canonical[f[s]] = Canonical[s]}

SpellingDoesNotMatter ==
  LET skills == preferences.stated \cup resume.skills
  IN \A f \in Respellings :
       Score.skills = ScoreSkills({f[s] : s \in skills},
                                  [i \in DOMAIN job.required |-> f[job.required[i]]],
                                  [i \in DOMAIN job.preferred |-> f[job.preferred[i]]],
                                  Weights.skills)

(* The candidate asks for nothing more than before and offers more.  An    *)
(* empty list of targets or industries and a preferred amount of 0 state   *)
(* nothing, so they do not compare.                                        *)
Widened ==
  /\ preferences.targets \subseteq preferences'.targets
  /\ preferences.targets = {} => preferences'.targets = {}
  /\ preferences.industries \subseteq preferences'.industries
  /\ preferences.industries = {} => preferences'.industries = {}
  /\ preferences.stated \cup resume.skills \subseteq (preferences.stated \cup resume.skills)'
  /\ preferences.places \subseteq preferences'.places
  /\ preferences.modes \subseteq preferences'.modes
  /\ preferences.relocation => preferences'.relocation
  /\ preferences'.minimum <= preferences.minimum
  /\ preferences'.wish <= preferences.wish /\ (preferences'.wish = 0 => preferences.wish = 0)
  /\ preferences'.currency = preferences.currency
  /\ resume'.years = resume.years

(* A candidate who widens the search or adds skills never loses points     *)
(* with a posting: not by an order of the rules of one component, nor by   *)
(* a target closer in name but further from the posting                    *)
(* (matching/title.py:80-92, location.py:22-42, salary.py:30-45).          *)
WideningNeverLowers ==
  [][Widened => Overall100(Score') >= Overall100(Score)]_vars
=============================================================================
