--------------------------- MODULE MCCandidateEdits ---------------------------
(* Postings that differ from a plain one in one respect each: silent and   *)
(* stated facts, amounts around the candidate's, titles inside and outside *)
(* the families, skills under two spellings.                               *)
EXTENDS CandidateEdits

MCWords == [cto |-> {"cto"}, head |-> {"head", "technology"},
            lead |-> {"technology", "team", "lead"},
            coach |-> {"team", "coach"}]
MCFamily == [cto |-> "CTO", head |-> "CTO", lead |-> NoFamily, coach |-> NoFamily]

MCCanonical == [AWS |-> "AWS", cloud |-> "AWS", ml |-> "ML"]

Said(texts) == [stated |-> TRUE, says |-> texts]
Silent      == [stated |-> FALSE, says |-> {}]

Plain == [title |-> "lead", required |-> <<"AWS">>, preferred |-> <<>>,
          minimum_experience |-> Unknown, maximum_experience |-> Unknown,
          industry |-> Said({"travel"}), location |-> Said({"berlin"}), work_mode |-> "onsite",
          salary_min |-> 2, salary_max |-> Unknown, currency |-> "preferred"]

MCJobs ==
  {[Plain EXCEPT !.title = title] : title \in {"cto", "lead", "coach"}}
  \cup {[Plain EXCEPT !.required = required, !.preferred = preferred] :
          required \in {<<>>, <<"cloud", "ml">>}, preferred \in {<<>>, <<"ml">>}}
  \cup {[Plain EXCEPT !.minimum_experience = low, !.maximum_experience = high] :
          low \in {Unknown, 2}, high \in {Unknown, 1}}
  \cup {[Plain EXCEPT !.industry = industry] : industry \in {Silent, Said({})}}
  \cup {[Plain EXCEPT !.location = location, !.work_mode = mode] :
          location \in {Silent, Said({"berlin"}), Said({})},
          mode \in {"unknown", "remote", "onsite"}}
  \cup {[Plain EXCEPT !.salary_min = low, !.salary_max = high, !.currency = currency] :
          low \in {Unknown, 1}, high \in {Unknown, 3}, currency \in {"none", "preferred", "other"}}

MCWeights == [title |-> 2500, skills |-> 3000, experience |-> 1500, industry |-> 1000,
              location |-> 1000, compensation |-> 1000]

MCConfigured ==
  [targets |-> {"coach"}, industries |-> {}, stated |-> {"cloud"}, places |-> {},
   modes |-> {"onsite"}, relocation |-> FALSE, minimum |-> 2, wish |-> 3,
   currency |-> "preferred"]

MCAmounts == 0 .. 3
=============================================================================
