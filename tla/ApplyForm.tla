------------------------------ MODULE ApplyForm ------------------------------
(***************************************************************************)
(* The form of one application in the apply graph (graph/apply_nodes.py):  *)
(* what ApplyFlow leaves to form_unknown, unresolved and strong.  Every    *)
(* node opens the page anew, so the portal may change it in between, and   *)
(* the answered node detects and maps again before it looks at the answers. *)
(***************************************************************************)
EXTENDS FormFilling

CONSTANTS
  Modes,          \* values approval.mode takes
  AnswerKeys,     \* keys an answer may name, whether it was asked or not
  MinConfidence   \* approval.hybrid_min_confidence

ASSUME ApprovalAssumption ==
  /\ Modes \subseteq {"manual", "hybrid", "automatic"}
  /\ MinConfidence \in 0 .. 100

VARIABLES
  run,      \* the application: its node, the answers its task was resumed with
            \* and the mappings the nodes share
  filled    \* history: the page the fill node saw last and what it put in it,
            \* and whether the portal changed the form since it was mapped

NotFilled == [page |-> <<>>, content |-> <<>>, moved |-> FALSE]

NoRun == [pc |-> "idle", strong |-> FALSE, answers |-> <<>>, mappings |-> <<>>]

(* start_application; strong: the match score clears hybrid_min_score.     *)
StartForm(strong) ==
  /\ run.pc \in {"idle", "by_hybrid", "by_mode", "by_human"}
  /\ run' = [NoRun EXCEPT !.pc = "detect", !.strong = strong]
  /\ filled' = NotFilled
  /\ UNCHANGED site

(* Mutant of WithAnswers: whatever was answered, no field stays open.      *)
AnswersForAll(mappings, answers) ==
  [i \in DOMAIN mappings |->
     IF mappings[i].requires_human /\ answers # <<>>
     THEN [mappings[i] EXCEPT !.requires_human = FALSE, !.value = AnswerTo(mappings[i].field)]
     ELSE mappings[i]]

(* Answers go to the mappings that ask for the human, by key; the          *)
(* confidence stays that of the mapper.                                    *)
WithAnswers(mappings, answers) ==
  [i \in DOMAIN mappings |->
     IF mappings[i].requires_human /\ mappings[i].field \in DOMAIN answers
     THEN [mappings[i] EXCEPT !.requires_human = FALSE, !.value = answers[mappings[i].field]]
     ELSE mappings[i]]

(* The first execution asks once for all it cannot map ...                 *)
AskUnknown ==
  /\ run.pc = "detect" /\ DOMAIN run.answers = {}
  /\ Unknown(MappingsOf[site]) # {}
  /\ run' = [run EXCEPT !.pc = "asked"]
  /\ UNCHANGED <<site, filled>>

(* ... the operator answers what he likes of it, and perhaps what he was   *)
(* not asked: the resume takes any dict (apply_service.py:144), in which   *)
(* an answer may be null.  An empty text would clear the control instead   *)
(* of skipping it; only controls that share a selector tell the two apart. *)
AnswerUnknown ==
  /\ run.pc = "asked"
  /\ \E named \in (SUBSET AnswerKeys) \ {{}} : \E null \in SUBSET named :
       run' = [run EXCEPT !.pc = "detect",
                          !.answers = [k \in named |-> IF k \in null THEN Blank ELSE AnswerTo(k)]]
  /\ UNCHANGED <<site, filled>>

(* ... and the node runs through, on the page as it is now.                *)
DetectAndMap ==
  /\ run.pc = "detect"
  /\ LET mappings == MappingsOf[site]
     IN /\ Unknown(mappings) = {} \/ DOMAIN run.answers # {}
        /\ run' = [run EXCEPT !.pc = "fill", !.mappings = WithAnswers(mappings, run.answers)]
  /\ filled' = [filled EXCEPT !.moved = FALSE]
  /\ UNCHANGED site

(* The page is detected again.  If filling raises, the request fails and   *)
(* the checkpoint stays: a retry comes back here.                          *)
FillAndValidate ==
  /\ run.pc = "fill"
  /\ LET page   == site
         fields == FieldsOf[page]
     IN /\ filled' = [filled EXCEPT !.page = page,
                                    !.content = FillForm(page, fields, run.mappings)]
        /\ run' = IF FillRaises(fields, run.mappings) THEN run
                  ELSE [run EXCEPT !.pc = "gate"]
  /\ UNCHANGED site

MeanAtLeast(mappings, bar) ==
  LET ConfidenceOf(i) == mappings[i].confidence
  IN MapThenSumSet(ConfidenceOf, DOMAIN mappings) >= bar * Len(mappings)

(* Mutant of HybridAutoApproves: open fields do not count.                 *)
HybridOverlooks ==
  run.strong /\ run.mappings # <<>> /\ MeanAtLeast(run.mappings, MinConfidence)

(* _hybrid_auto_approves.                                                  *)
HybridAutoApproves ==
  /\ run.strong
  /\ Unknown(run.mappings) = {} /\ run.mappings # <<>>
  /\ MeanAtLeast(run.mappings, MinConfidence)

ManualApproval(mode) ==
  /\ run.pc = "gate"
  /\ run' = [run EXCEPT !.pc =
               CASE mode = "automatic" -> "by_mode"
                 [] mode = "hybrid" /\ HybridAutoApproves -> "by_hybrid"
                 [] OTHER -> "approval"]
  /\ UNCHANGED <<site, filled>>

(* The operator decides; ApplyFlow has what becomes of the decision.       *)
Decide ==
  /\ run.pc = "approval"
  /\ run' = [run EXCEPT !.pc = "by_human"]
  /\ UNCHANGED <<site, filled>>

(* A change that counts: the form was mapped and may be filled again.      *)
FormChanges ==
  /\ SiteChanges
  /\ filled' = [filled EXCEPT !.moved = @ \/ run.pc = "fill"]
  /\ UNCHANGED run

ApplyFormInit == run = NoRun /\ filled = NotFilled

RunForm ==
  \/ AskUnknown
  \/ DetectAndMap
  \/ FillAndValidate
  \/ \E mode \in Modes : ManualApproval(mode)

ApplyFormNext ==
  \/ \E strong \in BOOLEAN : StartForm(strong)
  \/ RunForm
  \/ AnswerUnknown
  \/ Decide
=============================================================================
