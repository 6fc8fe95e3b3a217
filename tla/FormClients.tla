----------------------------- MODULE FormClients -----------------------------
(***************************************************************************)
(* The two clients of the application pages side by side: an application   *)
(* in the apply graph and an adapter that is called in any order, while    *)
(* the portals change their forms.                                         *)
(***************************************************************************)
EXTENDS ApplyForm, PortalAdapter

CONSTANT SensitiveTexts   \* labels that ask about a category of SECURITY.md:132

ASSUME SensitiveAssumption == SensitiveTexts \subseteq DOMAIN Says

applyVars   == <<run, filled>>
adapterVars == <<adapter, browsers, caller, replaced>>
vars        == <<site, run, filled, adapter, browsers, caller, replaced>>

Init == site \in Pages /\ ApplyFormInit /\ AdapterInit

Next ==
  \/ ApplyFormNext /\ UNCHANGED adapterVars
  \/ AdapterNext /\ UNCHANGED applyVars
  \/ FormChanges /\ UNCHANGED adapterVars

Spec == Init /\ [][Next]_vars

(* asyncio runs a ready task, and the operator answers what he is asked.   *)
FairSpec ==
  /\ Spec
  /\ WF_vars(RunForm /\ UNCHANGED adapterVars)
  /\ WF_vars(AnswerUnknown /\ UNCHANGED adapterVars)

-----------------------------------------------------------------------------
(* Properties *)

TypeOK ==
  /\ site \in Pages
  /\ run.pc \in {"idle", "detect", "asked", "fill", "gate", "approval",
                 "by_mode", "by_hybrid", "by_human"}
  /\ run.strong \in BOOLEAN
  /\ DOMAIN run.answers \subseteq AnswerKeys
  /\ filled.moved \in BOOLEAN
  /\ DOMAIN filled.content = DOMAIN filled.page
  /\ adapter.page.open \in BOOLEAN
  /\ DOMAIN adapter.page.content = DOMAIN adapter.page.form
  /\ DOMAIN adapter.fields = DOMAIN adapter.mappings
  /\ adapter.stack.open \in BOOLEAN /\ adapter.stack.browser \in Browser \cup {NoBrowser}
  /\ replaced \subseteq browsers /\ browsers \subseteq Browser
  /\ caller \in {"between", "failed", "prepared"}

Vouched(value) ==
  value[1] = "profile" => OnFile(value[2]) /\ Confidence(value[2]) >= Threshold

(* core/config.py:74-75, browser/models.py:3-5, "never a silent guess":    *)
(* whatever is in a control of a form is on file with enough confidence,   *)
(* or is what the operator of this application answered to its key, not    *)
(* what another did or what he left out; also when the form changed        *)
(* between the question, the answer and the filling, and after a fill that *)
(* raised.  The adapter asks nobody, and a fill with the mappings of an    *)
(* application before finds nothing else in them.                          *)
OnlyVouchedOrAnswered ==
  /\ \A j \in DOMAIN filled.content : filled.content[j] # Blank =>
       /\ Vouched(filled.content[j])
       /\ filled.content[j][1] = "human" =>
            \E k \in DOMAIN run.answers : run.answers[k] = filled.content[j]
  /\ \A j \in DOMAIN adapter.page.content : adapter.page.content[j] # Blank =>
       /\ Vouched(adapter.page.content[j])
       /\ adapter.page.content[j][1] = "profile"

(* forms.py:165 pairs by position and addresses by selector, and the       *)
(* adapter keeps fields, mappings and page in attributes of their own that *)
(* survive every close and every failed prepare.  Still, in a form that    *)
(* tells its controls apart every value is in the control it was mapped    *)
(* for: with the adapter once a prepare went through, whatever failed      *)
(* before it, in the graph unless the form changed in between.             *)
ValuesInPlace ==
  /\ ~filled.moved /\ filled.page \in Identifiable => InPlace(filled.page, filled.content)
  /\ caller = "prepared" /\ adapter.page.form \in Identifiable =>
       InPlace(adapter.page.form, adapter.page.content)

(* config/automation.yaml:16-18: what hybrid mode lets through leaves no   *)
(* field to a human: every control of the form it was filled into has a    *)
(* value or refused the one that was mapped for it, unless the operator    *)
(* himself answered its key with null.                                     *)
HybridLeavesNoGaps ==
  run.pc = "by_hybrid" /\ ~filled.moved /\ filled.page \in Identifiable =>
    \A i \in DOMAIN FieldsOf[filled.page] :
      LET field == FieldsOf[filled.page][i]
          m     == run.mappings[i]
          j     == Min(Found(filled.page, field.selector))
      IN \/ filled.content[j] # Blank
         \/ ~Takes(filled.page[j], field.type, m.value)
         \/ m.field \in DOMAIN run.answers /\ run.answers[m.field] = Blank

(* manager.py:3-4, "cleanup is guaranteed": once close was called no       *)
(* browser is left running, wherever the application stopped and also if   *)
(* closing raised, but for those whose stack a prepare without a close     *)
(* took away (greenhouse/adapter.py:86).                                   *)
NoBrowserLeftBehind == caller = "between" => browsers \subseteq replaced

(* forms.py:188, "a single field failure shouldn't abort the whole form":  *)
(* with an operator who answers, every application gets to its approval,   *)
(* save one whose form changed after it was mapped and one whose operator  *)
(* answered a file field, which fails however often it is retried.         *)
FormsGetToTheGate ==
  run.pc = "detect" ~>
    \/ run.pc \in {"gate", "approval", "by_mode", "by_hybrid", "by_human"}
    \/ filled.moved
    \/ Uploads(FieldsOf[site], run.mappings) # {}

(* SECURITY.md:132-135: what is asked about a sensitive category is        *)
(* answered by the human.                                                  *)
SensitiveLeftToHuman ==
  ~filled.moved => \A j \in DOMAIN filled.content :
    filled.page[j].label \in SensitiveTexts /\ filled.content[j] # Blank
      => filled.content[j][1] = "human"
=============================================================================
