-------------------------- MODULE FormClientsProofs --------------------------
(* The invariants of FormClients, for all pages, texts, profiles, bars and  *)
(* browsers.                                                                *)
EXTENDS FormClients, FormFillingProofs

-----------------------------------------------------------------------------
(* The inductive invariant *)

(* A mapping as the graph may fill it: what is not the human's is vouched   *)
(* for, belongs to its key, and is the answer to it if it is one; or it was *)
(* answered with null.                                                      *)
Answered(k, value, answers) == k \in DOMAIN answers /\ answers[k] = value

FitToFill(m, answers) ==
  /\ m.requires_human \in BOOLEAN
  /\ ~m.requires_human =>
       \/ m.value = Blank /\ Answered(m.field, Blank, answers)
       \/ /\ m.value # Blank /\ Vouched(m.value) /\ m.value[2] = m.field
          /\ m.value[1] = "human" => Answered(m.field, m.value, answers)

RunTypes ==
  /\ site \in Pages
  /\ DOMAIN run = {"pc", "strong", "answers", "mappings"}
  /\ run.pc \in {"idle", "detect", "asked", "fill", "gate", "approval",
                 "by_mode", "by_hybrid", "by_human"}
  /\ run.strong \in BOOLEAN
  /\ DOMAIN filled = {"page", "content", "moved"}
  /\ filled.moved \in BOOLEAN
  /\ DOMAIN filled.content = DOMAIN filled.page

(* Answers are to keys that may be answered; nothing is mapped or filled    *)
(* before.                                                                  *)
RunAnswers ==
  /\ \A k \in DOMAIN run.answers : k \in AnswerKeys /\ run.answers[k] \in {Blank, AnswerTo(k)}
  /\ run.pc \in {"idle", "detect", "asked"} =>
       run.mappings = <<>> /\ filled.page = <<>> /\ filled.content = <<>>

RunMappings ==
  /\ DOMAIN run.mappings \in SUBSET Nat /\ IsFiniteSet(DOMAIN run.mappings)
  /\ \A i \in DOMAIN run.mappings : FitToFill(run.mappings[i], run.answers)
  /\ run.pc = "fill" /\ ~filled.moved =>
       /\ DOMAIN run.mappings = DOMAIN MappingsOf[site]
       /\ \A i \in DOMAIN run.mappings : run.mappings[i].field = MappingsOf[site][i].field

RunContent ==
  /\ \A j \in DOMAIN filled.content : filled.content[j] # Blank =>
       /\ Vouched(filled.content[j])
       /\ filled.content[j][1] = "human" =>
            \E k \in DOMAIN run.answers : run.answers[k] = filled.content[j]
  /\ ~filled.moved /\ filled.page \in Identifiable => InPlace(filled.page, filled.content)

(* Whatever is mapped to a value is in its control, or refused.             *)
Completed(page, content, mappings) ==
  /\ DOMAIN mappings = DOMAIN FieldsOf[page]
  /\ \A i \in DOMAIN mappings : Written(mappings[i]) =>
       LET field == FieldsOf[page][i]
           j     == Min(Found(page, field.selector))
       IN content[j] # Blank \/ ~Takes(page[j], field.type, mappings[i].value)

RunGate ==
  /\ run.pc \in {"gate", "approval", "by_mode", "by_hybrid", "by_human"}
       /\ ~filled.moved /\ filled.page \in Identifiable
       => Completed(filled.page, filled.content, run.mappings)
  /\ run.pc = "by_hybrid" => Unknown(run.mappings) = {}

RunInv == RunTypes /\ RunAnswers /\ RunMappings /\ RunContent /\ RunGate

AdapterTypes ==
  /\ DOMAIN adapter = {"stack", "page", "fields", "mappings"}
  /\ DOMAIN adapter.stack = {"open", "browser"} 
  /\ DOMAIN adapter.page = {"open", "browser", "form", "content"}
  /\ adapter.page.open \in BOOLEAN
  /\ DOMAIN adapter.page.content = DOMAIN adapter.page.form
  /\ DOMAIN adapter.fields = DOMAIN adapter.mappings
  /\ adapter.stack.open \in BOOLEAN /\ adapter.stack.browser \in Browser \cup {NoBrowser}
  /\ replaced \subseteq browsers /\ browsers \subseteq Browser
  /\ caller \in {"between", "failed", "prepared"}

(* The stack knows every browser that runs and is not replaced.             *)
AdapterBrowsers ==
  /\ browsers \subseteq replaced \cup {adapter.stack.browser}
  /\ caller = "between" => browsers \subseteq replaced
  /\ ~adapter.stack.open => adapter.stack.browser = NoBrowser
  /\ adapter.stack.browser \notin replaced

(* Fields and mappings are those of some page, and of this one if a prepare *)
(* went through.                                                            *)
AdapterMappings ==
  /\ \/ adapter.fields = <<>> /\ adapter.mappings = <<>>
     \/ \E p \in Pages : adapter.fields = FieldsOf[p] /\ adapter.mappings = MappingsOf[p]
  /\ caller = "prepared" =>
       /\ adapter.page.form \in Pages
       /\ adapter.fields = FieldsOf[adapter.page.form]
       /\ adapter.mappings = MappingsOf[adapter.page.form]

AdapterContent ==
  /\ \A j \in DOMAIN adapter.page.content : adapter.page.content[j] # Blank =>
       /\ Vouched(adapter.page.content[j])
       /\ adapter.page.content[j][1] = "profile"
  /\ caller = "prepared" /\ adapter.page.form \in Identifiable =>
       InPlace(adapter.page.form, adapter.page.content)

AdapterInv == AdapterTypes /\ AdapterBrowsers /\ AdapterMappings /\ AdapterContent

-----------------------------------------------------------------------------
(* Mappings *)

LEMMA Values ==
  ASSUME NEW k
  PROVE  /\ OnRecord(k) # Blank /\ OnRecord(k)[1] = "profile" /\ OnRecord(k)[2] = k
         /\ AnswerTo(k) # Blank /\ AnswerTo(k)[1] = "human" /\ AnswerTo(k)[2] = k
<1>1. Blank[1] = "blank" /\ OnRecord(k)[1] = "profile" /\ AnswerTo(k)[1] = "human"
  BY DEF Blank, OnRecord, AnswerTo
<1>2. OnRecord(k)[2] = k /\ AnswerTo(k)[2] = k
  BY DEF OnRecord, AnswerTo
<1>3. QED
  BY <1>1, <1>2

(* What the mapper writes comes from the profile, vouched for.              *)
LEMMA MappedFromProfile ==
  ASSUME NEW p \in Pages, NEW i \in DOMAIN MappingsOf[p]
  PROVE  LET m == MappingsOf[p][i]
         IN /\ m.requires_human \in BOOLEAN
            /\ DOMAIN m = {"field", "value", "confidence", "requires_human"}
            /\ ~m.requires_human =>
                 /\ m.value # Blank /\ Vouched(m.value)
                 /\ m.value[1] = "profile" /\ m.value[2] = m.field
<1> DEFINE m == MappingsOf[p][i]
<1>1. m = MapField(FieldsOf[p][i])
  BY FieldsOfPage
<1>2. /\ m = [field |-> m.field, value |-> m.value, confidence |-> m.confidence,
              requires_human |-> m.requires_human]
      /\ m.requires_human \in BOOLEAN
      /\ \/ m.value = Blank /\ m.requires_human
         \/ /\ m.value = OnRecord(m.field) /\ OnFile(m.field)
            /\ m.requires_human \/ Confidence(m.field) >= Threshold
  BY <1>1, MapFieldIsVouched
<1> HIDE DEF m
<1>3. DOMAIN m = {"field", "value", "confidence", "requires_human"}
  BY <1>2
<1>4. ~m.requires_human =>
        /\ m.value # Blank /\ Vouched(m.value)
        /\ m.value[1] = "profile" /\ m.value[2] = m.field
  BY <1>2, Values DEF Vouched
<1>5. QED
  BY <1>2, <1>3, <1>4 DEF m

LEMMA AnsweredMappings ==
  ASSUME NEW p \in Pages, NEW answers,
         \A k \in DOMAIN answers : answers[k] \in {Blank, AnswerTo(k)}
  PROVE  LET w == WithAnswers(MappingsOf[p], answers)
         IN /\ DOMAIN w = DOMAIN MappingsOf[p]
            /\ \A i \in DOMAIN w : /\ w[i].field = MappingsOf[p][i].field
                                   /\ FitToFill(w[i], answers)
<1> DEFINE w == WithAnswers(MappingsOf[p], answers)
<1>1. DOMAIN w = DOMAIN MappingsOf[p]
  BY DEF WithAnswers
<1>2. ASSUME NEW i \in DOMAIN MappingsOf[p]
      PROVE  w[i].field = MappingsOf[p][i].field /\ FitToFill(w[i], answers)
  <2> DEFINE m == MappingsOf[p][i]
  <2>1. /\ m.requires_human \in BOOLEAN
        /\ DOMAIN m = {"field", "value", "confidence", "requires_human"}
        /\ ~m.requires_human =>
             /\ m.value # Blank /\ Vouched(m.value)
             /\ m.value[1] = "profile" /\ m.value[2] = m.field
    BY <1>2, MappedFromProfile
  <2>2. CASE m.requires_human /\ m.field \in DOMAIN answers
    <3>1. w[i] = [m EXCEPT !.requires_human = FALSE, !.value = answers[m.field]]
      BY <1>2, <2>2 DEF WithAnswers
    <3> HIDE DEF w, m
    <3>2. /\ w[i].field = m.field /\ w[i].requires_human = FALSE
          /\ Answered(m.field, w[i].value, answers)
          /\ w[i].value \in {Blank, AnswerTo(m.field)}
      BY <2>1, <2>2, <3>1 DEF Answered
    <3>4. FitToFill(w[i], answers)
      <4>1. CASE w[i].value = Blank
        BY <3>2, <4>1 DEF FitToFill
      <4>2. CASE w[i].value = AnswerTo(m.field)
        <5>1. /\ w[i].value # Blank /\ w[i].value[2] = m.field
              /\ w[i].value[1] = "human" /\ Vouched(w[i].value)
          BY <4>2, Values DEF Vouched
        <5>2. QED
          BY <3>2, <5>1 DEF FitToFill
      <4>3. QED
        BY <3>2, <4>1, <4>2
    <3>5. QED
      BY <3>2, <3>4 DEF m
  <2>3. CASE ~(m.requires_human /\ m.field \in DOMAIN answers)
    <3>1. w[i] = m
      BY <1>2, <2>3 DEF WithAnswers
    <3>2. FitToFill(m, answers)
      BY <2>1 DEF FitToFill
    <3>3. QED
      BY <3>1, <3>2
  <2>4. QED
    BY <2>2, <2>3
<1>3. QED
  BY <1>1, <1>2

-----------------------------------------------------------------------------
(* The application *)

LEMMA StartKeepsInv ==
  ASSUME RunInv, NEW strong \in BOOLEAN, StartForm(strong)
  PROVE  RunInv'
<1>1. /\ run' = [pc |-> "detect", strong |-> strong, answers |-> <<>>, mappings |-> <<>>]
      /\ filled' = [page |-> <<>>, content |-> <<>>, moved |-> FALSE] /\ site' = site
  BY DEF StartForm, NoRun, NotFilled
<1>2. RunTypes'
  BY <1>1 DEF RunInv, RunTypes
<1>3. RunAnswers'
  BY <1>1 DEF RunAnswers
<1>4. RunMappings'
  BY <1>1, FS_EmptySet DEF RunMappings
<1>5. RunContent'
  BY <1>1 DEF RunContent, InPlace
<1>6. RunGate'
  BY <1>1 DEF RunGate
<1>7. QED
  BY <1>2, <1>3, <1>4, <1>5, <1>6 DEF RunInv

LEMMA AskKeepsInv ==
  ASSUME RunInv, AskUnknown
  PROVE  RunInv'
<1>1. /\ run.pc = "detect" /\ DOMAIN run.answers = {}
      /\ site' = site /\ filled' = filled
      /\ DOMAIN run' = DOMAIN run /\ run'.pc = "asked" /\ run'.strong = run.strong
      /\ run'.answers = run.answers /\ run'.mappings = run.mappings
  BY DEF RunInv, RunTypes, AskUnknown
<1>2. run.mappings = <<>> /\ filled.page = <<>> /\ filled.content = <<>>
  BY <1>1 DEF RunInv, RunAnswers
<1>3. RunTypes'
  BY <1>1 DEF RunInv, RunTypes
<1>4. RunAnswers'
  BY <1>1, <1>2 DEF RunAnswers
<1>5. RunMappings'
  BY <1>1, <1>2, FS_EmptySet DEF RunMappings
<1>6. RunContent'
  BY <1>1, <1>2 DEF RunContent, InPlace
<1>7. RunGate'
  BY <1>1 DEF RunGate
<1>8. QED
  BY <1>3, <1>4, <1>5, <1>6, <1>7 DEF RunInv

LEMMA AnswerKeepsInv ==
  ASSUME RunInv, AnswerUnknown
  PROVE  RunInv'
<1> DEFINE Given(named, null) == [k \in named |-> IF k \in null THEN Blank ELSE AnswerTo(k)]
<1>1. PICK named \in SUBSET AnswerKeys, null \in SUBSET AnswerKeys :
        run' = [run EXCEPT !.pc = "detect", !.answers = Given(named, null)]
  BY DEF AnswerUnknown
<1>2. /\ run.pc = "asked" /\ site' = site /\ filled' = filled
      /\ DOMAIN run' = DOMAIN run /\ run'.pc = "detect" /\ run'.strong = run.strong
      /\ run'.mappings = run.mappings /\ run'.answers = Given(named, null)
  BY <1>1 DEF RunInv, RunTypes, AnswerUnknown
<1>3. run.mappings = <<>> /\ filled.page = <<>> /\ filled.content = <<>>
  BY <1>2 DEF RunInv, RunAnswers
<1>4. RunTypes'
  BY <1>2 DEF RunInv, RunTypes
<1>5. RunAnswers'
  BY <1>2, <1>3 DEF RunAnswers
<1>6. RunMappings'
  BY <1>2, <1>3, FS_EmptySet DEF RunMappings
<1>7. RunContent'
  BY <1>2, <1>3 DEF RunContent, InPlace
<1>8. RunGate'
  BY <1>2 DEF RunGate
<1>9. QED
  BY <1>4, <1>5, <1>6, <1>7, <1>8 DEF RunInv

LEMMA MapKeepsInv ==
  ASSUME RunInv, DetectAndMap
  PROVE  RunInv'
<1> DEFINE w == WithAnswers(MappingsOf[site], run.answers)
<1>1. /\ run.pc = "detect" /\ site' = site
      /\ DOMAIN run' = DOMAIN run /\ run'.pc = "fill" /\ run'.strong = run.strong
      /\ run'.answers = run.answers /\ run'.mappings = w
      /\ DOMAIN filled' = DOMAIN filled /\ filled'.page = filled.page
      /\ filled'.content = filled.content /\ filled'.moved = FALSE
  BY DEF RunInv, RunTypes, DetectAndMap
<1>2. run.mappings = <<>> /\ filled.page = <<>> /\ filled.content = <<>>
  BY <1>1 DEF RunInv, RunAnswers
<1>3. /\ site \in Pages /\ DOMAIN w = DOMAIN MappingsOf[site]
      /\ \A i \in DOMAIN w : w[i].field = MappingsOf[site][i].field /\ FitToFill(w[i], run.answers)
  BY AnsweredMappings DEF RunInv, RunTypes, RunAnswers
<1>4. DOMAIN w \in SUBSET Nat /\ IsFiniteSet(DOMAIN w)
  BY <1>3, MappingsAreFinite
<1> HIDE DEF w
<1>5. RunTypes'
  BY <1>1, <1>2 DEF RunInv, RunTypes
<1>6. RunAnswers'
  BY <1>1 DEF RunInv, RunAnswers
<1>7. RunMappings'
  BY <1>1, <1>3, <1>4 DEF RunMappings
<1>8. RunContent'
  BY <1>1, <1>2 DEF RunContent, InPlace
<1>9. RunGate'
  BY <1>1 DEF RunGate
<1>10. QED
  BY <1>5, <1>6, <1>7, <1>8, <1>9 DEF RunInv

(* What the fill node leaves in the page is fit, in place, and complete if  *)
(* it did not raise.                                                        *)
LEMMA FillKeepsInv ==
  ASSUME RunInv, FillAndValidate
  PROVE  RunInv'
<1> DEFINE fields   == FieldsOf[site]
           mappings == run.mappings
           content  == FillForm(site, fields, mappings)
<1>1. /\ run.pc = "fill" /\ site' = site
      /\ DOMAIN run' = DOMAIN run /\ run'.strong = run.strong
      /\ run'.pc \in {"fill", "gate"} /\ (run'.pc = "gate" => ~FillRaises(fields, mappings))
      /\ run'.answers = run.answers /\ run'.mappings = mappings
      /\ DOMAIN filled' = DOMAIN filled /\ filled'.page = site
      /\ filled'.content = content /\ filled'.moved = filled.moved
  <2>1. \/ run' = run
        \/ run' = [run EXCEPT !.pc = "gate"] /\ ~FillRaises(fields, mappings)
    BY DEF FillAndValidate
  <2>2. filled' = [filled EXCEPT !.page = site, !.content = content]
    BY DEF FillAndValidate
  <2>3. run.pc = "fill" /\ site' = site
    BY DEF FillAndValidate
  <2> HIDE DEF content
  <2>4. QED
    BY <2>1, <2>2, <2>3 DEF RunInv, RunTypes
<1>2. /\ site \in Pages /\ DOMAIN mappings \in SUBSET Nat /\ IsFiniteSet(DOMAIN mappings)
      /\ \A i \in DOMAIN mappings : FitToFill(mappings[i], run.answers)
  BY DEF RunInv, RunTypes, RunMappings
<1>3. /\ DOMAIN content = DOMAIN site
      /\ \A j \in DOMAIN site : content[j] # Blank =>
           \E i \in Paired(fields, mappings) :
             /\ Written(mappings[i])
             /\ j = Min(Found(site, fields[i].selector))
             /\ content[j] = mappings[i].value
  BY <1>2, FillWrites
<1>4. ~filled.moved =>
        /\ DOMAIN mappings = DOMAIN MappingsOf[site]
        /\ \A i \in DOMAIN mappings : mappings[i].field = MappingsOf[site][i].field
  BY <1>1 DEF RunInv, RunMappings
<1>5. RunTypes'
  BY <1>1, <1>3 DEF RunInv, RunTypes
<1>6. RunAnswers'
  BY <1>1 DEF RunInv, RunAnswers
<1>7. RunMappings'
  BY <1>1 DEF RunInv, RunMappings
<1>8. RunContent'
  <2>1. ASSUME NEW j \in DOMAIN content, content[j] # Blank
        PROVE  /\ Vouched(content[j])
               /\ content[j][1] = "human" => \E k \in DOMAIN run.answers : run.answers[k] = content[j]
    <3>1. PICK i \in DOMAIN mappings : Written(mappings[i]) /\ content[j] = mappings[i].value
      BY <1>3, <2>1 DEF Paired
    <3>2. FitToFill(mappings[i], run.answers)
      BY <1>2
    <3>3. QED
      BY <3>1, <3>2 DEF FitToFill, Written, Answered
  <2>2. ASSUME ~filled.moved, site \in Identifiable PROVE InPlace(site, content)
    <3>1. \A i \in DOMAIN mappings :
            Written(mappings[i]) => mappings[i].value[2] = MappingsOf[site][i].field
      BY <1>2, <1>4, <2>2 DEF FitToFill, Written
    <3>2. QED
      BY <1>4, <2>2, <3>1, FillInPlace
  <2> HIDE DEF content
  <2>3. QED
    BY <1>1, <2>1, <2>2 DEF RunContent
<1>9. RunGate'
  <2>1. SUFFICES ASSUME run'.pc = "gate", ~filled.moved, site \in Identifiable
                 PROVE  Completed(site, content, mappings)
    <3> HIDE DEF content, mappings
    <3> QED
      BY <1>1 DEF RunGate, Completed
  <2>2. DOMAIN mappings = DOMAIN fields
    BY <1>2, <1>4, <2>1, FieldsOfPage
  <2>3. Uploads(fields, mappings) = {}
    BY <1>1, <2>1 DEF FillRaises
  <2>4. ASSUME NEW i \in DOMAIN mappings, Written(mappings[i]),
               Takes(site[Min(Found(site, fields[i].selector))], fields[i].type,
                     mappings[i].value)
        PROVE  content[Min(Found(site, fields[i].selector))] # Blank
    <3>1. PICK c \in Detected(site) : fields[i] = Field(site[c], i)
      BY <1>2, <2>2, FieldsOfPage
    <3>2. /\ Found(site, fields[i].selector) = {c}
          /\ Min(Found(site, fields[i].selector)) = c
      BY <2>1, <3>1, FoundAlone DEF Field
    <3>3. c \in DOMAIN site
      BY <1>2, DetectedIsFinite
    <3>4. Written(mappings[i]) /\ i \in Paired(fields, mappings)
      BY <2>2, <2>4 DEF Paired
    <3> HIDE DEF fields, mappings
    <3>5. FillForm(site, fields, mappings)[c] # Blank
      BY <1>2, <2>3, <2>4, <3>2, <3>3, <3>4, FillCompletes
    <3>6. QED
      BY <3>2, <3>5
  <2>5. QED
    BY <2>2, <2>4 DEF Completed
<1>10. QED
  BY <1>5, <1>6, <1>7, <1>8, <1>9 DEF RunInv

LEMMA ApprovalKeepsInv ==
  ASSUME RunInv, NEW mode \in Modes, ManualApproval(mode)
  PROVE  RunInv'
<1>1. /\ run.pc = "gate" /\ site' = site /\ filled' = filled
      /\ DOMAIN run' = DOMAIN run /\ run'.pc \in {"by_mode", "by_hybrid", "approval"}
      /\ run'.strong = run.strong /\ run'.answers = run.answers
      /\ run'.mappings = run.mappings
      /\ run'.pc = "by_hybrid" => HybridAutoApproves
  BY DEF RunInv, RunTypes, ManualApproval
<1>2. RunTypes'
  BY <1>1 DEF RunInv, RunTypes
<1>3. RunAnswers'
  BY <1>1 DEF RunInv, RunAnswers
<1>4. RunMappings'
  BY <1>1 DEF RunInv, RunMappings
<1>5. RunContent'
  BY <1>1 DEF RunInv, RunContent
<1>6. RunGate'
  BY <1>1 DEF RunInv, RunGate, HybridAutoApproves, Unknown, Completed
<1>7. QED
  BY <1>2, <1>3, <1>4, <1>5, <1>6 DEF RunInv

LEMMA DecideKeepsInv ==
  ASSUME RunInv, Decide
  PROVE  RunInv'
<1>1. /\ run.pc = "approval" /\ site' = site /\ filled' = filled
      /\ DOMAIN run' = DOMAIN run /\ run'.pc = "by_human"
      /\ run'.strong = run.strong /\ run'.answers = run.answers
      /\ run'.mappings = run.mappings
  BY DEF RunInv, RunTypes, Decide
<1>2. RunTypes'
  BY <1>1 DEF RunInv, RunTypes
<1>3. RunAnswers' /\ RunMappings' /\ RunContent'
  BY <1>1 DEF RunInv, RunAnswers, RunMappings, RunContent
<1>4. RunGate'
  BY <1>1 DEF RunInv, RunGate, Completed
<1>5. QED
  BY <1>2, <1>3, <1>4 DEF RunInv

LEMMA ChangeKeepsInv ==
  ASSUME RunInv, FormChanges
  PROVE  RunInv'
<1>1. /\ run' = run /\ site' \in Pages
      /\ DOMAIN filled' = DOMAIN filled /\ filled'.page = filled.page
      /\ filled'.content = filled.content
      /\ filled'.moved = (filled.moved \/ run.pc = "fill")
  BY DEF RunInv, RunTypes, FormChanges, SiteChanges
<1>2. filled'.moved \in BOOLEAN /\ (~filled'.moved => ~filled.moved /\ run.pc # "fill")
  BY <1>1
<1>3. RunTypes'
  BY <1>1, <1>2 DEF RunInv, RunTypes
<1>4. RunAnswers'
  BY <1>1 DEF RunInv, RunAnswers
<1>5. RunMappings'
  BY <1>1, <1>2 DEF RunInv, RunMappings
<1>6. RunContent'
  BY <1>1, <1>2 DEF RunInv, RunContent
<1>7. RunGate'
  BY <1>1, <1>2 DEF RunInv, RunGate, Unknown, Completed
<1>8. QED
  BY <1>3, <1>4, <1>5, <1>6, <1>7 DEF RunInv

LEMMA ApplicationKeepsInv ==
  ASSUME RunInv, [ApplyFormNext \/ FormChanges]_<<site, run, filled>>
  PROVE  RunInv'
<1>1. ASSUME NEW strong \in BOOLEAN, StartForm(strong) PROVE RunInv'
  BY <1>1, StartKeepsInv
<1>2. CASE AskUnknown
  BY <1>2, AskKeepsInv
<1>3. CASE DetectAndMap
  BY <1>3, MapKeepsInv
<1>4. CASE FillAndValidate
  BY <1>4, FillKeepsInv
<1>5. ASSUME NEW mode \in Modes, ManualApproval(mode) PROVE RunInv'
  BY <1>5, ApprovalKeepsInv
<1>6. CASE AnswerUnknown
  BY <1>6, AnswerKeepsInv
<1>7. CASE Decide
  BY <1>7, DecideKeepsInv
<1>8. CASE FormChanges
  BY <1>8, ChangeKeepsInv
<1>9. CASE UNCHANGED <<site, run, filled>>
  BY <1>9 DEF RunInv, RunTypes, RunAnswers, RunMappings, RunContent, RunGate, Unknown, Completed
<1>10. QED
  BY <1>1, <1>2, <1>3, <1>4, <1>5, <1>6, <1>7, <1>8, <1>9 DEF ApplyFormNext, RunForm

-----------------------------------------------------------------------------
(* The adapter *)

(* What a prepare does to stack and browsers.                               *)
LEMMA ReplaceFacts ==
  ASSUME AdapterTypes, AdapterBrowsers, Replace
  PROVE  /\ replaced' = browsers /\ NoBrowser \notin browsers
BY BrowserAssumption DEF AdapterTypes, AdapterBrowsers, Replace

LEMMA LaunchFailsKeepsInv ==
  ASSUME AdapterInv, LaunchFails
  PROVE  AdapterInv'
<1>1. /\ caller' = "failed" /\ browsers' = browsers
      /\ adapter' = [adapter EXCEPT !.stack = [open |-> TRUE, browser |-> NoBrowser]]
      /\ replaced' = browsers /\ NoBrowser \notin browsers
  BY ReplaceFacts DEF AdapterInv, LaunchFails
<1>2. /\ DOMAIN adapter' = DOMAIN adapter /\ adapter'.page = adapter.page
      /\ adapter'.fields = adapter.fields /\ adapter'.mappings = adapter.mappings
      /\ adapter'.stack = [open |-> TRUE, browser |-> NoBrowser]
  BY <1>1 DEF AdapterInv, AdapterTypes
<1>3. AdapterTypes'
  BY <1>1, <1>2 DEF AdapterInv, AdapterTypes
<1>4. AdapterBrowsers'
  BY <1>1, <1>2 DEF AdapterInv, AdapterBrowsers
<1>5. AdapterMappings' /\ AdapterContent'
  BY <1>1, <1>2 DEF AdapterInv, AdapterMappings, AdapterContent
<1>6. QED
  BY <1>3, <1>4, <1>5 DEF AdapterInv

LEMMA PrepareFailsKeepsInv ==
  ASSUME AdapterInv, PrepareFails
  PROVE  AdapterInv'
<1>0. PICK b \in Browser :
        /\ Launch(b)
        /\ \E page \in {adapter.page, Opened(b, <<>>), Opened(b, site)} :
             adapter' = [adapter EXCEPT !.stack = [open |-> TRUE, browser |-> b], !.page = page]
  BY DEF PrepareFails
<1>1. PICK page \in {adapter.page, Opened(b, <<>>), Opened(b, site)} :
        adapter' = [adapter EXCEPT !.stack = [open |-> TRUE, browser |-> b], !.page = page]
  BY <1>0
<1>2. /\ caller' = "failed" /\ browsers' = browsers \cup {b}
      /\ replaced' = browsers /\ b \notin browsers
      /\ DOMAIN adapter' = DOMAIN adapter
      /\ adapter'.fields = adapter.fields /\ adapter'.mappings = adapter.mappings
      /\ adapter'.stack = [open |-> TRUE, browser |-> b] /\ adapter'.page = page
  BY <1>0, <1>1, ReplaceFacts DEF AdapterInv, AdapterTypes, PrepareFails, Launch
<1>3. /\ DOMAIN page = {"open", "browser", "form", "content"} /\ page.open \in BOOLEAN
      /\ DOMAIN page.content = DOMAIN page.form
      /\ page = adapter.page \/ \A j \in DOMAIN page.content : page.content[j] = Blank
  <2>1. CASE page = adapter.page
    BY <2>1 DEF AdapterInv, AdapterTypes
  <2>2. CASE page = Opened(b, <<>>)
    BY <2>2 DEF Opened, Blanked
  <2>3. CASE page = Opened(b, site)
    BY <2>3 DEF Opened, Blanked
  <2>4. QED
    BY <1>1, <2>1, <2>2, <2>3
<1>4. AdapterTypes'
  BY <1>2, <1>3 DEF AdapterInv, AdapterTypes
<1>5. AdapterBrowsers'
  BY <1>2 DEF AdapterBrowsers
<1>6. AdapterMappings' /\ AdapterContent'
  BY <1>2, <1>3 DEF AdapterInv, AdapterMappings, AdapterContent
<1>7. QED
  BY <1>4, <1>5, <1>6 DEF AdapterInv

LEMMA PrepareKeepsInv ==
  ASSUME AdapterInv, site \in Pages, Prepare
  PROVE  AdapterInv'
<1>1. PICK b \in Browser :
        /\ Launch(b)
        /\ adapter' = [stack    |-> [open |-> TRUE, browser |-> b],
                       page     |-> Opened(b, site),
                       fields   |-> FieldsOf[site],
                       mappings |-> MappingsOf[site]]
  BY DEF Prepare
<1>2. /\ caller' = "prepared" /\ browsers' = browsers \cup {b}
      /\ replaced' = browsers /\ b \notin browsers
  BY <1>1, ReplaceFacts DEF AdapterInv, Prepare, Launch
<1>3. /\ DOMAIN adapter' = {"stack", "page", "fields", "mappings"}
      /\ adapter'.stack = [open |-> TRUE, browser |-> b] /\ adapter'.page = Opened(b, site)
      /\ adapter'.fields = FieldsOf[site] /\ adapter'.mappings = MappingsOf[site]
  BY <1>1
<1>4. /\ DOMAIN adapter'.page = {"open", "browser", "form", "content"}
      /\ adapter'.page.open = TRUE /\ adapter'.page.form = site
      /\ DOMAIN adapter'.page.content = DOMAIN site
      /\ \A j \in DOMAIN site : adapter'.page.content[j] = Blank
      /\ InPlace(site, adapter'.page.content)
  <2> DEFINE page == Opened(b, site)
  <2>1. /\ DOMAIN page = {"open", "browser", "form", "content"}
        /\ page.open = TRUE /\ page.form = site /\ DOMAIN page.content = DOMAIN site
        /\ \A j \in DOMAIN site : page.content[j] = Blank
        /\ InPlace(site, page.content)
    BY DEF Opened, Blanked, InPlace
  <2> HIDE DEF page
  <2>2. QED
    BY <1>3, <2>1 DEF page
<1>5. AdapterTypes'
  <2>1. DOMAIN FieldsOf[site] = DOMAIN MappingsOf[site]
    BY FieldsOfPage
  <2>2. /\ DOMAIN adapter'.stack = {"open", "browser"} /\ adapter'.stack.open = TRUE
        /\ adapter'.stack.browser = b
    BY <1>3
  <2>3. browsers' \subseteq Browser /\ replaced' \subseteq browsers'
    BY <1>2 DEF AdapterInv, AdapterTypes
  <2>4. QED
    BY <1>2, <1>3, <1>4, <2>1, <2>2, <2>3 DEF AdapterTypes
<1>6. AdapterBrowsers'
  BY <1>2, <1>3 DEF AdapterBrowsers
<1>7. AdapterMappings'
  BY <1>2, <1>3, <1>4 DEF AdapterMappings
<1>8. AdapterContent'
  BY <1>2, <1>4 DEF AdapterContent
<1>9. QED
  BY <1>5, <1>6, <1>7, <1>8 DEF AdapterInv

(* On any page, the mappings of whatever application was prepared last.     *)
LEMMA FillApplicationKeepsInv ==
  ASSUME AdapterInv, Fill
  PROVE  AdapterInv'
<1> DEFINE form     == adapter.page.form
           fields   == adapter.fields
           mappings == adapter.mappings
           content  == FillForm(form, fields, mappings)
<1>1. /\ browsers' = browsers /\ caller' = caller /\ replaced' = replaced
      /\ adapter' = adapter \/ adapter' = [adapter EXCEPT !.page.content = content]
  BY DEF Fill
<1>2. CASE adapter' = adapter
  BY <1>1, <1>2 DEF AdapterInv, AdapterTypes, AdapterBrowsers, AdapterMappings, AdapterContent
<1>3. CASE adapter' = [adapter EXCEPT !.page.content = content]
  <2>1. /\ DOMAIN mappings \in SUBSET Nat /\ IsFiniteSet(DOMAIN mappings)
        /\ \A i \in DOMAIN mappings : Written(mappings[i]) =>
             /\ Vouched(mappings[i].value)
             /\ mappings[i].value[1] = "profile" /\ mappings[i].value[2] = mappings[i].field
    <3>1. CASE mappings = <<>>
      BY <3>1, FS_EmptySet
    <3>2. ASSUME NEW p \in Pages, mappings = MappingsOf[p] PROVE <2>1!1 /\ <2>1!2
      BY <3>2, MappingsAreFinite, MappedFromProfile DEF Written
    <3>3. QED
      BY <3>1, <3>2 DEF AdapterInv, AdapterMappings
  <2>2. /\ DOMAIN content = DOMAIN form
        /\ \A j \in DOMAIN form : content[j] # Blank =>
             \E i \in Paired(fields, mappings) :
               Written(mappings[i]) /\ content[j] = mappings[i].value
    BY <2>1, FillWrites
  <2>3. \A j \in DOMAIN content : content[j] # Blank =>
          Vouched(content[j]) /\ content[j][1] = "profile"
    BY <2>1, <2>2 DEF Paired
  <2>4. caller = "prepared" /\ form \in Identifiable => InPlace(form, content)
    <3>1. SUFFICES ASSUME caller = "prepared", form \in Identifiable PROVE InPlace(form, content)
      OBVIOUS
    <3>2. fields = FieldsOf[form] /\ mappings = MappingsOf[form]
      BY <3>1 DEF AdapterInv, AdapterMappings
    <3>3. \A i \in DOMAIN mappings :
            Written(mappings[i]) => mappings[i].value[2] = MappingsOf[form][i].field
      BY <2>1, <3>2
    <3>4. QED
      BY <3>1, <3>2, <3>3, FillInPlace
  <2> HIDE DEF content
  <2>5. /\ DOMAIN adapter' = DOMAIN adapter /\ adapter'.stack = adapter.stack
        /\ adapter'.fields = adapter.fields /\ adapter'.mappings = adapter.mappings
        /\ DOMAIN adapter'.page = DOMAIN adapter.page /\ adapter'.page.open = adapter.page.open
        /\ adapter'.page.form = form /\ adapter'.page.content = content
    BY <1>3 DEF AdapterInv, AdapterTypes
  <2>6. AdapterTypes'
    BY <1>1, <2>2, <2>5 DEF AdapterInv, AdapterTypes
  <2>7. AdapterBrowsers' /\ AdapterMappings'
    BY <1>1, <2>5 DEF AdapterInv, AdapterBrowsers, AdapterMappings
  <2>8. AdapterContent'
    BY <1>1, <2>3, <2>4, <2>5 DEF AdapterContent
  <2>9. QED
    BY <2>6, <2>7, <2>8 DEF AdapterInv
<1>4. QED
  BY <1>1, <1>2, <1>3

LEMMA CloseKeepsInv ==
  ASSUME AdapterInv, Close
  PROVE  AdapterInv'
<1>1. CASE ~adapter.stack.open
  <2>1. UNCHANGED <<adapter, browsers, replaced>> /\ caller' = "between"
    BY <1>1 DEF Close
  <2>2. NoBrowser \notin browsers
    BY BrowserAssumption DEF AdapterInv, AdapterTypes
  <2>3. QED
    BY <1>1, <2>1, <2>2
       DEF AdapterInv, AdapterTypes, AdapterBrowsers, AdapterMappings, AdapterContent
<1>2. CASE adapter.stack.open
  <2>1. /\ caller' = "between" /\ browsers' = browsers \ {adapter.stack.browser}
        /\ replaced' = replaced
        /\ adapter' = [adapter EXCEPT !.stack = NoStack, !.page = NoPage]
    BY <1>2 DEF Close
  <2>2. /\ DOMAIN adapter' = DOMAIN adapter
        /\ adapter'.fields = adapter.fields /\ adapter'.mappings = adapter.mappings
        /\ adapter'.stack = NoStack /\ adapter'.page = NoPage
    BY <2>1 DEF AdapterInv, AdapterTypes
  <2>3. AdapterTypes'
    BY <2>1, <2>2 DEF AdapterInv, AdapterTypes, AdapterBrowsers, NoStack, NoPage
  <2>4. AdapterBrowsers'
    BY <2>1, <2>2, BrowserAssumption DEF AdapterInv, AdapterTypes, AdapterBrowsers, NoStack
  <2>5. AdapterMappings' /\ AdapterContent'
    BY <2>1, <2>2 DEF AdapterInv, AdapterMappings, AdapterContent, NoPage
  <2>6. QED
    BY <2>3, <2>4, <2>5 DEF AdapterInv
<1>3. QED
  BY <1>1, <1>2 DEF AdapterInv, AdapterTypes

LEMMA CloseFailsKeepsInv ==
  ASSUME AdapterInv, CloseFails
  PROVE  AdapterInv'
<1>1. /\ caller' = "between" /\ browsers' = browsers \ {adapter.stack.browser}
      /\ replaced' = replaced
      /\ DOMAIN adapter' = DOMAIN adapter /\ adapter'.page = adapter.page
      /\ adapter'.fields = adapter.fields /\ adapter'.mappings = adapter.mappings
      /\ DOMAIN adapter'.stack = DOMAIN adapter.stack
      /\ adapter'.stack.open = adapter.stack.open /\ adapter'.stack.browser = NoBrowser
  BY DEF CloseFails, AdapterInv, AdapterTypes
<1>2. AdapterTypes'
  BY <1>1 DEF AdapterInv, AdapterTypes, AdapterBrowsers
<1>3. AdapterBrowsers' /\ AdapterMappings' /\ AdapterContent'
  BY <1>1, BrowserAssumption
     DEF AdapterInv, AdapterTypes, AdapterBrowsers, AdapterMappings, AdapterContent
<1>4. QED
  BY <1>2, <1>3 DEF AdapterInv

LEMMA AdapterKeepsInv ==
  ASSUME AdapterInv, site \in Pages, [AdapterNext]_adapterVars
  PROVE  AdapterInv'
<1>1. CASE LaunchFails
  BY <1>1, LaunchFailsKeepsInv
<1>2. CASE PrepareFails
  BY <1>2, PrepareFailsKeepsInv
<1>3. CASE Prepare
  BY <1>3, PrepareKeepsInv
<1>4. CASE Fill
  BY <1>4, FillApplicationKeepsInv
<1>5. CASE Close
  BY <1>5, CloseKeepsInv
<1>6. CASE CloseFails
  BY <1>6, CloseFailsKeepsInv
<1>7. CASE UNCHANGED adapterVars
  BY <1>7 DEF adapterVars, AdapterInv, AdapterTypes, AdapterBrowsers, AdapterMappings, AdapterContent
<1>8. QED
  BY <1>1, <1>2, <1>3, <1>4, <1>5, <1>6, <1>7 DEF AdapterNext

-----------------------------------------------------------------------------
(* Theorems *)

LEMMA InitInv ==
  ASSUME Init
  PROVE  RunInv /\ AdapterInv
<1>1. /\ site \in Pages /\ browsers = {} /\ caller = "between" /\ replaced = {}
      /\ run = [pc |-> "idle", strong |-> FALSE, answers |-> <<>>, mappings |-> <<>>]
      /\ filled = [page |-> <<>>, content |-> <<>>, moved |-> FALSE]
      /\ adapter = [stack |-> [open |-> FALSE, browser |-> NoBrowser],
                    page |-> [open |-> FALSE, browser |-> NoBrowser, form |-> <<>>,
                              content |-> <<>>],
                    fields |-> <<>>, mappings |-> <<>>]
  BY DEF Init, ApplyFormInit, NoRun, NotFilled, AdapterInit, Fresh, NoStack, NoPage
<1>2. RunTypes /\ RunAnswers
  BY <1>1 DEF RunTypes, RunAnswers
<1>3. RunMappings
  BY <1>1, FS_EmptySet DEF RunMappings
<1>4. RunContent /\ RunGate
  BY <1>1 DEF RunContent, RunGate, InPlace
<1>5. AdapterTypes
  BY <1>1 DEF AdapterTypes
<1>6. AdapterBrowsers
  BY <1>1 DEF AdapterBrowsers
<1>7. AdapterMappings /\ AdapterContent
  BY <1>1 DEF AdapterMappings, AdapterContent, InPlace
<1>8. QED
  BY <1>2, <1>3, <1>4, <1>5, <1>6, <1>7 DEF RunInv, AdapterInv

(* The clients share nothing but the page, and only the portal changes it.  *)
LEMMA StepKeepsInv ==
  ASSUME RunInv, AdapterInv, [Next]_vars
  PROVE  RunInv' /\ AdapterInv'
<1>1. site \in Pages
  BY DEF RunInv, RunTypes
<1>2. CASE ApplyFormNext /\ UNCHANGED adapterVars
  BY <1>1, <1>2, ApplicationKeepsInv, AdapterKeepsInv
<1>3. CASE AdapterNext /\ UNCHANGED applyVars
  <2>1. site' = site
    BY <1>3 DEF AdapterNext, LaunchFails, PrepareFails, Prepare, Fill, Close, CloseFails
  <2>2. QED
    BY <1>1, <1>3, <2>1, ApplicationKeepsInv, AdapterKeepsInv DEF applyVars
<1>4. CASE FormChanges /\ UNCHANGED adapterVars
  BY <1>1, <1>4, ApplicationKeepsInv, AdapterKeepsInv
<1>5. CASE UNCHANGED vars
  BY <1>1, <1>5, ApplicationKeepsInv, AdapterKeepsInv DEF vars, adapterVars
<1>6. QED
  BY <1>2, <1>3, <1>4, <1>5 DEF Next

(* The inductive invariant of the two clients: mappings and contents are    *)
(* fit to be in a form and in their controls, an answer among them is the   *)
(* one given to its key, and the stack of the adapter knows every browser   *)
(* that runs and was not replaced.                                          *)
THEOREM ClientsInvariant == Spec => [](RunInv /\ AdapterInv)
<1>1. Init => RunInv /\ AdapterInv
  BY InitInv
<1>2. (RunInv /\ AdapterInv) /\ [Next]_vars => (RunInv /\ AdapterInv)'
  BY StepKeepsInv
<1>3. QED
  BY <1>1, <1>2, PTL DEF Spec

(* Types, for every page and profile: every control of a page has a value,  *)
(* an adapter's lists are of one length, a replaced browser runs.           *)
THEOREM TypeCorrect == Spec => []TypeOK
<1>1. RunInv /\ AdapterInv => TypeOK
  BY DEF TypeOK, RunInv, RunTypes, RunAnswers, AdapterInv, AdapterTypes
<1>2. QED
  BY <1>1, ClientsInvariant, PTL

(* browser/models.py:3-5: no control of a form ever has a value that is not *)
(* vouched for by the profile or an answer given to this application.       *)
THEOREM OnlyVouchedOrAnsweredHolds == Spec => []OnlyVouchedOrAnswered
<1>1. RunInv /\ AdapterInv => OnlyVouchedOrAnswered
  BY DEF OnlyVouchedOrAnswered, RunInv, RunContent, AdapterInv, AdapterContent
<1>2. QED
  BY <1>1, ClientsInvariant, PTL

(* forms.py:165: in a form that tells its controls apart every value is in  *)
(* the control it was mapped for.                                           *)
THEOREM ValuesInPlaceHolds == Spec => []ValuesInPlace
<1>1. RunInv /\ AdapterInv => ValuesInPlace
  BY DEF ValuesInPlace, RunInv, RunContent, AdapterInv, AdapterContent
<1>2. QED
  BY <1>1, ClientsInvariant, PTL

(* apply_nodes.py:115-135: hybrid mode lets no form through that has an     *)
(* empty control for one of its fields, unless the control refused it or    *)
(* the operator answered it with null.                                      *)
THEOREM HybridLeavesNoGapsHolds == Spec => []HybridLeavesNoGaps
<1>1. RunInv => HybridLeavesNoGaps
  <2>1. SUFFICES ASSUME RunInv, run.pc = "by_hybrid", ~filled.moved,
                        filled.page \in Identifiable, NEW i \in DOMAIN FieldsOf[filled.page]
                 PROVE  LET field == FieldsOf[filled.page][i]
                            j     == Min(Found(filled.page, field.selector))
                               m     == run.mappings[i]
                           IN \/ filled.content[j] # Blank
                              \/ ~Takes(filled.page[j], field.type, m.value)
                              \/ Answered(m.field, Blank, run.answers)
    BY DEF HybridLeavesNoGaps, Answered
  <2>2. Completed(filled.page, filled.content, run.mappings) /\ Unknown(run.mappings) = {}
    BY <2>1 DEF RunInv, RunGate
  <2>3. i \in DOMAIN run.mappings /\ ~run.mappings[i].requires_human
    BY <2>1, <2>2 DEF Completed, Unknown
  <2>4. Written(run.mappings[i]) \/ Answered(run.mappings[i].field, Blank, run.answers)
    BY <2>1, <2>3 DEF RunInv, RunMappings, FitToFill, Written
  <2>5. QED
    BY <2>2, <2>3, <2>4 DEF Completed
<1>2. QED
  BY <1>1, ClientsInvariant, PTL

(* manager.py:3-4: wherever an application stopped, once it was closed no   *)
(* browser is left but one whose stack a prepare without a close replaced.  *)
THEOREM NoBrowserLeftBehindHolds == Spec => []NoBrowserLeftBehind
<1>1. AdapterInv => NoBrowserLeftBehind
  BY DEF NoBrowserLeftBehind, AdapterInv, AdapterBrowsers
<1>2. QED
  BY <1>1, ClientsInvariant, PTL
=============================================================================
