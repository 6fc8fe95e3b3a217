----------------------------- MODULE FormFilling -----------------------------
(***************************************************************************)
(* The pages application forms are on, and what app/browser makes of one:  *)
(* the fields it detects, what the candidate's profile has for each, and   *)
(* what filling puts into which control.  ApplyForm and PortalAdapter are  *)
(* the two clients.                                                        *)
(*                                                                         *)
(* A text is what the patterns find in it.  A value is where it comes      *)
(* from: the profile's entry of a key, or the operator's answer to one.    *)
(* Confidences are in hundredths.                                          *)
(***************************************************************************)
EXTENDS Naturals, Sequences, FiniteSetsExt

CONSTANTS
  Pages,        \* what an application page may show: controls in document order
  Says,         \* [texts -> SUBSET Patterns]: the patterns that match in a text
  NoText,       \* no label, or no placeholder
  FieldN,       \* the names of fields that have none: field_0, field_1, ...
  Profile,      \* the candidate profile
  Threshold     \* form_mapping_confidence_threshold

(* _FIELD_PATTERNS: the first that matches wins.                           *)
PatternOrder ==
  <<"email", "phone", "name", "experience_years", "current_title", "location",
    "work_mode", "work_authorization",
    "gender", "ethnicity", "disability", "veteran_status", "religion",
    "security_clearance", "criminal_history", "linkedin_url">>

ResumeKeys == {"email", "phone", "name", "experience_years", "current_title", "location"}

(* _normalize_type; "hidden" stands for an input that is not detected: a   *)
(* hidden one, a button, one that is not visible.                          *)
FieldTypes == {"text", "email", "tel", "number", "textarea", "select", "checkbox",
               "radio", "file", "unknown"}

(* The attributes a selector is built from, in build_selector's order.     *)
MarkOrder == <<"testid", "aria_label", "name", "id">>

ASSUME FormAssumption ==
  /\ \A p \in Pages :
       /\ Len(p) \in Nat /\ DOMAIN p = 1 .. Len(p)
       /\ \A j \in DOMAIN p : DOMAIN p[j].marks \subseteq {MarkOrder[k] : k \in DOMAIN MarkOrder}
  /\ NoText \in DOMAIN Says /\ Says[NoText] = {}
  /\ Profile.resume \in [DOMAIN Profile.resume -> 0 .. 100]
  /\ DOMAIN Profile.resume \subseteq ResumeKeys
  /\ Profile.work_mode \in BOOLEAN /\ Profile.work_authorization \in BOOLEAN
  /\ Threshold \in 0 .. 100

VARIABLE site   \* what the page a client opens next shows

(* A portal changes its form, or another application is the next one.      *)
SiteChanges == site' \in Pages \ {site}

-----------------------------------------------------------------------------
(* Detection *)

Detectable(e) == e.type \in FieldTypes

(* build_selector: one attribute, or else the label or the placeholder, or *)
(* else a place among the inputs of the page.                              *)
Selector(e, i) ==
  LET marked == {k \in DOMAIN MarkOrder : MarkOrder[k] \in DOMAIN e.marks}
  IN IF marked # {}
     THEN <<MarkOrder[Min(marked)], e.marks[MarkOrder[Min(marked)]]>>
     ELSE IF e.label # NoText THEN <<"text", e.label>>
     ELSE IF e.placeholder # NoText THEN <<"text", e.placeholder>>
     ELSE <<"nth", i>>

FieldName(e, i) ==
  CASE "name" \in DOMAIN e.marks -> e.marks["name"]
    [] "name" \notin DOMAIN e.marks /\ "id" \in DOMAIN e.marks -> e.marks["id"]
    [] OTHER -> FieldN[i]

(* A DetectedField, as map_field and fill_form see it.                     *)
Field(e, i) == [name     |-> FieldName(e, i),
                says     |-> Says[e.label] \cup Says[e.placeholder],
                type     |-> e.type,
                selector |-> Selector(e, i)]

Detected(page) == {j \in DOMAIN page : Detectable(page[j])}

(* The place of a control among the detected.                              *)
Place(page, j) == Cardinality({k \in Detected(page) : k <= j})

DetectFields(page) ==
  [i \in 1 .. Cardinality(Detected(page)) |->
     Field(page[CHOOSE j \in Detected(page) : Place(page, j) = i], i)]

-----------------------------------------------------------------------------
(* Mapping *)

Blank        == <<"blank">>
OnRecord(k)  == <<"profile", k>>
AnswerTo(k)  == <<"human", k>>

(* The getters: what the profile has on file, and how sure it is.          *)
OnFile(k) ==
  \/ k \in ResumeKeys /\ k \in DOMAIN Profile.resume
  \/ k = "work_mode" /\ Profile.work_mode
  \/ k = "work_authorization" /\ Profile.work_authorization

Confidence(k) ==
  IF k \in ResumeKeys THEN Profile.resume[k] ELSE IF k = "work_mode" THEN 80 ELSE 95

Unmapped(k) == [field |-> k, value |-> Blank, confidence |-> 0, requires_human |-> TRUE]

Mapped(k) ==
  [field |-> k, value |-> OnRecord(k), confidence |-> Confidence(k),
   requires_human |-> Confidence(k) < Threshold]

MapField(f) ==
  LET hits == {k \in DOMAIN PatternOrder : PatternOrder[k] \in f.says}
      key  == PatternOrder[Min(hits)]
  IN IF hits = {} THEN Unmapped(f.name)
     ELSE IF OnFile(key) THEN Mapped(key) ELSE Unmapped(key)

MapFields(fields) == [i \in DOMAIN fields |-> MapField(fields[i])]

(* What detection finds on a page, and what mapping makes of it.           *)
FieldsOf   == [p \in Pages |-> DetectFields(p)]
MappingsOf == [p \in Pages |-> MapFields(FieldsOf[p])]

Unknown(mappings) == {i \in DOMAIN mappings : mappings[i].requires_human}

-----------------------------------------------------------------------------
(* Filling *)

IsInput(e) == e.type \notin {"select", "textarea"}

(* page.locator(selector).first: a text leads to the control it labels.    *)
Found(page, selector) ==
  {j \in DOMAIN page :
     CASE selector[1] = "text" -> page[j].label = selector[2]
       [] selector[1] = "nth"  -> /\ IsInput(page[j])
                                  /\ Cardinality({k \in 1 .. j : IsInput(page[k])}) = selector[2]
       [] OTHER -> /\ selector[1] \in DOMAIN page[j].marks
                   /\ page[j].marks[selector[1]] = selector[2]}

(* A control takes what its kind is handled by, and refuses what it has no *)
(* option for, in whatever case, or what is not in its format.             *)
Takes(e, type, value) ==
  /\ value \notin e.refuses
  /\ CASE type = "select"   -> e.type = "select"
       [] type = "checkbox" -> e.type \in {"checkbox", "radio"}
       [] OTHER -> e.type \in {"text", "email", "tel", "number", "textarea", "unknown"}

(* What fill_form does not skip.                                           *)
Written(m) == ~m.requires_human /\ m.value # Blank

Paired(fields, mappings) == DOMAIN fields \cap DOMAIN mappings

Uploads(fields, mappings) ==
  {i \in Paired(fields, mappings) : fields[i].type = "file" /\ Written(mappings[i])}

(* Mutant of FillRaises: one field that cannot be filled fails the form.   *)
FillRaisesOnAnyError(fields, mappings) ==
  Len(fields) # Len(mappings) \/ \E i \in DOMAIN mappings : ~Written(mappings[i])

(* zip(strict=True) at its end, and a file field with a value.             *)
FillRaises(fields, mappings) ==
  Len(fields) # Len(mappings) \/ Uploads(fields, mappings) # {}

(* Mutant of FillForm: the fields the human keeps are dropped before the   *)
(* two lists are paired.                                                   *)
FillFormCompacted(page, fields, mappings) ==
  LET written == SelectSeq(mappings, Written)
      Into(i, j) == /\ Found(page, fields[i].selector) # {}
                    /\ j = Min(Found(page, fields[i].selector))
                    /\ Takes(page[j], fields[i].type, written[i].value)
  IN [j \in DOMAIN page |->
        LET writers == {i \in Paired(fields, written) : Into(i, j)}
        IN IF writers = {} THEN Blank ELSE written[Max(writers)].value]

(* Mutant of FillForm: the values of the fields instead of the controls.   *)
FillFormByField(page, fields, mappings) ==
  [i \in DOMAIN mappings |-> IF Written(mappings[i]) THEN mappings[i].value ELSE Blank]

(* fill_form pairs fields and mappings by position.  A field that cannot   *)
(* be filled is an error entry and the next one is tried; a file field     *)
(* ends it.  The value of each control of the page:                        *)
FillForm(page, fields, mappings) ==
  LET Into(i, j) == /\ Written(mappings[i])
                    /\ \A u \in Uploads(fields, mappings) : i < u
                    /\ Found(page, fields[i].selector) # {}
                    /\ j = Min(Found(page, fields[i].selector))
                    /\ Takes(page[j], fields[i].type, mappings[i].value)
  IN [j \in DOMAIN page |->
        LET writers == {i \in Paired(fields, mappings) : Into(i, j)}
        IN IF writers = {} THEN Blank ELSE mappings[Max(writers)].value]

-----------------------------------------------------------------------------
(* For the properties *)

(* The attributes tell the controls of a page apart, and a control without *)
(* one has a label of its own.                                             *)
Identifiable ==
  {p \in Pages : \A j \in Detected(p) :
     /\ \A k \in DOMAIN p \ {j} :
          /\ \A a \in DOMAIN p[j].marks \cap DOMAIN p[k].marks : p[j].marks[a] # p[k].marks[a]
          /\ DOMAIN p[j].marks = {} => p[j].label # p[k].label
     /\ DOMAIN p[j].marks = {} => p[j].label # NoText}

(* The value in a control is that of the key its own mapping has.          *)
InPlace(page, content) ==
  \A j \in DOMAIN page : content[j] # Blank =>
    j \in Detected(page) /\ content[j][2] = MappingsOf[page][Place(page, j)].field
=============================================================================
