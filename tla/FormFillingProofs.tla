-------------------------- MODULE FormFillingProofs --------------------------
(* What detection, mapping and filling do, for all pages, texts, profiles   *)
(* and thresholds.  FormClientsProofs builds on it.                         *)
EXTENDS FormFilling, FiniteSetTheorems, FunctionTheorems, WellFoundedInduction, TLAPS

-----------------------------------------------------------------------------
(* Sets of numbers *)

(* A finite set of numbers has a greatest: what is above a number shrinks   *)
(* strictly with it.                                                        *)
LEMMA MaxIsMember ==
  ASSUME NEW S \in SUBSET Nat, IsFiniteSet(S), S # {}
  PROVE  Max(S) \in S
<1> DEFINE Above(x) == {y \in S : y > x}
           Aboves   == {Above(x) : x \in S}
<1>1. Aboves \subseteq FiniteSubsetsOf(S) /\ Aboves # {}
  <2>1. \A x \in S : Above(x) \in SUBSET S /\ IsFiniteSet(Above(x))
    BY FS_Subset
  <2>2. QED
    BY <2>1 DEF FiniteSubsetsOf
<1>2. PICK B \in Aboves : \A C \in Aboves : <<C, B>> \notin StrictSubsetOrdering(S)
  <2> HIDE DEF Aboves
  <2> QED
    BY <1>1, FS_StrictSubsetOrderingWellFounded, WFMin
<1>3. PICK x \in S : B = Above(x)
  OBVIOUS
<1>4. \A y \in S : x >= y
  <2>1. SUFFICES ASSUME NEW y \in S, y > x PROVE FALSE
    OBVIOUS
  <2>2. Above(y) \subseteq Above(x) /\ y \in Above(x) /\ y \notin Above(y)
    <3>1. x \in Nat /\ \A z \in S : z \in Nat
      OBVIOUS
    <3>2. y > x /\ y \in Nat
      BY <2>1, <3>1
    <3>3. \A z \in S : z > y => z > x
      BY <3>1, <3>2
    <3>4. ~(y > y)
      BY <3>2
    <3>5. QED
      BY <3>2, <3>3, <3>4
  <2>3. <<Above(y), Above(x)>> \in StrictSubsetOrdering(S)
    BY <2>2 DEF StrictSubsetOrdering
  <2>4. QED
    BY <1>2, <1>3, <2>3
<1>5. QED
  BY <1>4 DEF Max

-----------------------------------------------------------------------------
(* Detection *)

LEMMA DetectedIsFinite ==
  ASSUME NEW p \in Pages
  PROVE  /\ Detected(p) \subseteq Nat /\ Detected(p) \subseteq DOMAIN p
         /\ IsFiniteSet(Detected(p)) /\ Cardinality(Detected(p)) \in Nat
<1>1. Len(p) \in Nat /\ DOMAIN p = 1 .. Len(p)
  BY FormAssumption
<1>2. IsFiniteSet(1 .. Len(p))
  BY <1>1, FS_Interval
<1>3. Detected(p) \in SUBSET (1 .. Len(p))
  BY <1>1 DEF Detected
<1>4. QED
  BY <1>1, <1>2, <1>3, FS_Subset, FS_CardinalityType

(* The places of the detected controls are 1 .. n, each taken by one.       *)
LEMMA Places ==
  ASSUME NEW p \in Pages
  PROVE  /\ \A j \in Detected(p) : Place(p, j) \in 1 .. Cardinality(Detected(p))
         /\ \A i \in 1 .. Cardinality(Detected(p)) :
              \E j \in Detected(p) : Place(p, j) = i
<1> DEFINE D       == Detected(p)
           n       == Cardinality(D)
           UpTo(j) == {k \in D : k <= j}
           place   == [j \in D |-> Place(p, j)]
<1>1. D \subseteq Nat /\ IsFiniteSet(D) /\ n \in Nat
  BY DetectedIsFinite
<1>2. \A j \in D : /\ IsFiniteSet(UpTo(j)) /\ Cardinality(UpTo(j)) <= n
                   /\ Cardinality(UpTo(j)) \in Nat /\ Cardinality(UpTo(j)) # 0
  <2>1. TAKE j \in D
  <2>2. UpTo(j) \in SUBSET D /\ j \in UpTo(j)
    BY <1>1
  <2>3. IsFiniteSet(UpTo(j)) /\ Cardinality(UpTo(j)) <= n
    BY <1>1, <2>2, FS_Subset
  <2>4. QED
    BY <2>2, <2>3, FS_CardinalityType, FS_EmptySet
<1>3. \A j \in D : Place(p, j) \in 1 .. n
  BY <1>1, <1>2 DEF Place
<1>4. \A j, k \in D : j < k => Place(p, j) # Place(p, k)
  <2>1. SUFFICES ASSUME NEW j \in D, NEW k \in D, j < k,
                        Cardinality(UpTo(k)) = Cardinality(UpTo(j))
                 PROVE  FALSE
    BY DEF Place
  <2>2. UpTo(j) \in SUBSET UpTo(k) /\ k \in UpTo(k) /\ k \notin UpTo(j)
    BY <1>1, <2>1
  <2>3. UpTo(k) = UpTo(j)
    BY <1>2, <2>1, <2>2, FS_Subset
  <2>4. QED
    BY <2>2, <2>3
<1>5. place \in [D -> 1 .. n] /\ \A j, k \in D : place[j] = place[k] => j = k
  BY <1>1, <1>3, <1>4
<1> HIDE DEF place
<1>6. place \in Injection(D, 1 .. n)
  BY <1>5, Fun_IsInj
<1>7. IsFiniteSet(1 .. n) /\ Cardinality(1 .. n) = n
  BY <1>1, FS_Interval
<1>8. place \in Surjection(D, 1 .. n)
  BY <1>6, <1>7, FS_Injection
<1>9. \A i \in 1 .. n : \E j \in D : place[j] = i
  <2> HIDE DEF D, n
  <2> QED
    BY <1>8, Fun_SurjectionProperties
<1>10. QED
  BY <1>3, <1>9 DEF place

(* A detected field is that of the control in its place.                    *)
LEMMA FieldsOfPage ==
  ASSUME NEW p \in Pages
  PROVE  /\ DOMAIN FieldsOf[p] = 1 .. Cardinality(Detected(p))
         /\ DOMAIN MappingsOf[p] = DOMAIN FieldsOf[p]
         /\ \A i \in DOMAIN FieldsOf[p] :
              /\ \E c \in Detected(p) : Place(p, c) = i /\ FieldsOf[p][i] = Field(p[c], i)
              /\ MappingsOf[p][i] = MapField(FieldsOf[p][i])
<1>1. /\ DOMAIN FieldsOf[p] = 1 .. Cardinality(Detected(p))
      /\ DOMAIN MappingsOf[p] = DOMAIN FieldsOf[p]
      /\ \A i \in DOMAIN FieldsOf[p] : MappingsOf[p][i] = MapField(FieldsOf[p][i])
  BY DEF FieldsOf, MappingsOf, DetectFields, MapFields
<1>2. ASSUME NEW i \in DOMAIN FieldsOf[p]
      PROVE  \E c \in Detected(p) : Place(p, c) = i /\ FieldsOf[p][i] = Field(p[c], i)
  <2> DEFINE c == CHOOSE j \in Detected(p) : Place(p, j) = i
  <2>1. c \in Detected(p) /\ Place(p, c) = i
    BY <1>1, <1>2, Places
  <2>2. FieldsOf[p][i] = Field(p[c], i)
    BY <1>1, <1>2 DEF FieldsOf, DetectFields
  <2>3. QED
    BY <2>1, <2>2
<1>3. QED
  BY <1>1, <1>2

LEMMA MappingsAreFinite ==
  ASSUME NEW p \in Pages
  PROVE  DOMAIN MappingsOf[p] \in SUBSET Nat /\ IsFiniteSet(DOMAIN MappingsOf[p])
BY FieldsOfPage, DetectedIsFinite, FS_Interval

(* In a form that tells its controls apart, the selector of a control finds *)
(* that control and no other.                                               *)
LEMMA FoundAlone ==
  ASSUME NEW p \in Identifiable, NEW c \in Detected(p), NEW i
  PROVE  Found(p, Selector(p[c], i)) = {c} /\ Min(Found(p, Selector(p[c], i))) = c
<1> DEFINE e      == p[c]
           marked == {k \in DOMAIN MarkOrder : MarkOrder[k] \in DOMAIN e.marks}
           first  == MarkOrder[Min(marked)]
<1>1. p \in Pages /\ c \in DOMAIN p /\ c \in Nat
  BY DetectedIsFinite DEF Identifiable
<1>2. \A k \in DOMAIN p \ {c} :
        /\ \A a \in DOMAIN p[c].marks \cap DOMAIN p[k].marks : p[c].marks[a] # p[k].marks[a]
        /\ DOMAIN p[c].marks = {} => p[c].label # p[k].label
  BY DEF Identifiable
<1>3. Found(p, Selector(p[c], i)) = {c}
  <2>1. CASE DOMAIN e.marks = {}
    <3>1. e.label # NoText
      BY <2>1 DEF Identifiable
    <3>2. Selector(e, i) = <<"text", e.label>>
      BY <2>1, <3>1 DEF Selector
    <3>3. QED
      BY <1>1, <1>2, <2>1, <3>2 DEF Found
  <2>2. CASE DOMAIN e.marks # {}
    <3>1. marked # {}
      BY <1>1, <2>2, FormAssumption
    <3>2. first \in DOMAIN e.marks
      <4>1. marked \subseteq 1 .. 4
        BY DEF MarkOrder
      <4>2. \E k \in marked : \A l \in marked : k <= l
        <5>1. \/ 1 \in marked \/ 2 \in marked \/ 3 \in marked \/ 4 \in marked
          BY <3>1, <4>1
        <5> HIDE DEF marked
        <5>2. QED
          BY <4>1, <5>1
      <4>3. Min(marked) \in marked
        BY <4>2 DEF Min
      <4>4. QED
        BY <4>3
    <3>3. Selector(e, i) = <<first, e.marks[first]>>
      BY <3>1 DEF Selector
    <3>4. first # "text" /\ first # "nth"
      <4>1. first \in {"testid", "aria_label", "name", "id"}
        BY <1>1, <3>2, FormAssumption DEF MarkOrder
      <4>2. QED
        BY <4>1
    <3> HIDE DEF first
    <3>5. QED
      BY <1>1, <1>2, <3>2, <3>3, <3>4 DEF Found
  <2>3. QED
    BY <2>1, <2>2
<1>4. Min({c}) = c
  BY <1>1 DEF Min
<1>5. QED
  BY <1>3, <1>4

-----------------------------------------------------------------------------
(* Mapping *)

(* A mapping has no value and is for the human, or has what is on file for  *)
(* its key and is for the human unless that is sure enough.                 *)
LEMMA MapFieldIsVouched ==
  ASSUME NEW f
  PROVE  LET m == MapField(f)
         IN /\ m = [field |-> m.field, value |-> m.value, confidence |-> m.confidence,
                    requires_human |-> m.requires_human]
            /\ m.requires_human \in BOOLEAN
            /\ \/ m.value = Blank /\ m.requires_human
               \/ /\ m.value = OnRecord(m.field) /\ OnFile(m.field)
                  /\ m.requires_human \/ Confidence(m.field) >= Threshold
<1>1. ASSUME NEW k, OnFile(k)
      PROVE  Confidence(k) \in Nat
  <2>1. CASE k \in ResumeKeys
    <3>1. k \in DOMAIN Profile.resume
      BY <1>1, <2>1 DEF OnFile, ResumeKeys
    <3>2. Profile.resume[k] \in 0 .. 100
      <4>1. Profile.resume \in [DOMAIN Profile.resume -> 0 .. 100]
        BY FormAssumption
      <4>2. QED
        BY <3>1, <4>1
    <3>3. QED
      BY <2>1, <3>2 DEF Confidence
  <2>2. CASE k \notin ResumeKeys
    BY <2>2 DEF Confidence
  <2>3. QED
    BY <2>1, <2>2
<1>2. Threshold \in Nat
  BY FormAssumption
<1>3. ASSUME NEW k, OnFile(k)
      PROVE  LET m == Mapped(k)
             IN /\ m.field = k /\ m.value = OnRecord(k)
                /\ m = [field |-> m.field, value |-> m.value, confidence |-> m.confidence,
                        requires_human |-> m.requires_human]
                /\ m.requires_human \in BOOLEAN
                /\ m.requires_human \/ Confidence(k) >= Threshold
  <2>1. /\ Mapped(k).field = k /\ Mapped(k).value = OnRecord(k)
        /\ Mapped(k).confidence = Confidence(k)
        /\ Mapped(k).requires_human = (Confidence(k) < Threshold)
    BY DEF Mapped
  <2>2. Mapped(k) = [field |-> k, value |-> OnRecord(k), confidence |-> Confidence(k),
                     requires_human |-> Confidence(k) < Threshold]
    BY DEF Mapped
  <2>3. Confidence(k) \in Nat
    BY <1>1, <1>3
  <2>4. (Confidence(k) < Threshold) \/ Confidence(k) >= Threshold
    BY <1>2, <2>3
  <2>5. Mapped(k).requires_human \in BOOLEAN
    <3>1. (Confidence(k) < Threshold) \in BOOLEAN
      BY SMT
    <3>2. QED
      BY <2>1, <3>1
  <2>6. Mapped(k).requires_human \/ Confidence(k) >= Threshold
    BY <2>1, <2>4, Zenon
  <2>7. Mapped(k) = [field |-> Mapped(k).field, value |-> Mapped(k).value,
                     confidence |-> Mapped(k).confidence,
                     requires_human |-> Mapped(k).requires_human]
    BY <2>1, <2>2, Zenon
  <2>8. QED
    BY <2>1, <2>5, <2>6, <2>7, Zenon
<1>4. ASSUME NEW k
      PROVE  LET m == Unmapped(k)
             IN /\ m.value = Blank /\ m.requires_human = TRUE
                /\ m = [field |-> m.field, value |-> m.value, confidence |-> m.confidence,
                        requires_human |-> m.requires_human]
  BY DEF Unmapped
<1>5. \/ \E k : MapField(f) = Unmapped(k)
      \/ \E k : OnFile(k) /\ MapField(f) = Mapped(k)
  BY DEF MapField
<1>6. QED
  BY <1>3, <1>4, <1>5

-----------------------------------------------------------------------------
(* Filling *)

(* What is in a control was written into it by a mapping.                   *)
LEMMA FillWrites ==
  ASSUME NEW page, NEW fields, NEW mappings,
         DOMAIN mappings \in SUBSET Nat, IsFiniteSet(DOMAIN mappings)
  PROVE  /\ DOMAIN FillForm(page, fields, mappings) = DOMAIN page
         /\ \A j \in DOMAIN page :
              FillForm(page, fields, mappings)[j] # Blank =>
                \E i \in Paired(fields, mappings) :
                  /\ Written(mappings[i])
                  /\ j = Min(Found(page, fields[i].selector))
                  /\ FillForm(page, fields, mappings)[j] = mappings[i].value
<1> DEFINE Into(i, j) == /\ Written(mappings[i])
                         /\ \A u \in Uploads(fields, mappings) : i < u
                         /\ Found(page, fields[i].selector) # {}
                         /\ j = Min(Found(page, fields[i].selector))
                         /\ Takes(page[j], fields[i].type, mappings[i].value)
           Writers(j) == {i \in Paired(fields, mappings) : Into(i, j)}
<1>1. FillForm(page, fields, mappings) =
        [j \in DOMAIN page |-> IF Writers(j) = {} THEN Blank ELSE mappings[Max(Writers(j))].value]
  BY DEF FillForm
<1>2. \A j \in DOMAIN page : Writers(j) # {} => Max(Writers(j)) \in Writers(j)
  <2>1. TAKE j \in DOMAIN page
  <2>2. Writers(j) \in SUBSET DOMAIN mappings
    BY DEF Paired
  <2> HIDE DEF Writers
  <2>3. QED
    BY <2>2, FS_Subset, MaxIsMember
<1>3. QED
  BY <1>1, <1>2

(* Without uploads, every mapping to be written that its control takes      *)
(* leaves the control with a value.                                         *)
LEMMA FillCompletes ==
  ASSUME NEW page, NEW fields, NEW mappings,
         DOMAIN mappings \in SUBSET Nat, IsFiniteSet(DOMAIN mappings),
         Uploads(fields, mappings) = {},
         NEW i \in Paired(fields, mappings), Written(mappings[i]),
         NEW j \in DOMAIN page,
         Found(page, fields[i].selector) # {}, j = Min(Found(page, fields[i].selector)),
         Takes(page[j], fields[i].type, mappings[i].value)
  PROVE  FillForm(page, fields, mappings)[j] # Blank
<1> DEFINE Into(k, l) == /\ Written(mappings[k])
                         /\ \A u \in Uploads(fields, mappings) : k < u
                         /\ Found(page, fields[k].selector) # {}
                         /\ l = Min(Found(page, fields[k].selector))
                         /\ Takes(page[l], fields[k].type, mappings[k].value)
           Writers(l) == {k \in Paired(fields, mappings) : Into(k, l)}
<1>1. FillForm(page, fields, mappings) =
        [l \in DOMAIN page |-> IF Writers(l) = {} THEN Blank ELSE mappings[Max(Writers(l))].value]
  BY DEF FillForm
<1>2. i \in Writers(j)
  OBVIOUS
<1>3. Max(Writers(j)) \in Writers(j)
  <2>1. Writers(j) \in SUBSET DOMAIN mappings
    BY DEF Paired
  <2>2. Writers(j) # {}
    BY <1>2
  <2> HIDE DEF Writers
  <2>3. QED
    BY <2>1, <2>2, FS_Subset, MaxIsMember
<1>4. mappings[Max(Writers(j))].value # Blank
  BY <1>3 DEF Written
<1>5. QED
  BY <1>1, <1>2, <1>4

(* In a form that tells its controls apart, mappings that keep the keys     *)
(* mapping gave them put every value in the control of its key.             *)
LEMMA FillInPlace ==
  ASSUME NEW p \in Identifiable, NEW mappings,
         DOMAIN mappings = DOMAIN MappingsOf[p],
         \A i \in DOMAIN mappings :
           Written(mappings[i]) => mappings[i].value[2] = MappingsOf[p][i].field
  PROVE  InPlace(p, FillForm(p, FieldsOf[p], mappings))
<1> DEFINE content == FillForm(p, FieldsOf[p], mappings)
<1>1. p \in Pages
  BY DEF Identifiable
<1>2. SUFFICES ASSUME NEW j \in DOMAIN p, content[j] # Blank
               PROVE  /\ j \in Detected(p)
                      /\ content[j][2] = MappingsOf[p][Place(p, j)].field
  BY DEF InPlace
<1>3. PICK i \in Paired(FieldsOf[p], mappings) :
        /\ Written(mappings[i])
        /\ j = Min(Found(p, FieldsOf[p][i].selector))
        /\ content[j] = mappings[i].value
  BY <1>1, <1>2, MappingsAreFinite, FillWrites
<1>4. i \in DOMAIN FieldsOf[p] /\ i \in DOMAIN mappings
  BY <1>3 DEF Paired
<1>5. PICK c \in Detected(p) : Place(p, c) = i /\ FieldsOf[p][i] = Field(p[c], i)
  BY <1>1, <1>4, FieldsOfPage
<1>6. j = c
  BY <1>3, <1>5, FoundAlone DEF Field
<1>7. QED
  BY <1>3, <1>4, <1>5, <1>6
=============================================================================
