------------------------- MODULE CandidateEditsProofs -------------------------
(* Proofs about the scorer, for all postings, candidates, weights and       *)
(* tables of aliases and families.                                          *)
EXTENDS CandidateEdits, FiniteSetTheorems, WellFoundedInduction, TLAPS

-----------------------------------------------------------------------------
(* Rounding *)

(* A fraction of at most w rounds to at most w.                             *)
LEMMA RoundBound ==
  ASSUME NEW n \in Nat, NEW d \in Nat \ {0}, NEW w \in Nat, n <= w * d
  PROVE  Round(n, d) \in 0 .. w
<1> DEFINE q == n \div d
           r == n % d
<1>1. q \in Nat /\ r \in Nat /\ r < d /\ n = q * d + r
  BY SMT
<1>2. q <= w
  <2>1. SUFFICES ASSUME q >= w + 1 PROVE FALSE
    BY <1>1
  <2>2. q * d >= (w + 1) * d /\ (w + 1) * d = w * d + d
    BY <1>1, <2>1, SMT
  <2>3. QED
    BY <1>1, <2>2
<1>3. q = w => r = 0
  BY <1>1
<1>4. CASE 2 * r > d \/ (2 * r = d /\ q % 2 = 1)
  <2>1. q < w
    BY <1>1, <1>2, <1>3, <1>4
  <2>2. QED
    BY <1>1, <1>4, <2>1 DEF Round
<1>5. CASE ~(2 * r > d \/ (2 * r = d /\ q % 2 = 1))
  BY <1>1, <1>2, <1>5 DEF Round
<1>6. QED
  BY <1>4, <1>5

(* A part x of y, of a weight.                                              *)
LEMMA ShareBound ==
  ASSUME NEW w \in Nat, NEW x \in Nat, NEW y \in Nat \ {0}, x <= y
  PROVE  Round(w * x, y) \in 0 .. w
<1>1. w * x \in Nat /\ w * x <= w * y
  BY SMT
<1>2. QED
  BY <1>1, RoundBound

-----------------------------------------------------------------------------
(* Component scores are between 0 and their weight *)

(* Better overlaps are better than what they beat is better than.           *)
LEMMA BeatsTransitive ==
  ASSUME NEW a \in Nat, NEW b \in Nat \ {0}, NEW c \in Nat, NEW d \in Nat \ {0},
         NEW e \in Nat, NEW f \in Nat \ {0}, a * d > c * b, c * f > e * d
  PROVE  a * f > e * b
<1>1. (a * d) * f > (c * b) * f
  BY SMT
<1>2. (c * f) * b > (e * d) * b
  BY SMT
<1>3. (a * d) * f = (a * f) * d /\ (c * b) * f = (c * f) * b /\ (e * d) * b = (e * b) * d
  BY SMT
<1>4. (a * f) * d > (e * b) * d
  <2>1. (a * d) * f \in Nat /\ (c * b) * f \in Nat /\ (e * d) * b \in Nat
    BY SMT
  <2>2. QED
    BY <1>1, <1>2, <1>3, <2>1
<1>5. QED
  <2>1. a * f \in Nat /\ e * b \in Nat
    BY SMT
  <2>2. SUFFICES ASSUME a * f <= e * b PROVE FALSE
    BY <2>1
  <2>3. (a * f) * d <= (e * b) * d
    BY <2>1, <2>2, SMT
  <2>4. (a * f) * d \in Nat /\ (e * b) * d \in Nat
    BY <2>1, SMT
  <2>5. QED
    BY <1>4, <2>3, <2>4

(* Overlaps are counts, and the common tokens are among all tokens.         *)
LEMMA OverlapFacts ==
  ASSUME NEW t \in Titles, NEW title \in Titles
  PROVE  /\ Common(t, title) \in Nat /\ Either(t, title) \in Nat
         /\ Common(t, title) <= Either(t, title)
         /\ Words[title] # {} => Either(t, title) # 0
         /\ Common(t, title) # 0 => Words[title] # {}
<1>1. IsFiniteSet(Words[t] \cup Words[title])
  BY TitlesAssumption, FS_Union
<1>2. Words[t] \cap Words[title] \in SUBSET (Words[t] \cup Words[title])
  OBVIOUS
<1>3. IsFiniteSet(Words[t] \cap Words[title])
  BY <1>1, <1>2, FS_Subset
<1>4. /\ Cardinality(Words[t] \cap Words[title]) \in Nat
      /\ Cardinality(Words[t] \cup Words[title]) \in Nat
      /\ Cardinality(Words[t] \cap Words[title]) <= Cardinality(Words[t] \cup Words[title])
  BY <1>1, <1>2, <1>3, FS_Subset, FS_CardinalityType
<1>5. Words[title] # {} => Cardinality(Words[t] \cup Words[title]) # 0
  BY <1>1, FS_EmptySet
<1>6. Cardinality(Words[t] \cap Words[title]) # 0 => Words[title] # {}
  BY <1>3, FS_EmptySet
<1>7. QED
  BY <1>4, <1>5, <1>6 DEF Common, Either

(* The loop of match_title ends with a target no other beats: the targets   *)
(* that beat a target shrink strictly along the relation.                   *)
LEMMA ClosestExists ==
  ASSUME NEW targets \in SUBSET Titles, IsFiniteSet(targets), targets # {},
         NEW title \in Titles, Words[title] # {}
  PROVE  /\ Closest(targets, title) \in targets
         /\ \A u \in targets :
              Common(Closest(targets, title), title) * Either(u, title)
                >= Common(u, title) * Either(Closest(targets, title), title)
<1> DEFINE Beats(u, t) == Common(u, title) * Either(t, title) > Common(t, title) * Either(u, title)
           Better(t)   == {u \in targets : Beats(u, t)}
           Betters     == {Better(t) : t \in targets}
<1>1. \A t \in targets : Common(t, title) \in Nat /\ Either(t, title) \in Nat \ {0}
  BY OverlapFacts
<1>2. \A t, u, v \in targets : Beats(v, u) /\ Beats(u, t) => Beats(v, t)
  BY <1>1, BeatsTransitive
<1>3. \A t \in targets : ~Beats(t, t)
  <2>1. \A t \in targets : Common(t, title) * Either(t, title) \in Nat
    BY <1>1, SMT
  <2>2. QED
    BY <2>1
<1>4. Betters \subseteq FiniteSubsetsOf(targets) /\ Betters # {}
  <2>1. \A t \in targets : Better(t) \in SUBSET targets /\ IsFiniteSet(Better(t))
    BY FS_Subset
  <2>2. QED
    BY <2>1 DEF FiniteSubsetsOf
<1> HIDE DEF Beats
<1>5. PICK B \in Betters : \A C \in Betters : <<C, B>> \notin StrictSubsetOrdering(targets)
  <2> HIDE DEF Betters
  <2> QED
    BY <1>4, FS_StrictSubsetOrderingWellFounded, WFMin
<1>6. PICK t \in targets : B = Better(t)
  OBVIOUS
<1>7. \A u \in targets : ~Beats(u, t)
  <2>1. SUFFICES ASSUME NEW u \in targets, Beats(u, t) PROVE FALSE
    OBVIOUS
  <2>2. Better(u) \subseteq Better(t) /\ Better(u) # Better(t)
    BY <1>2, <1>3, <2>1
  <2>3. <<Better(u), Better(t)>> \in StrictSubsetOrdering(targets)
    BY <2>2 DEF StrictSubsetOrdering
  <2>4. QED
    BY <1>5, <1>6, <2>3
<1>8. \A u \in targets : Common(t, title) * Either(u, title) >= Common(u, title) * Either(t, title)
  <2>1. \A u \in targets : /\ Common(t, title) * Either(u, title) \in Nat
                           /\ Common(u, title) * Either(t, title) \in Nat
    BY <1>1, SMT
  <2>2. QED
    BY <1>7, <2>1 DEF Beats
<1>9. QED
  BY <1>8 DEF Closest

LEMMA TitleBound ==
  ASSUME NEW w \in Nat, NEW targets \in SUBSET Titles, NEW title \in Titles
  PROVE  ScoreTitle(targets, title, w) \in 0 .. w
<1> DEFINE t == Closest(targets, title)
           Known1 == targets = {} \/ \E u \in targets :
                       Family[u] # NoFamily /\ Family[u] = Family[title]
<1>1. CASE Known1
  BY <1>1 DEF ScoreTitle
<1>2. CASE ~Known1 /\ \A u \in targets : Common(u, title) = 0
  BY <1>2 DEF ScoreTitle
<1>3. CASE ~Known1 /\ \E u \in targets : Common(u, title) # 0
  <2>1. Words[title] # {} /\ t \in targets
    BY <1>3, OverlapFacts, ClosestExists, TitlesAssumption, FS_Subset
  <2>2. /\ Common(t, title) \in Nat /\ Either(t, title) \in Nat \ {0}
        /\ Common(t, title) <= Either(t, title)
    BY <2>1, OverlapFacts
  <2>3. Round(w * Common(t, title), Either(t, title)) \in 0 .. w
    <3> HIDE DEF t
    <3> QED
      BY <2>2, ShareBound
  <2>4. QED
    BY <1>3, <2>3 DEF ScoreTitle
<1>4. QED
  BY <1>1, <1>2, <1>3

LEMMA MatchedBound ==
  ASSUME NEW skills, NEW asked \in Seq(Spellings)
  PROVE  Matched(skills, asked) \in Nat /\ Matched(skills, asked) <= Len(asked)
<1> DEFINE M == {i \in DOMAIN asked : Canonical[asked[i]] \in Normalized(skills)}
<1>1. Len(asked) \in Nat /\ M \in SUBSET (1 .. Len(asked))
  OBVIOUS
<1>2. IsFiniteSet(1 .. Len(asked)) /\ Cardinality(1 .. Len(asked)) = Len(asked)
  BY <1>1, FS_Interval
<1>3. QED
  BY <1>1, <1>2, FS_Subset, FS_CardinalityType DEF Matched

LEMMA SkillsBound ==
  ASSUME NEW w \in Nat, NEW skills, NEW required \in Seq(Spellings), NEW preferred \in Seq(Spellings)
  PROVE  ScoreSkills(skills, required, preferred, w) \in 0 .. w
<1> DEFINE had(asked)   == IF asked = <<>> THEN 1 ELSE Matched(skills, asked)
           outOf(asked) == IF asked = <<>> THEN 1 ELSE Len(asked)
           h == had(required)
           g == had(preferred)
           m == outOf(required)
           n == outOf(preferred)
<1>1. \A asked \in Seq(Spellings) :
        had(asked) \in Nat /\ outOf(asked) \in Nat \ {0} /\ had(asked) <= outOf(asked)
  BY MatchedBound
<1>2. h \in Nat /\ g \in Nat /\ m \in Nat \ {0} /\ n \in Nat \ {0} /\ h <= m /\ g <= n
  BY <1>1
<1>3. ScoreSkills(skills, required, preferred, w) =
        IF required = <<>> /\ preferred = <<>> THEN w
        ELSE Round(w * (7 * h * n + 3 * g * m), 10 * m * n)
  BY DEF ScoreSkills
<1> HIDE DEF h, g, m, n
<1>4. /\ 7 * h * n + 3 * g * m \in Nat /\ 10 * m * n \in Nat \ {0}
      /\ 7 * h * n + 3 * g * m <= 10 * m * n
  <2>1. h * n <= m * n /\ g * m <= n * m
    BY <1>2, SMT
  <2>2. h * n \in Nat /\ g * m \in Nat /\ m * n \in Nat \ {0} /\ n * m = m * n
    BY <1>2, SMT
  <2>3. 7 * h * n = 7 * (h * n) /\ 3 * g * m = 3 * (g * m) /\ 10 * m * n = 10 * (m * n)
    BY <1>2, SMT
  <2>4. QED
    BY <2>1, <2>2, <2>3
<1>5. Round(w * (7 * h * n + 3 * g * m), 10 * m * n) \in 0 .. w
  BY <1>4, ShareBound
<1>6. QED
  BY <1>3, <1>5

LEMMA ExperienceBound ==
  ASSUME NEW w \in Nat, NEW years \in Nat \cup {Unknown},
         NEW low \in Nat \cup {Unknown}, NEW high \in Nat \cup {Unknown}
  PROVE  ScoreExperience(years, low, high, w) \in 0 .. w
<1>1. Round(w, 2) \in 0 .. w /\ Round(4 * w, 5) \in 0 .. w
  BY RoundBound
<1>2. ASSUME Known(years), Known(low), years < low PROVE Round(w * years, low) \in 0 .. w
  <2>1. years \in Nat /\ low \in Nat \ {0} /\ years <= low
    BY <1>2 DEF Known
  <2>2. QED
    BY <2>1, ShareBound
<1>3. QED
  BY <1>1, <1>2 DEF ScoreExperience

LEMMA IndustryBound ==
  ASSUME NEW w \in Nat, NEW industry, NEW preferred
  PROVE  ScoreIndustry(industry, preferred, w) \in 0 .. w
<1>1. Round(7 * w, 10) \in 0 .. w /\ Round(w, 5) \in 0 .. w
  BY RoundBound
<1>2. QED
  BY <1>1 DEF ScoreIndustry

LEMMA LocationBound ==
  ASSUME NEW w \in Nat, NEW location, NEW mode, NEW c
  PROVE  ScoreLocation(location, mode, c, w) \in 0 .. w
<1>1. /\ Round(w, 2) \in 0 .. w /\ Round(w, 10) \in 0 .. w /\ Round(3 * w, 5) \in 0 .. w
      /\ Round(w, 5) \in 0 .. w /\ w \div 2 \in 0 .. w
  BY RoundBound
<1>2. QED
  BY <1>1 DEF ScoreLocation

LEMMA SalaryBound ==
  ASSUME NEW w \in Nat, NEW j, NEW c,
         j.salary_min \in Nat \cup {Unknown}, j.salary_max \in Nat \cup {Unknown},
         c.minimum \in Nat, c.wish \in Nat
  PROVE  ScoreSalary(j, c, w) \in 0 .. w
<1> DEFINE ref == IF Known(j.salary_max) THEN j.salary_max ELSE j.salary_min
<1>1. Known(ref) => ref \in Nat
  BY DEF Known
<1>2. Round(w, 2) \in 0 .. w
  BY RoundBound
<1>3. ASSUME Known(ref), ref < c.minimum
      PROVE  Round(w * (6 * ref), 10 * c.minimum) \in 0 .. w
  <2>1. 6 * ref \in Nat /\ 10 * c.minimum \in Nat \ {0} /\ 6 * ref <= 10 * c.minimum
    BY <1>1, <1>3
  <2>2. QED
    BY <2>1, ShareBound
<1>4. ASSUME Known(ref), ref >= c.minimum, c.minimum > 0, c.wish > c.minimum, ref < c.wish
      PROVE  Round(w * (6 * (c.wish - c.minimum) + 4 * (ref - c.minimum)),
                   10 * (c.wish - c.minimum)) \in 0 .. w
  <2>1. /\ 6 * (c.wish - c.minimum) + 4 * (ref - c.minimum) \in Nat
        /\ 10 * (c.wish - c.minimum) \in Nat \ {0}
        /\ 6 * (c.wish - c.minimum) + 4 * (ref - c.minimum) <= 10 * (c.wish - c.minimum)
    BY <1>1, <1>4
  <2>2. QED
    BY <2>1, ShareBound
<1>5. QED
  <2> HIDE DEF ref
  <2>1. ScoreSalary(j, c, w) =
          IF ~Known(ref) THEN w
          ELSE IF j.currency \notin {"none", c.currency} THEN Round(w, 2)
          ELSE IF (c.wish > 0 /\ ref >= c.wish) \/ c.minimum = 0 THEN w
          ELSE IF ref < c.minimum THEN Round(w * (6 * ref), 10 * c.minimum)
          ELSE IF c.wish <= c.minimum THEN w
          ELSE Round(w * (6 * (c.wish - c.minimum) + 4 * (ref - c.minimum)),
                     10 * (c.wish - c.minimum))
    BY DEF ScoreSalary, ref
  <2>2. QED
    BY <1>1, <1>2, <1>3, <1>4, <2>1

-----------------------------------------------------------------------------
(* Wider preferences *)

(* Products keep an order; the factors in the way the provers need them.    *)
LEMMA TimesMonotone ==
  ASSUME NEW a \in Nat, NEW b \in Nat, NEW c \in Nat, a <= b
  PROVE  a * c <= b * c /\ c * a <= c * b
  BY SMT

LEMMA TimesCancels ==
  ASSUME NEW a \in Nat, NEW b \in Nat, NEW c \in Nat \ {0}, a * c <= b * c
  PROVE  a <= b
<1>1. SUFFICES ASSUME b + 1 <= a PROVE FALSE
  OBVIOUS
<1>2. (b + 1) * c <= a * c
  BY <1>1, TimesMonotone
<1>3. (b + 1) * c = b * c + c
  BY SMT
<1>4. QED
  <2>1. a * c \in Nat /\ b * c \in Nat
    BY SMT
  <2>2. QED
    BY <1>2, <1>3, <2>1

(* round() keeps the order of fractions, ties included.                     *)
LEMMA RoundMonotone ==
  ASSUME NEW n \in Nat, NEW d \in Nat \ {0}, NEW m \in Nat, NEW e \in Nat \ {0},
         n * e <= m * d
  PROVE  Round(n, d) <= Round(m, e)
<1> DEFINE q == n \div d
           r == n % d
           p == m \div e
           s == m % e
<1>1. q \in Nat /\ r \in Nat /\ r < d /\ n = q * d + r
  BY SMT
<1>2. p \in Nat /\ s \in Nat /\ s < e /\ m = p * e + s
  BY SMT
<1>3. /\ Round(n, d) = IF 2 * r > d \/ (2 * r = d /\ q % 2 = 1) THEN q + 1 ELSE q
      /\ Round(m, e) = IF 2 * s > e \/ (2 * s = e /\ p % 2 = 1) THEN p + 1 ELSE p
  BY DEF Round
<1> HIDE DEF q, r, p, s
<1> DEFINE de == d * e
<1>4. n * e = q * de + r * e /\ m * d = p * de + s * d
  BY <1>1, <1>2, SMT
<1>5. de \in Nat \ {0} /\ r * e \in Nat /\ s * d \in Nat /\ s * d < de
  <2>1. de \in Nat \ {0} /\ r * e \in Nat /\ s * d \in Nat
    BY <1>1, <1>2, SMT
  <2>2. (s + 1) * d <= e * d
    BY <1>2, TimesMonotone
  <2>3. (s + 1) * d = s * d + d /\ e * d = de
    BY <1>2, SMT
  <2>4. QED
    BY <2>1, <2>2, <2>3
<1> HIDE DEF de
<1>6. q <= p
  <2>1. SUFFICES ASSUME p + 1 <= q PROVE FALSE
    BY <1>1, <1>2
  <2>2. (p + 1) * de <= q * de
    BY <1>1, <1>2, <1>5, <2>1, TimesMonotone
  <2>3. (p + 1) * de = p * de + de /\ p * de \in Nat /\ q * de \in Nat
    BY <1>1, <1>2, <1>5, SMT
  <2>4. QED
    BY <1>4, <1>5, <2>2, <2>3
<1>7. CASE q < p
  BY <1>1, <1>2, <1>3, <1>7
<1>8. CASE q = p
  <2>1. r * e <= s * d
    <3>1. q * de = p * de /\ q * de \in Nat
      BY <1>1, <1>2, <1>5, <1>8, SMT
    <3>2. QED
      BY <1>4, <1>5, <3>1
  <2>2. (2 * r) * e <= (2 * s) * d
    <3>1. (2 * r) * e = 2 * (r * e) /\ (2 * s) * d = 2 * (s * d)
      BY <1>1, <1>2, SMT
    <3>2. QED
      BY <1>5, <2>1, <3>1
  <2>3. 2 * r >= d => 2 * s >= e
    <3>1. SUFFICES ASSUME d <= 2 * r PROVE e <= 2 * s
      BY <1>1, <1>2
    <3>2. d * e <= (2 * r) * e
      BY <1>1, <3>1, TimesMonotone
    <3>3. e * d <= (2 * s) * d
      <4>1. d * e = e * d /\ d * e \in Nat /\ (2 * r) * e \in Nat /\ (2 * s) * d \in Nat
        BY <1>1, <1>2, SMT
      <4>2. QED
        BY <2>2, <3>2, <4>1
    <3>4. QED
      BY <1>2, <3>3, TimesCancels
  <2>4. 2 * r > d => 2 * s > e
    <3>1. SUFFICES ASSUME 2 * r > d, 2 * s <= e PROVE FALSE
      BY <1>1, <1>2
    <3>2. (2 * s) * d <= e * d
      BY <1>2, <3>1, TimesMonotone
    <3>3. (2 * r) * e <= d * e
      <4>1. d * e = e * d /\ d * e \in Nat /\ (2 * r) * e \in Nat /\ (2 * s) * d \in Nat
        BY <1>1, <1>2, SMT
      <4>2. QED
        BY <2>2, <3>2, <4>1
    <3>4. 2 * r <= d
      BY <1>1, <3>3, TimesCancels
    <3>5. QED
      BY <1>1, <3>1, <3>4
  <2>5. QED
    BY <1>1, <1>2, <1>3, <1>8, <2>3, <2>4
<1>9. QED
  BY <1>1, <1>2, <1>6, <1>7, <1>8

(* A better part of the same weight.                                        *)
LEMMA ShareMonotone ==
  ASSUME NEW w \in Nat, NEW x \in Nat, NEW y \in Nat \ {0}, NEW u \in Nat, NEW v \in Nat \ {0},
         x * v <= u * y
  PROVE  Round(w * x, y) <= Round(w * u, v)
<1>1. w * x \in Nat /\ w * u \in Nat /\ x * v \in Nat /\ u * y \in Nat
  BY SMT
<1>2. w * (x * v) <= w * (u * y)
  BY <1>1, TimesMonotone
<1>3. w * (x * v) = (w * x) * v /\ w * (u * y) = (w * u) * y
  BY SMT
<1>4. QED
  BY <1>1, <1>2, <1>3, RoundMonotone

(* More skills match at least as many entries of a list.                    *)
LEMMA MatchedMonotone ==
  ASSUME NEW skills, NEW more, skills \subseteq more, NEW asked \in Seq(Spellings)
  PROVE  Matched(skills, asked) <= Matched(more, asked)
<1> DEFINE M(s) == {i \in DOMAIN asked : Canonical[asked[i]] \in Normalized(s)}
<1>1. M(skills) \subseteq M(more)
  BY DEF Normalized
<1>2. Len(asked) \in Nat /\ M(more) \in SUBSET (1 .. Len(asked))
  OBVIOUS
<1>3. IsFiniteSet(M(more))
  BY <1>2, FS_Interval, FS_Subset
<1>4. QED
  BY <1>1, <1>3, FS_Subset DEF Matched

LEMMA SkillsMonotone ==
  ASSUME NEW w \in Nat, NEW skills, NEW more, skills \subseteq more,
         NEW required \in Seq(Spellings), NEW preferred \in Seq(Spellings)
  PROVE  ScoreSkills(skills, required, preferred, w) <= ScoreSkills(more, required, preferred, w)
<1> DEFINE had(s, asked) == IF asked = <<>> THEN 1 ELSE Matched(s, asked)
           outOf(asked)  == IF asked = <<>> THEN 1 ELSE Len(asked)
           h == had(skills, required)
           g == had(skills, preferred)
           hh == had(more, required)
           gg == had(more, preferred)
           m == outOf(required)
           n == outOf(preferred)
<1>1. \A asked \in Seq(Spellings) :
        /\ had(skills, asked) \in Nat /\ had(more, asked) \in Nat /\ outOf(asked) \in Nat \ {0}
        /\ had(skills, asked) <= had(more, asked)
  BY MatchedBound, MatchedMonotone
<1>2. /\ h \in Nat /\ g \in Nat /\ hh \in Nat /\ gg \in Nat /\ m \in Nat \ {0} /\ n \in Nat \ {0}
      /\ h <= hh /\ g <= gg
  BY <1>1
<1>3. /\ ScoreSkills(skills, required, preferred, w) =
           IF required = <<>> /\ preferred = <<>> THEN w
           ELSE Round(w * (7 * h * n + 3 * g * m), 10 * m * n)
      /\ ScoreSkills(more, required, preferred, w) =
           IF required = <<>> /\ preferred = <<>> THEN w
           ELSE Round(w * (7 * hh * n + 3 * gg * m), 10 * m * n)
  BY DEF ScoreSkills
<1> HIDE DEF h, g, hh, gg, m, n
<1> DEFINE x == 7 * h * n + 3 * g * m
           u == 7 * hh * n + 3 * gg * m
           y == 10 * m * n
<1>4. x \in Nat /\ u \in Nat /\ y \in Nat \ {0} /\ x <= u
  <2>1. h * n <= hh * n /\ g * m <= gg * m
    BY <1>2, TimesMonotone
  <2>2. /\ h * n \in Nat /\ g * m \in Nat /\ hh * n \in Nat /\ gg * m \in Nat
        /\ m * n \in Nat \ {0}
    BY <1>2, SMT
  <2>3. /\ 7 * h * n = 7 * (h * n) /\ 3 * g * m = 3 * (g * m) /\ 10 * m * n = 10 * (m * n)
        /\ 7 * hh * n = 7 * (hh * n) /\ 3 * gg * m = 3 * (gg * m)
    BY <1>2, SMT
  <2>4. x \in Nat /\ u \in Nat /\ x <= u
    BY <2>1, <2>2, <2>3
  <2>5. y \in Nat \ {0}
    BY <2>2, <2>3
  <2>6. QED
    BY <2>4, <2>5
<1> HIDE DEF x, u, y
<1>5. x * y <= u * y
  BY <1>4, TimesMonotone
<1>6. Round(w * x, y) <= Round(w * u, y)
  BY <1>4, <1>5, ShareMonotone
<1>7. w \in Nat /\ w <= w
  OBVIOUS
<1>8. QED
  BY <1>3, <1>6, <1>7 DEF x, u, y

(* The closest of more targets is at least as close.                        *)
LEMMA TitleMonotone ==
  ASSUME NEW w \in Nat, NEW title \in Titles,
         NEW targets \in SUBSET Titles, NEW more \in SUBSET Titles,
         targets \subseteq more, targets = {} => more = {}
  PROVE  ScoreTitle(targets, title, w) <= ScoreTitle(more, title, w)
<1> DEFINE InFamily(s) == s = {} \/ \E t \in s : Family[t] # NoFamily /\ Family[t] = Family[title]
           Apart(s)    == \A t \in s : Common(t, title) = 0
           t == Closest(targets, title)
           u == Closest(more, title)
<1>1. /\ ScoreTitle(targets, title, w) \in 0 .. w
      /\ ScoreTitle(more, title, w) \in 0 .. w
  BY TitleBound
<1>2. CASE InFamily(targets)
  <2>1. InFamily(more)
    BY <1>2
  <2>2. ScoreTitle(more, title, w) = w
    BY <2>1 DEF ScoreTitle
  <2>3. QED
    BY <1>1, <2>2
<1>3. CASE ~InFamily(targets) /\ Apart(targets)
  <2>1. ScoreTitle(targets, title, w) = 0
    BY <1>3 DEF ScoreTitle
  <2>2. QED
    BY <1>1, <2>1
<1>4. CASE InFamily(more)
  <2>1. ScoreTitle(more, title, w) = w
    BY <1>4 DEF ScoreTitle
  <2>2. QED
    BY <1>1, <2>1
<1>5. CASE ~InFamily(targets) /\ ~Apart(targets) /\ ~InFamily(more)
  <2>1. Words[title] # {} /\ targets # {} /\ more # {} /\ ~Apart(more)
    <3>1. PICK v \in targets : Common(v, title) # 0
      BY <1>5
    <3>2. Words[title] # {}
      BY <3>1, OverlapFacts
    <3>3. QED
      BY <3>1, <3>2
  <2>2. t \in targets /\ u \in more
    <3>1. IsFiniteSet(targets) /\ IsFiniteSet(more)
      BY TitlesAssumption, FS_Subset
    <3>2. QED
      BY <2>1, <3>1, ClosestExists
  <2>3. \A v \in more : Common(u, title) * Either(v, title) >= Common(v, title) * Either(u, title)
    <3>1. IsFiniteSet(more)
      BY TitlesAssumption, FS_Subset
    <3>2. QED
      BY <2>1, <3>1, ClosestExists
  <2>4. /\ Common(t, title) \in Nat /\ Either(t, title) \in Nat \ {0}
        /\ Common(u, title) \in Nat /\ Either(u, title) \in Nat \ {0}
    BY <2>1, <2>2, OverlapFacts
  <2>5. /\ ScoreTitle(targets, title, w) =
             IF 100 * Common(t, title) < 34 * Either(t, title) THEN 0
             ELSE Round(w * Common(t, title), Either(t, title))
        /\ ScoreTitle(more, title, w) =
             IF 100 * Common(u, title) < 34 * Either(u, title) THEN 0
             ELSE Round(w * Common(u, title), Either(u, title))
    BY <1>5, <2>1 DEF ScoreTitle
  <2>6. t \in more
    BY <2>2
  <2> DEFINE a == Common(t, title)
             b == Either(t, title)
             c == Common(u, title)
             d == Either(u, title)
  <2>7. a * d <= c * b
    <3>1. c * b >= a * d
      BY <2>3, <2>6
    <3> HIDE DEF a, b, c, d
    <3>2. a * d \in Nat /\ c * b \in Nat
      BY <2>4, SMT DEF a, b, c, d
    <3>3. QED
      BY <3>1, <3>2
  <2>8. a \in Nat /\ b \in Nat \ {0} /\ c \in Nat /\ d \in Nat \ {0}
    BY <2>4
  <2>9. /\ ScoreTitle(targets, title, w) = IF 100 * a < 34 * b THEN 0 ELSE Round(w * a, b)
        /\ ScoreTitle(more, title, w) = IF 100 * c < 34 * d THEN 0 ELSE Round(w * c, d)
    BY <2>5
  <2> HIDE DEF a, b, c, d, t, u
  <2>10. Round(w * a, b) <= Round(w * c, d)
    BY <2>7, <2>8, ShareMonotone
  <2>11. 100 * a >= 34 * b => 100 * c >= 34 * d
    <3>1. SUFFICES ASSUME 34 * b <= 100 * a PROVE 34 * d <= 100 * c
      BY <2>8
    <3>2. (34 * b) * d <= (100 * a) * d
      BY <2>8, <3>1, TimesMonotone
    <3>3. (34 * d) * b <= (100 * c) * b
      <4>1. /\ (34 * b) * d = (34 * d) * b /\ (100 * a) * d = 100 * (a * d)
            /\ (100 * c) * b = 100 * (c * b) /\ a * d \in Nat /\ c * b \in Nat
            /\ (34 * d) * b \in Nat
        BY <2>8, SMT
      <4>2. QED
        BY <2>7, <3>2, <4>1
    <3>4. QED
      BY <2>8, <3>3, TimesCancels
  <2>12. QED
    BY <1>1, <2>8, <2>9, <2>10, <2>11
<1>6. QED
  BY <1>2, <1>3, <1>4, <1>5

LEMMA IndustryMonotone ==
  ASSUME NEW w \in Nat, NEW industry, NEW preferred, NEW more,
         preferred \subseteq more, preferred = {} => more = {}
  PROVE  ScoreIndustry(industry, preferred, w) <= ScoreIndustry(industry, more, w)
<1>1. Round(7 * w, 10) \in 0 .. w /\ Round(w, 5) \in 0 .. w
  BY RoundBound
<1>2. QED
  BY <1>1 DEF ScoreIndustry

(* score_location: each rule gives at least what the rules it gives way to  *)
(* would, so another place, mode or relocation can only help.               *)
LEMMA LocationMonotone ==
  ASSUME NEW w \in Nat, NEW location, NEW mode, NEW c, NEW d,
         c.places \subseteq d.places, c.modes \subseteq d.modes, c.relocation => d.relocation,
         "unknown" \notin c.modes \cup d.modes
  PROVE  ScoreLocation(location, mode, c, w) <= ScoreLocation(location, mode, d, w)
<1> DEFINE here(p)  == LocationMatches(location, p.places)
           there(p) == mode = "remote" \/ here(p)
           Rule(p)  == IF mode = "unknown" THEN (IF here(p) THEN w ELSE w \div 2)
                       ELSE IF mode \notin p.modes
                         THEN (IF p.relocation /\ here(p) THEN Round(w, 2) ELSE Round(w, 10))
                       ELSE IF there(p) THEN w
                       ELSE IF p.relocation THEN Round(3 * w, 5) ELSE Round(w, 5)
<1>1. ScoreLocation(location, mode, c, w) = Rule(c)
  BY DEF ScoreLocation
<1>2. ScoreLocation(location, mode, d, w) = Rule(d)
  BY DEF ScoreLocation
<1>3. here(c) => here(d)
  BY DEF LocationMatches
<1>4. /\ Round(w, 2) \in 0 .. w /\ Round(3 * w, 5) \in 0 .. w /\ w \div 2 \in 0 .. w
      /\ Round(w, 10) \in 0 .. w /\ Round(w, 5) \in 0 .. w
  BY RoundBound
<1>5. Round(w, 10) <= Round(w, 5) /\ Round(w, 10) <= Round(w, 2) /\ Round(w, 5) <= Round(3 * w, 5)
      /\ Round(w, 10) <= Round(3 * w, 5)
  <2>1. /\ w * 5 <= w * 10 /\ w * 2 <= w * 10 /\ w * 5 <= (3 * w) * 5 /\ w * 5 <= (3 * w) * 10
        /\ 3 * w \in Nat
    OBVIOUS
  <2>2. QED
    BY <2>1, RoundMonotone
<1>6. Rule(c) <= Rule(d)
  <2> HIDE DEF here
  <2> QED
    BY <1>3, <1>4, <1>5
<1>7. QED
  BY <1>1, <1>2, <1>6

(* Between the minimum and the wish the score is linear, and rises when     *)
(* both fall.                                                               *)
LEMMA LineMonotone ==
  ASSUME NEW w \in Nat, NEW ref \in Nat, NEW m \in Nat, NEW n \in Nat, NEW k \in Nat, NEW l \in Nat,
         k <= m, l <= n, m <= ref, ref < l
  PROVE  Round(w * (6 * (n - m) + 4 * (ref - m)), 10 * (n - m))
           <= Round(w * (6 * (l - k) + 4 * (ref - k)), 10 * (l - k))
<1> DEFINE y == ref - m
           x == ref - k
           t == n - ref
           s == l - ref
<1>1. /\ x \in Nat /\ y \in Nat /\ s \in Nat \ {0} /\ t \in Nat \ {0} /\ y <= x /\ s <= t
      /\ n - m = y + t /\ l - k = x + s /\ ref - m = y /\ ref - k = x
  OBVIOUS
<1> HIDE DEF x, y, s, t
<1>2. (6 * (y + t) + 4 * y) * (10 * (x + s)) <= (6 * (x + s) + 4 * x) * (10 * (y + t))
  <2>1. y * s <= x * t
    <3>1. y * s <= x * s /\ x * s <= x * t
      BY <1>1, TimesMonotone
    <3>2. y * s \in Nat /\ x * s \in Nat /\ x * t \in Nat
      BY <1>1, SMT
    <3>3. QED
      BY <3>1, <3>2
  <2>2. /\ (6 * (y + t) + 4 * y) * (10 * (x + s))
             = 60 * ((y + t) * (x + s)) + 40 * (y * x) + 40 * (y * s)
        /\ (6 * (x + s) + 4 * x) * (10 * (y + t))
             = 60 * ((y + t) * (x + s)) + 40 * (y * x) + 40 * (x * t)
    BY <1>1, SMT
  <2>3. /\ (y + t) * (x + s) \in Nat /\ y * x \in Nat /\ y * s \in Nat /\ x * t \in Nat
    BY <1>1, SMT
  <2>4. QED
    BY <2>1, <2>2, <2>3
<1>3. /\ 6 * (y + t) + 4 * y \in Nat /\ 10 * (y + t) \in Nat \ {0}
      /\ 6 * (x + s) + 4 * x \in Nat /\ 10 * (x + s) \in Nat \ {0}
  BY <1>1
<1>4. Round(w * (6 * (y + t) + 4 * y), 10 * (y + t)) <= Round(w * (6 * (x + s) + 4 * x), 10 * (x + s))
  BY <1>2, <1>3, ShareMonotone
<1>5. QED
  BY <1>1, <1>4

(* Below the minimum it is less than anywhere on the line.                  *)
LEMMA BelowTheLine ==
  ASSUME NEW w \in Nat, NEW ref \in Nat, NEW m \in Nat, NEW k \in Nat, NEW l \in Nat,
         k <= ref, ref < m, ref < l
  PROVE  Round(w * (6 * ref), 10 * m) <= Round(w * (6 * (l - k) + 4 * (ref - k)), 10 * (l - k))
<1> DEFINE x == l - k
           z == ref - k
<1>1. x \in Nat \ {0} /\ z \in Nat /\ m \in Nat \ {0}
  OBVIOUS
<1> HIDE DEF x, z
<1>2. (6 * ref) * (10 * x) <= (6 * x + 4 * z) * (10 * m)
  <2>1. ref * x <= m * x /\ m * x \in Nat /\ ref * x \in Nat /\ z * m \in Nat
    <3>1. m * x \in Nat /\ ref * x \in Nat /\ z * m \in Nat
      BY <1>1, SMT
    <3>2. ref * x <= m * x
      BY <1>1, TimesMonotone
    <3>3. QED
      BY <3>1, <3>2
  <2>2. /\ (6 * ref) * (10 * x) = 60 * (ref * x)
        /\ (6 * x + 4 * z) * (10 * m) = 60 * (m * x) + 40 * (z * m)
    BY <1>1, SMT
  <2>3. QED
    BY <2>1, <2>2
<1>3. 6 * ref \in Nat /\ 10 * m \in Nat \ {0} /\ 6 * x + 4 * z \in Nat /\ 10 * x \in Nat \ {0}
  BY <1>1
<1>4. Round(w * (6 * ref), 10 * m) <= Round(w * (6 * x + 4 * z), 10 * x)
  BY <1>2, <1>3, ShareMonotone
<1>5. QED
  BY <1>4 DEF x, z

(* score_salary: the full score from the wish on, 0.6 at the minimum and    *)
(* the line between the two only rise when minimum and wish fall.           *)
LEMMA SalaryMonotone ==
  ASSUME NEW w \in Nat, NEW j, NEW c, NEW d,
         j.salary_min \in Nat \cup {Unknown}, j.salary_max \in Nat \cup {Unknown},
         c.minimum \in Nat, c.wish \in Nat, d.minimum \in Nat, d.wish \in Nat,
         d.minimum <= c.minimum, d.wish <= c.wish, d.wish = 0 => c.wish = 0,
         d.currency = c.currency
  PROVE  ScoreSalary(j, c, w) <= ScoreSalary(j, d, w)
<1> DEFINE ref == IF Known(j.salary_max) THEN j.salary_max ELSE j.salary_min
           Below(m)      == Round(w * (6 * ref), 10 * m)
           Between(m, n) == Round(w * (6 * (n - m) + 4 * (ref - m)), 10 * (n - m))
           Line(m, n) == IF (n > 0 /\ ref >= n) \/ m = 0 THEN w
                         ELSE IF ref < m THEN Below(m)
                         ELSE IF n <= m THEN w
                         ELSE Between(m, n)
           Judged == Known(ref) /\ j.currency \in {"none", c.currency}
<1>1. /\ ScoreSalary(j, c, w) \in 0 .. w
      /\ ScoreSalary(j, d, w) \in 0 .. w
  BY SalaryBound
<1>2. CASE ~Judged
  <2>1. ScoreSalary(j, c, w) = ScoreSalary(j, d, w)
    BY <1>2 DEF ScoreSalary
  <2>2. QED
    BY <1>1, <2>1
<1>3. CASE Judged
  <2>1. ScoreSalary(j, c, w) = Line(c.minimum, c.wish)
    BY <1>3 DEF ScoreSalary
  <2>2. ScoreSalary(j, d, w) = Line(d.minimum, d.wish)
    BY <1>3 DEF ScoreSalary
  <2>3. ref \in Nat
    BY <1>3 DEF Known
  <2> HIDE DEF ref
  <2>4. PICK m \in Nat, n \in Nat, k \in Nat, l \in Nat :
          m = c.minimum /\ n = c.wish /\ k = d.minimum /\ l = d.wish
    OBVIOUS
  <2>5. k <= m /\ l <= n /\ (l = 0 => n = 0)
    BY <2>4
  <2>6. Line(m, n) <= Line(k, l)
    <3>1. Line(m, n) \in 0 .. w
      BY <1>1, <2>1, <2>4
    <3>2. CASE Line(k, l) = w
      <4> HIDE DEF Line
      <4> QED
        BY <3>1, <3>2
    <3>3. CASE Line(k, l) # w
      <4>1. k # 0 /\ ~(l > 0 /\ ref >= l)
        BY <3>3
      <4>2. m # 0 /\ ~(n > 0 /\ ref >= n)
        BY <2>3, <2>5, <4>1
      <4>3. CASE ref < k
        <5>1. Line(k, l) = Below(k) /\ Line(m, n) = Below(m)
          BY <2>3, <2>5, <4>1, <4>2, <4>3
        <5>2. Below(m) <= Below(k)
          <6>1. 6 * ref \in Nat /\ 10 * m \in Nat \ {0} /\ 10 * k \in Nat \ {0} /\ 10 * k <= 10 * m
            BY <2>3, <2>5, <4>1, <4>2
          <6>2. (6 * ref) * (10 * k) <= (6 * ref) * (10 * m)
            BY <6>1, TimesMonotone
          <6>3. QED
            BY <6>1, <6>2, ShareMonotone
        <5>3. QED
          BY <5>1, <5>2
      <4>4. CASE ref >= k
        <5>1. l > k /\ ref < l /\ l <= n
          BY <2>3, <2>5, <3>3, <4>1, <4>4
        <5>2. Line(k, l) = Between(k, l)
          BY <2>3, <4>1, <4>4, <5>1
        <5>3. CASE ref < m
          <6>1. Line(m, n) = Below(m)
            BY <2>3, <4>2, <5>3
          <6>2. Below(m) <= Between(k, l)
            BY <2>3, <4>4, <5>1, <5>3, BelowTheLine
          <6>3. QED
            BY <5>2, <6>1, <6>2
        <5>4. CASE ref >= m
          <6>1. Line(m, n) = Between(m, n)
            BY <2>3, <4>2, <5>1, <5>4
          <6>2. Between(m, n) <= Between(k, l)
            BY <2>3, <2>5, <5>1, <5>4, LineMonotone
          <6>3. QED
            BY <5>2, <6>1, <6>2
        <5>5. QED
          BY <2>3, <5>3, <5>4
      <4>5. QED
        BY <2>3, <4>3, <4>4
    <3>4. QED
      BY <3>2, <3>3
  <2>7. QED
    BY <2>1, <2>2, <2>4, <2>6
<1>4. QED
  BY <1>2, <1>3

-----------------------------------------------------------------------------
(* Theorems *)

(* Every edit and every import leaves a well-formed profile.                *)
THEOREM TypeCorrect == Spec => []TypeOK
<1>1. Init => TypeOK
  BY MatchingAssumption DEF Init, TypeOK, NoResume, Resumes
<1>2. TypeOK /\ [Next]_vars => TypeOK'
  <2> SUFFICES ASSUME TypeOK, [Next]_vars PROVE TypeOK'
    OBVIOUS
  <2>1. ASSUME NEW p \in Preferences, UpdatePreferences(p) PROVE TypeOK'
    BY <2>1, MatchingAssumption DEF UpdatePreferences, TypeOK
  <2>2. ASSUME NEW skills \in SUBSET Spellings, NEW years \in Tenures \cup {Unknown},
               ImportResume(skills, years)
        PROVE  TypeOK'
    BY <2>2, MatchingAssumption DEF ImportResume, TypeOK, Resumes
  <2>3. (\E p \in Preferences : UpdatePreferences(p)) \/
        (\E skills \in SUBSET Spellings, years \in Tenures \cup {Unknown} :
           ImportResume(skills, years)) \/ UNCHANGED vars
    <3>1. ASSUME NEW targets \in SUBSET Titles
          PROVE  [preferences EXCEPT !.targets = targets] \in Preferences
      BY DEF TypeOK, Preferences
    <3>2. ASSUME NEW industries \in SUBSET Industries
          PROVE  [preferences EXCEPT !.industries = industries] \in Preferences
      BY DEF TypeOK, Preferences
    <3>3. ASSUME NEW stated \in SUBSET Spellings
          PROVE  [preferences EXCEPT !.stated = stated] \in Preferences
      BY DEF TypeOK, Preferences
    <3>4. ASSUME NEW places \in SUBSET Places, NEW modes \in SUBSET Modes,
                 NEW relocation \in BOOLEAN
          PROVE  [preferences EXCEPT !.places = places, !.modes = modes,
                                     !.relocation = relocation] \in Preferences
      BY DEF TypeOK, Preferences
    <3>5. ASSUME NEW minimum \in Amounts, NEW wish \in Amounts,
                 NEW currency \in {"preferred", "other"}
          PROVE  [preferences EXCEPT !.minimum = minimum, !.wish = wish,
                                     !.currency = currency] \in Preferences
      BY DEF TypeOK, Preferences
    <3>6. QED
      BY <3>1, <3>2, <3>3, <3>4, <3>5 DEF Next
  <2>4. CASE UNCHANGED vars
    BY <2>4 DEF vars, TypeOK
  <2>5. QED
    BY <2>1, <2>2, <2>3, <2>4
<1>3. QED
  BY <1>1, <1>2, PTL DEF Spec

(* score_job: no component passes its weight, for all weights, amounts,     *)
(* tenures, titles and skills.                                              *)
THEOREM ScoresWithinWeightsHolds == Spec => []ScoresWithinWeights
<1>1. TypeOK => ScoresWithinWeights
  <2> SUFFICES ASSUME TypeOK PROVE ScoresWithinWeights
    OBVIOUS
  <2> DEFINE c == Candidate(preferences, resume)
  <2>1. /\ c.targets \in SUBSET Titles /\ c.minimum \in Nat /\ c.wish \in Nat
        /\ c.years \in Nat \cup {Unknown}
    BY MatchingAssumption DEF TypeOK, Preferences, Resumes, Candidate
  <2>2. /\ job.title \in Titles
        /\ job.required \in Seq(Spellings) /\ job.preferred \in Seq(Spellings)
        /\ {job.minimum_experience, job.maximum_experience, job.salary_min, job.salary_max}
             \subseteq Nat \cup {Unknown}
    BY JobsAssumption DEF TypeOK
  <2>3. /\ DOMAIN Weights = {"title", "skills", "experience", "industry", "location", "compensation"}
        /\ \A part \in DOMAIN Weights : Weights[part] \in Nat
    BY MatchingAssumption
  <2> HIDE DEF c
  <2>4. /\ ScoreTitle(c.targets, job.title, Weights.title) \in 0 .. Weights.title
        /\ ScoreSkills(c.skills, job.required, job.preferred, Weights.skills) \in 0 .. Weights.skills
        /\ ScoreExperience(c.years, job.minimum_experience, job.maximum_experience,
                           Weights.experience) \in 0 .. Weights.experience
        /\ ScoreIndustry(job.industry, c.industries, Weights.industry) \in 0 .. Weights.industry
        /\ ScoreLocation(job.location, job.work_mode, c, Weights.location) \in 0 .. Weights.location
        /\ ScoreSalary(job, c, Weights.compensation) \in 0 .. Weights.compensation
    BY <2>1, <2>2, <2>3, TitleBound, SkillsBound, ExperienceBound, IndustryBound,
       LocationBound, SalaryBound
  <2>5. Score = Breakdown(job, c, Weights)
    BY DEF Score, c
  <2>6. QED
    BY <2>3, <2>4, <2>5 DEF Breakdown, ScoresWithinWeights
<1>2. QED
  BY <1>1, TypeCorrect, PTL

(* normalize_skill: for every table of aliases the spelling of a skill is   *)
(* of no consequence, on either side.                                       *)
THEOREM SpellingDoesNotMatterHolds == Spec => []SpellingDoesNotMatter
<1>1. TypeOK => SpellingDoesNotMatter
  <2> SUFFICES ASSUME TypeOK, NEW f \in Respellings
               PROVE  Score.skills =
                        ScoreSkills({f[s] : s \in preferences.stated \cup resume.skills},
                                    [i \in DOMAIN job.required |-> f[job.required[i]]],
                                    [i \in DOMAIN job.preferred |-> f[job.preferred[i]]],
                                    Weights.skills)
    BY DEF SpellingDoesNotMatter
  <2> DEFINE skills == preferences.stated \cup resume.skills
             spelled == {f[s] : s \in skills}
             Spelled(asked) == [i \in DOMAIN asked |-> f[asked[i]]]
  <2>1. skills \subseteq Spellings /\ job.required \in Seq(Spellings)
        /\ job.preferred \in Seq(Spellings)
    BY JobsAssumption DEF TypeOK, Preferences, Resumes
  <2>2. f \in [Spellings -> Spellings] /\ \A s \in Spellings : Canonical[f[s]] = Canonical[s]
    BY DEF Respellings
  <2>3. Normalized(spelled) = Normalized(skills)
    BY <2>1, <2>2 DEF Normalized
  <2>4. ASSUME NEW asked \in Seq(Spellings)
        PROVE  /\ Spelled(asked) \in Seq(Spellings)
               /\ Len(Spelled(asked)) = Len(asked)
               /\ Spelled(asked) = <<>> <=> asked = <<>>
               /\ Matched(spelled, Spelled(asked)) = Matched(skills, asked)
    <3>1. /\ Spelled(asked) \in Seq(Spellings) /\ Len(Spelled(asked)) = Len(asked)
          /\ DOMAIN Spelled(asked) = DOMAIN asked
      BY <2>2
    <3>2. \A i \in DOMAIN asked : Canonical[Spelled(asked)[i]] = Canonical[asked[i]]
      BY <2>2
    <3>3. {i \in DOMAIN Spelled(asked) : Canonical[Spelled(asked)[i]] \in Normalized(spelled)}
            = {i \in DOMAIN asked : Canonical[asked[i]] \in Normalized(skills)}
      BY <2>3, <3>1, <3>2
    <3>4. Spelled(asked) = <<>> <=> asked = <<>>
      BY <3>1
    <3>5. QED
      BY <3>1, <3>3, <3>4 DEF Matched
  <2>5. ScoreSkills(spelled, Spelled(job.required), Spelled(job.preferred), Weights.skills)
          = ScoreSkills(skills, job.required, job.preferred, Weights.skills)
    <3> HIDE DEF Spelled, spelled, skills
    <3> QED
      BY <2>1, <2>4 DEF ScoreSkills
  <2>6. Score.skills = ScoreSkills(skills, job.required, job.preferred, Weights.skills)
    BY DEF Score, Breakdown, Candidate
  <2>7. QED
    BY <2>5, <2>6
<1>2. QED
  BY <1>1, TypeCorrect, PTL
(* match_title, match_skills, score_location, score_salary: whoever widens  *)
(* the search or adds skills loses no points with any posting, for all      *)
(* weights, word lists, amounts and places.                                 *)
THEOREM WideningNeverLowersHolds == Spec => WideningNeverLowers
<1>1. /\ TypeOK /\ TypeOK' /\ ScoresWithinWeights /\ ScoresWithinWeights'
      /\ [Next]_vars
      => [Widened => Overall100(Score') >= Overall100(Score)]_vars
  <2> SUFFICES ASSUME TypeOK, TypeOK', ScoresWithinWeights, ScoresWithinWeights', Next, Widened
               PROVE  Overall100(Score') >= Overall100(Score)
    OBVIOUS
  <2>1. job' = job
    BY DEF Next, UpdatePreferences, ImportResume
  <2> DEFINE c == Candidate(preferences, resume)
             d == Candidate(preferences', resume')
  <2>2. /\ c.targets \in SUBSET Titles /\ c.minimum \in Nat /\ c.wish \in Nat
        /\ c.years \in Nat \cup {Unknown} /\ "unknown" \notin c.modes
    BY MatchingAssumption DEF TypeOK, Preferences, Resumes, Candidate, Modes
  <2>3. /\ d.targets \in SUBSET Titles /\ d.minimum \in Nat /\ d.wish \in Nat
        /\ d.years \in Nat \cup {Unknown} /\ "unknown" \notin d.modes
    BY MatchingAssumption DEF TypeOK, Preferences, Resumes, Candidate, Modes
  <2>4. /\ c.targets \subseteq d.targets /\ (c.targets = {} => d.targets = {})
        /\ c.industries \subseteq d.industries /\ (c.industries = {} => d.industries = {})
        /\ c.skills \subseteq d.skills
        /\ c.places \subseteq d.places /\ c.modes \subseteq d.modes
        /\ c.relocation => d.relocation
    BY DEF Widened, Candidate
  <2>5. /\ d.minimum <= c.minimum /\ d.wish <= c.wish /\ (d.wish = 0 => c.wish = 0)
        /\ d.currency = c.currency /\ d.years = c.years
    BY DEF Widened, Candidate
  <2>6. /\ job.title \in Titles
        /\ job.required \in Seq(Spellings) /\ job.preferred \in Seq(Spellings)
        /\ {job.minimum_experience, job.maximum_experience, job.salary_min, job.salary_max}
             \subseteq Nat \cup {Unknown}
    BY JobsAssumption DEF TypeOK
  <2>7. \A part \in {"title", "skills", "experience", "industry", "location", "compensation"} :
          Weights[part] \in Nat
    BY MatchingAssumption
  <2>8. Score = Breakdown(job, c, Weights)
    BY DEF Score
  <2>9. Score' = Breakdown(job, d, Weights)
    BY <2>1 DEF Score, Breakdown, Candidate
  <2> HIDE DEF c, d
  <2>10. Score.title <= Breakdown(job, d, Weights).title
    BY <2>2, <2>3, <2>4, <2>6, <2>7, <2>8, TitleMonotone DEF Breakdown
  <2>11. Score.skills <= Breakdown(job, d, Weights).skills
    BY <2>4, <2>6, <2>7, <2>8, SkillsMonotone DEF Breakdown
  <2>12. Score.experience = Breakdown(job, d, Weights).experience
    BY <2>5, <2>8 DEF Breakdown
  <2>13. Score.industry <= Breakdown(job, d, Weights).industry
    BY <2>4, <2>7, <2>8, IndustryMonotone DEF Breakdown
  <2>14. Score.location <= Breakdown(job, d, Weights).location
    BY <2>2, <2>3, <2>4, <2>7, <2>8, LocationMonotone DEF Breakdown
  <2>15. Score.compensation <= Breakdown(job, d, Weights).compensation
    BY <2>2, <2>3, <2>5, <2>6, <2>7, <2>8, SalaryMonotone DEF Breakdown
  <2>16. /\ \A part \in DOMAIN Weights : Score[part] \in Nat /\ Score'[part] \in Nat
         /\ DOMAIN Weights = {"title", "skills", "experience", "industry", "location", "compensation"}
    BY MatchingAssumption DEF ScoresWithinWeights
  <2>17. QED
    BY <2>9, <2>10, <2>11, <2>12, <2>13, <2>14, <2>15, <2>16 DEF Overall100
<1>2. QED
  BY <1>1, TypeCorrect, ScoresWithinWeightsHolds, PTL DEF Spec, WideningNeverLowers

=============================================================================
