--------------------------- MODULE PipelineProofs ---------------------------
(***************************************************************************)
(* What holds of the pipeline's operators for every schema, every text and *)
(* every vote.  Most of it follows a run through the stages, twice: each   *)
(* is a loop, or a loop in a loop, and an instance of FoldInduction says   *)
(* what the loop keeps.  The first time it is the shape of a run and what  *)
(* its columns are placed on, the second time (from Waits on) that the     *)
(* questions count the records that wait for them.                         *)
(***************************************************************************)
EXTENDS Pipeline, FiniteSetTheorems, SequenceTheorems, TLAPS

(***************************** cleaning a value ****************************)

\* What cleaning lets through meets the field's pattern.
Meets(field, value) == FieldSpec[field].pattern = None \/ Fits(FieldSpec[field].pattern, value)

\* Spacing and punctuation go only where the field's pattern is met by it.
LEMMA FitPatternFits ==
  ASSUME NEW text, NEW field, FitPattern(text, field).safe
  PROVE  Meets(field, FitPattern(text, field).value)
BY DEF FitPattern, Safe, Unsafe, Meets

\* An identifier is not touched.
LEMMA RequirePatternFits ==
  ASSUME NEW text, NEW field, RequirePattern(text, field).safe
  PROVE  /\ Meets(field, RequirePattern(text, field).value)
         /\ RequirePattern(text, field).value = text
BY DEF RequirePattern, Safe, Unsafe, Meets

\* An allowed value differs from the text in case and punctuation only.
LEMMA CleanEnumFits ==
  ASSUME NEW text, NEW field, CleanEnum(text, field).safe
  PROVE  Meets(field, CleanEnum(text, field).value)
<1> DEFINE same == SelectSeq(FieldSpec[field].allowed, LAMBDA a : EnumKey(a) = EnumKey(text))
<1>1. CASE same # <<>>
  <2>1. CleanEnum(text, field) = FitPattern(Head(same), field)
    BY <1>1 DEF CleanEnum
  <2>2. QED
    BY <2>1, FitPatternFits
<1>2. CASE same = <<>>
  <2>1. CleanEnum(text, field) = Unsafe(Range(FieldSpec[field].allowed))
    BY <1>2 DEF CleanEnum
  <2>2. QED
    BY <2>1 DEF Unsafe
<1>3. QED
  BY <1>1, <1>2

\* A text cleaned without asking meets the pattern its field is checked
\* against later, whatever the text and the plan: cleanup never makes a value
\* that validation refuses by its form.  Dates and numbers change their form.
THEOREM CleanedMeetsPattern ==
  ASSUME NEW raw, NEW field \in FieldNames, NEW plan,
         FieldSpec[field].type \notin {"date", "number"},
         Clean(raw, field, plan).safe,
         Clean(raw, field, plan).value # None
  PROVE  Meets(field, Clean(raw, field, plan).value)
<1> DEFINE text == Trimmed(raw)
           type == FieldSpec[field].type
           cleaned == Clean(raw, field, plan)
<1>1. ~(raw = None \/ text \in NullMarkers)
  BY DEF Clean, Safe
<1>2. CASE FieldSpec[field].caseSensitive
  <2>1. cleaned = RequirePattern(text, field)
    BY <1>1, <1>2 DEF Clean
  <2>2. QED
    BY <2>1, RequirePatternFits
<1>3. CASE ~FieldSpec[field].caseSensitive
  <2>1. type \in {"string", "boolean", "email", "enum"}
    BY SchemaAssumption DEF Types
  <2>2. CASE type = "email"
    <3>1. cleaned = FitPattern(LowerDomain(text), field)
      BY <1>1, <1>3, <2>2 DEF Clean
    <3>2. QED
      BY <3>1, FitPatternFits
  <2>3. CASE type = "enum"
    <3>1. cleaned = CleanEnum(text, field)
      BY <1>1, <1>3, <2>3 DEF Clean
    <3>2. QED
      BY <3>1, CleanEnumFits
  <2>4. CASE type \in {"string", "boolean"}
    <3>1. cleaned = FitPattern(text, field)
      BY <1>1, <1>3, <2>4 DEF Clean
    <3>2. QED
      BY <3>1, FitPatternFits
  <2>5. QED
    BY <2>1, <2>2, <2>3, <2>4
<1>4. QED
  BY <1>2, <1>3

(**************************** placing a column *****************************)

\* A quotient is reached by its multiple.
LEMMA QuotientBound ==
  ASSUME NEW n \in Nat, n \div 100 >= 5000
  PROVE  n >= 500000
OBVIOUS

\* A sum of three parts of one number and one of another that is at most the
\* whole scale reaches half of it only if the first is a third.
LEMMA LargerPart ==
  ASSUME NEW m \in Nat, NEW v \in Nat, v <= 10000, 75 * m + 25 * v >= 500000
  PROVE  m >= 3333
OBVIOUS

\* A model's vote alone never makes a field a column's: a candidate that is
\* good enough to be applied or asked about passes the vetoes and has a third
\* of the measured evidence, whatever the columns, the field and the votes
\* (Evidence.score, Thresholds).
THEOREM CandidateNeedsEvidence ==
  ASSUME NEW profile, NEW field, NEW votes,
         MeasuredScore(profile, field) \in Nat,
         \A f \in DOMAIN votes : votes[f] \in Shares,
         Score(profile, field, votes) >= ReviewFloor
  PROVE  /\ ~Vetoed(profile, field)
         /\ MeasuredScore(profile, field) >= 3333
<1> DEFINE measured == MeasuredScore(profile, field)
<1>1. ~Vetoed(profile, field)
  BY DEF Score, ReviewFloor
<1>2. CASE field \notin DOMAIN votes
  <2>1. measured >= ReviewFloor
    BY <1>1, <1>2 DEF Score
  <2>2. QED
    BY <1>1, <2>1 DEF ReviewFloor
<1>3. CASE field \in DOMAIN votes
  <2>1. PICK vote \in Shares : vote = votes[field]
    BY <1>3
  <2>2. (75 * measured + 25 * vote) \div 100 >= 5000
    BY <1>1, <1>3, <2>1 DEF Score, ReviewFloor, VoteCap
  <2> DEFINE sum == 75 * measured + 25 * vote
  <2>3. sum \in Nat
    BY DEF Shares, Whole
  <2>4. sum >= 500000
    <3> HIDE DEF sum
    <3>1. sum \div 100 >= 5000
      BY <2>2 DEF sum
    <3>2. QED
      BY <2>3, <3>1, QuotientBound
  <2>5. measured >= 3333
    <3>1. vote \in Nat /\ vote <= 10000
      BY DEF Shares, Whole
    <3> HIDE DEF measured
    <3>2. QED
      BY <2>4, <3>1, LargerPart DEF measured
  <2>6. QED
    BY <1>1, <2>5
<1>4. QED
  BY <1>2, <1>3

\* A column is placed without asking only on a best candidate that is above
\* the floor, and in that candidate's field.
THEOREM AppliedIsTheBest ==
  ASSUME NEW mapping, {"decision", "field"} \subseteq DOMAIN mapping,
         Decided(mapping).decision = "auto_apply"
  PROVE  LET best == Ranked(mapping.candidates)[1]
         IN  /\ ~(best.score < ReviewFloor)
             /\ Decided(mapping).field = best.field
<1> DEFINE ranked == Ranked(mapping.candidates)
           gap == ranked[1].score - (IF Len(ranked) > 1 THEN ranked[2].score ELSE 0)
           with(decision, field) == [mapping EXCEPT !.decision = decision, !.field = field]
<1>1. Decided(mapping) = IF ranked = <<>> \/ ranked[1].score < ReviewFloor THEN with("unmapped", None)
                         ELSE IF (ranked[1].score >= AutoApply /\ gap >= GapNeeded) \/ gap >= DecisiveGap
                           THEN with("auto_apply", ranked[1].field)
                         ELSE with("review", None)
  BY DEF Decided
<1> HIDE DEF ranked, gap
<1>2. /\ with("unmapped", None).decision = "unmapped"
      /\ with("review", None).decision = "review"
      /\ with("auto_apply", ranked[1].field).field = ranked[1].field
  OBVIOUS
<1>3. ~(ranked[1].score < ReviewFloor) /\ Decided(mapping) = with("auto_apply", ranked[1].field)
  BY <1>1, <1>2
<1>4. QED
  BY <1>2, <1>3 DEF ranked

(***************************** taking answers ******************************)

\* What was left out stays left out: no answer to any question brings back a
\* record, a row or a file that an earlier one excluded (apply_decision).
THEOREM LeftOutStays ==
  ASSUME NEW overrides, DOMAIN overrides = DOMAIN NoOverrides,
         NEW case, NEW action, NEW answer
  PROVE  LET after == ApplyDecision(overrides, case, action, answer)
         IN  /\ overrides.excluded \subseteq after.excluded
             /\ overrides.ignored \subseteq after.ignored
<1> DEFINE Keeps(after) == /\ overrides.excluded \subseteq after.excluded
                           /\ overrides.ignored \subseteq after.ignored
<1>0. {"columnMap", "constants", "values", "merge", "excluded", "formats", "valueMap", "ignored",
       "authority"} = DOMAIN overrides
  BY DEF NoOverrides
<1>1. Keeps(overrides)
  OBVIOUS
<1>2. Keeps(Reject(overrides, case))
  BY <1>0 DEF Reject
<1>3. Keeps([overrides EXCEPT !.ignored = @ \cup {case.wholeFile}])
  BY <1>0
<1>4. ASSUME NEW kind, NEW value PROVE Keeps(Answer(overrides, case, kind, value))
  <2>1. Keeps(AnswerUnmapped(overrides, case, kind, value))
    BY <1>0 DEF AnswerUnmapped
  <2>2. Keeps(AnswerIdentity(overrides, case, value))
    BY <1>0 DEF AnswerIdentity
  <2>3. Keeps(TrustFirst(overrides, value))
    BY <1>0 DEF TrustFirst
  <2>4. /\ \A v : Keeps([overrides EXCEPT !.columnMap = v])
        /\ \A v : Keeps([overrides EXCEPT !.valueMap = v])
        /\ \A v : Keeps([overrides EXCEPT !.formats = v])
        /\ \A v : Keeps([overrides EXCEPT !.values = v])
    BY <1>0
  <2>5. QED
    BY <1>1, <2>1, <2>2, <2>3, <2>4 DEF Answer
<1>5. QED
  BY <1>1, <1>2, <1>3, <1>4 DEF ApplyDecision

(**************************** loops and sequences **************************)

IsSeq(s) == \E S : s \in Seq(S)

\* A list has its places and nothing else.
LEMMA SeqIs ==
  ASSUME NEW s, IsSeq(s)
  PROVE  /\ Len(s) \in Nat /\ DOMAIN s = 1..Len(s)
         /\ s = [i \in DOMAIN s |-> s[i]]
         /\ s \in Seq({s[i] : i \in DOMAIN s})
<1>1. PICK S : s \in Seq(S)
  BY DEF IsSeq
<1>2. Len(s) \in Nat /\ DOMAIN s = 1..Len(s) /\ s \in [1..Len(s) -> S]
  BY <1>1, LenProperties
<1>3. s \in [1..Len(s) -> {s[i] : i \in DOMAIN s}]
  BY <1>2
<1>4. s \in Seq({s[i] : i \in DOMAIN s})
  BY <1>2, <1>3, SeqDef
<1>5. QED
  BY <1>2, <1>4

\* A function of 1..n is a list of length n.
LEMMA SeqMade ==
  ASSUME NEW n \in Nat, NEW s, s = [i \in 1..n |-> s[i]]
  PROVE  /\ IsSeq(s) /\ Len(s) = n
         /\ s \in Seq({s[i] : i \in 1..n})
<1>1. s \in [1..n -> {s[i] : i \in 1..n}]
  OBVIOUS
<1>2. s \in Seq({s[i] : i \in 1..n})
  BY <1>1, SeqDef
<1>3. Len(s) = n
  BY <1>1, <1>2, LenProperties
<1>4. QED
  BY <1>2, <1>3 DEF IsSeq

\* The empty list.
LEMMA SeqEmpty == IsSeq(<<>>) /\ Len(<<>>) = 0
BY EmptySeq DEF IsSeq

\* One more element at the end.
LEMMA SeqAppend ==
  ASSUME NEW s, IsSeq(s), NEW e
  PROVE  /\ IsSeq(Append(s, e)) /\ Len(Append(s, e)) = Len(s) + 1
         /\ \A i \in 1..(Len(s) + 1) : Append(s, e)[i] = IF i <= Len(s) THEN s[i] ELSE e
<1>1. PICK S : s \in Seq(S)
  BY DEF IsSeq
<1>2. s \in Seq(S \cup {e})
  BY <1>1, SeqMonotonic
<1>3. Append(s, e) \in Seq(S \cup {e})
  BY <1>2, AppendProperties
<1>4. QED
  BY <1>2, <1>3, AppendProperties DEF IsSeq

\* Two lists in one.
LEMMA SeqConcat ==
  ASSUME NEW s, IsSeq(s), NEW t, IsSeq(t)
  PROVE  IsSeq(s \o t)
<1>1. PICK S : s \in Seq(S)
  BY DEF IsSeq
<1>2. PICK T : t \in Seq(T)
  BY DEF IsSeq
<1>3. s \in Seq(S \cup T) /\ t \in Seq(S \cup T)
  BY <1>1, <1>2, SeqMonotonic
<1>4. QED
  BY <1>3, ConcatProperties DEF IsSeq

\* Changing what is at the places changes no place.
LEMMA SeqChanged ==
  ASSUME NEW s, IsSeq(s), NEW t, t = [i \in DOMAIN s |-> t[i]]
  PROVE  IsSeq(t) /\ DOMAIN t = DOMAIN s
<1>1. Len(s) \in Nat /\ DOMAIN s = 1..Len(s)
  BY SeqIs
<1>2. t = [i \in 1..Len(s) |-> t[i]]
  BY <1>1
<1>3. IsSeq(t)
  BY <1>1, <1>2, SeqMade
<1>4. QED
  BY <1>3

(***************************** steps and lists *****************************)

\* Induction over the numbers up to N.
LEMMA Counting ==
  ASSUME NEW N \in Nat, NEW T, 0 \in T, \A n \in 0..(N - 1) : n \in T => n + 1 \in T
  PROVE  \A n \in 0..N : n \in T
<1> DEFINE Bad == {n \in 0..N : n \notin T}
           R == OpToRel(<, Nat)
<1>1. SUFFICES ASSUME Bad # {} PROVE FALSE
  OBVIOUS
<1>2. IsWellFoundedOn(R, Nat)
  BY NatLessThanWellFounded
<1>3. Bad \subseteq Nat
  OBVIOUS
<1> HIDE DEF Bad, R
<1>4. PICK n \in Bad : \A m \in Bad : ~(<<m, n>> \in R)
  BY <1>1, <1>2, <1>3, WFMin
<1>5. \A m \in Bad : ~(m < n)
  BY <1>3, <1>4 DEF R, OpToRel
<1>6. n \in 0..N /\ n \notin T /\ n # 0
  BY DEF Bad
<1>7. n - 1 \in 0..(N - 1) /\ n - 1 < n /\ n - 1 \in 0..N /\ (n - 1) + 1 = n
  BY <1>6
<1>8. n - 1 \in T
  BY <1>5, <1>7 DEF Bad
<1>9. QED
  BY <1>6, <1>7, <1>8

\* A number is reached from 0 step by step.
LEMMA Reaching ==
  \A N \in Nat : \A T :
    0 \in T /\ (\A n \in 0..(N - 1) : n \in T => n + 1 \in T) => N \in T
<1> SUFFICES ASSUME NEW N \in Nat, NEW T, 0 \in T, \A n \in 0..(N - 1) : n \in T => n + 1 \in T
             PROVE  N \in T
  OBVIOUS
<1>1. \A n \in 0..N : n \in T
  BY Counting
<1>2. QED
  BY <1>1

\* The places of a sequence go from 1 to its length, which is reached.
LEMMA SeqReached ==
  ASSUME NEW s, IsSeq(s)
  PROVE  /\ DOMAIN s = 1..Len(s)
         /\ Len(s) \in Nat
         /\ \A T : 0 \in T /\ (\A n \in 0..(Len(s) - 1) : n \in T => n + 1 \in T) => Len(s) \in T
BY SeqIs, Reaching

(****************************** filtering a list ***************************)

ThoseStep(p, q, kept, e) == IF e \in p THEN Append(kept, e) ELSE kept
ThoseInv(p, q, base, n, kept) == IsSeq(kept) /\ \A i \in DOMAIN kept : kept[i] \in p
Filter == INSTANCE FoldInduction WITH Step <- ThoseStep, Inv <- ThoseInv

\* What is left of a list is a list, of what was asked for.
LEMMA ThoseIs ==
  ASSUME NEW s, IsSeq(s), NEW S
  PROVE  IsSeq(Those(s, S)) /\ \A i \in DOMAIN Those(s, S) : Those(s, S)[i] \in S
<1>1. Those(s, S) = Filter!Over(S, None, <<>>, s)
  BY DEF Those, Filter!Over, ThoseStep, Filter!Unfolding, FoldLeft, MapThenFoldSet,
         Filter!Last, Max
<1>2. Filter!Sequence(s)
  BY SeqReached DEF Filter!Sequence, Filter!Reached
<1>3. ThoseInv(S, None, <<>>, 0, <<>>)
  <2>1. DOMAIN <<>> = {}
    OBVIOUS
  <2>2. QED
    BY <2>1, SeqEmpty DEF ThoseInv
<1>4. ASSUME NEW kept, ThoseInv(S, None, <<>>, 0, kept), NEW e
      PROVE  ThoseInv(S, None, <<>>, 0, ThoseStep(S, None, kept, e))
  <2>1. CASE e \in S
    <3>1. IsSeq(kept) /\ \A i \in DOMAIN kept : kept[i] \in S
      BY <1>4 DEF ThoseInv
    <3>2. Len(kept) \in Nat /\ DOMAIN kept = 1..Len(kept)
      BY <3>1, SeqIs
    <3>3. IsSeq(Append(kept, e)) /\ Len(Append(kept, e)) = Len(kept) + 1
      BY <3>1, SeqAppend
    <3>4. DOMAIN Append(kept, e) = 1..(Len(kept) + 1)
      BY <3>3, SeqIs
    <3>5. \A i \in 1..(Len(kept) + 1) : Append(kept, e)[i] = IF i <= Len(kept) THEN kept[i] ELSE e
      BY <3>1, SeqAppend
    <3>6. QED
      BY <2>1, <3>1, <3>2, <3>3, <3>4, <3>5 DEF ThoseInv, ThoseStep
  <2>2. CASE e \notin S
    BY <1>4, <2>2 DEF ThoseInv, ThoseStep
  <2>3. QED
    BY <2>1, <2>2
<1>5. \A n \in 1..Len(s) : \A kept :
        ThoseInv(S, None, <<>>, n - 1, kept) => ThoseInv(S, None, <<>>, n, ThoseStep(S, None, kept, s[n]))
  BY <1>4 DEF ThoseInv
<1>6. ThoseInv(S, None, <<>>, Len(s), Filter!Over(S, None, <<>>, s))
  BY <1>2, <1>3, <1>5, Filter!FoldKeeps
<1>7. QED
  BY <1>1, <1>6 DEF ThoseInv

\* The elements of a finite set one after another.
LEMMA InOrderIs ==
  ASSUME NEW S, IsFiniteSet(S), NEW s, DOMAIN s = 1..Cardinality(S), s = [i \in DOMAIN s |-> s[i]]
  PROVE  IsSeq(s)
BY FS_CardinalityType, SeqMade

\* What a function makes of finitely many things is finite.
LEMMA ImageFinite ==
  ASSUME NEW f, IsFiniteSet(DOMAIN f)
  PROVE  IsFiniteSet({f[x] : x \in DOMAIN f})
<1> DEFINE S == DOMAIN f
           T == {f[x] : x \in S}
           g == [x \in S |-> f[x]]
<1>1. g \in Surjection(S, T)
  BY DEF Surjection
<1>2. IsFiniteSet(T)
  BY <1>1, FS_Surjection
<1>3. QED
  BY <1>2

\* The places of a list are as many as its length.
LEMMA PlacesFinite ==
  ASSUME NEW s, IsSeq(s)
  PROVE  /\ IsFiniteSet(DOMAIN s) /\ Cardinality(DOMAIN s) = Len(s)
         /\ IsFiniteSet({s[i] : i \in DOMAIN s})
<1>1. Len(s) \in Nat /\ DOMAIN s = 1..Len(s)
  BY SeqIs
<1>2. /\ IsFiniteSet(1..Len(s))
      /\ Cardinality(1..Len(s)) = IF 1 > Len(s) THEN 0 ELSE Len(s) - 1 + 1
  BY <1>1, FS_Interval
<1>3. IsFiniteSet({s[i] : i \in DOMAIN s})
  BY <1>1, <1>2, ImageFinite
<1>4. QED
  BY <1>1, <1>2, <1>3

(************************** the shape of a run *****************************)

\* Every question is a review case, and there are lists where the code has
\* lists.
Asked(cases) == IsSeq(cases) /\ \A n \in DOMAIN cases : DOMAIN cases[n] = DOMAIN NoCase

Shaped(run) ==
  /\ DOMAIN run = DOMAIN NewRun
  /\ Asked(run.cases)
  /\ IsSeq(run.records)
  /\ IsFiniteSet(DOMAIN run.applied)

\* The same of a stage's loop, whatever it closes over.
ShapedLoop(p, q, base, n, run) == Shaped(run)

RunFields ==
  {"mappings", "applied", "plans", "cases", "fieldCase", "sharedCase", "formatRows", "valueCase", "built",
   "records", "mergedInto"}

\* The attributes of a run.
LEMMA FieldsOfRun == DOMAIN NewRun = RunFields
BY DEF NewRun, RunFields

\* A replay begins with no questions and no records.
LEMMA NewRunShaped == Shaped(NewRun)
<1>1. IsSeq(<<>>) /\ DOMAIN <<>> = {}
  BY SeqEmpty
<1>2. IsFiniteSet({})
  BY FS_EmptySet
<1>3. DOMAIN NewRun.applied = {} /\ NewRun.cases = <<>> /\ NewRun.records = <<>>
  BY DEF NewRun, NoFunction
<1>4. QED
  BY <1>1, <1>2, <1>3 DEF Shaped, Asked

\* A question more.
LEMMA AskedAppend ==
  ASSUME NEW cases, Asked(cases), NEW case, DOMAIN case = DOMAIN NoCase
  PROVE  Asked(Append(cases, case))
<1>1. IsSeq(cases) /\ \A n \in DOMAIN cases : DOMAIN cases[n] = DOMAIN NoCase
  BY DEF Asked
<1>2. Len(cases) \in Nat /\ DOMAIN cases = 1..Len(cases)
  BY <1>1, SeqIs
<1>3. IsSeq(Append(cases, case)) /\ Len(Append(cases, case)) = Len(cases) + 1
  BY <1>1, SeqAppend
<1>4. DOMAIN Append(cases, case) = 1..(Len(cases) + 1)
  BY <1>3, SeqIs
<1>5. \A i \in 1..(Len(cases) + 1) : Append(cases, case)[i] = IF i <= Len(cases) THEN cases[i] ELSE case
  BY <1>1, SeqAppend
<1>6. QED
  BY <1>1, <1>2, <1>3, <1>4, <1>5 DEF Asked

\* The questions, each of them changed.
LEMMA AskedChanged ==
  ASSUME NEW cases, Asked(cases), NEW after, after = [n \in DOMAIN cases |-> after[n]],
         \A n \in DOMAIN cases : DOMAIN after[n] = DOMAIN NoCase
  PROVE  Asked(after)
BY SeqChanged DEF Asked

\* _case adds a question.
LEMMA ShapedRaise ==
  ASSUME NEW run, Shaped(run), NEW case, DOMAIN case = DOMAIN NoCase
  PROVE  Shaped(Raise(run, case))
<1>1. Asked(Append(run.cases, case))
  BY AskedAppend DEF Shaped
<1>2. QED
  BY <1>1, FieldsOfRun DEF Shaped, Raise, RunFields

\* A question that is changed is a question still, whether it is there or not.
LEMMA ShapedCase ==
  ASSUME NEW run, Shaped(run), NEW n, NEW case, DOMAIN case = DOMAIN run.cases[n]
  PROVE  Shaped([run EXCEPT !.cases[n] = case])
<1> DEFINE after == [run.cases EXCEPT ![n] = case]
<1>1. Asked(after)
  <2>1. after = [m \in DOMAIN run.cases |-> after[m]]
    OBVIOUS
  <2>2. \A m \in DOMAIN run.cases : DOMAIN after[m] = DOMAIN NoCase
    BY DEF Shaped, Asked
  <2> HIDE DEF after
  <2>3. QED
    BY <2>1, <2>2, AskedChanged DEF Shaped
<1>2. QED
  BY <1>1, FieldsOfRun DEF Shaped, RunFields

\* The records, each of them changed.
LEMMA ShapedRecords ==
  ASSUME NEW run, Shaped(run), NEW records, records = [i \in DOMAIN run.records |-> records[i]]
  PROVE  Shaped([run EXCEPT !.records = records])
<1>1. IsSeq(records)
  BY SeqChanged DEF Shaped
<1>2. QED
  BY <1>1, FieldsOfRun DEF Shaped, RunFields

(************************** mapping the columns ****************************)

Listed(p, q, base, n, s) == IsSeq(s)
SettleStep(mappings, q, done, claim) ==
  [i \in DOMAIN done |-> IF done[i].field = claim.field /\ i # WinnerOf(mappings, claim.field)
                           THEN TakeBack(done[i], claim.field) ELSE done[i]]
Settling == INSTANCE FoldInduction WITH Step <- SettleStep, Inv <- Listed

\* Settling which column holds a field changes mappings and drops none.
LEMMA ResolveIsSeq ==
  ASSUME NEW mappings, IsSeq(mappings)
  PROVE  IsSeq(ResolveWithinFile(mappings))
<1> DEFINE placed == {i \in DOMAIN mappings : mappings[i].decision = "auto_apply"}
           firsts == {i \in placed : \A j \in placed : mappings[j].field = mappings[i].field => i <= j}
           claims == Those(mappings, {mappings[i] : i \in firsts})
<1>1. ResolveWithinFile(mappings) = Settling!Over(mappings, None, mappings, claims)
  BY DEF ResolveWithinFile, Settling!Over, SettleStep, Settling!Unfolding, FoldLeft,
         MapThenFoldSet, Settling!Last, Max
<1>2. IsSeq(claims)
  BY ThoseIs
<1> HIDE DEF claims
<1>3. Settling!Sequence(claims)
  BY <1>2, SeqReached DEF Settling!Sequence, Settling!Reached
<1>4. ASSUME NEW done, IsSeq(done), NEW claim PROVE IsSeq(SettleStep(mappings, None, done, claim))
  <2> DEFINE after == SettleStep(mappings, None, done, claim)
  <2>1. after = [i \in DOMAIN done |-> after[i]]
    BY DEF SettleStep
  <2> HIDE DEF after
  <2>2. IsSeq(after)
    BY <1>4, <2>1, SeqChanged
  <2>3. QED
    BY <2>2 DEF after
<1>5. Listed(mappings, None, mappings, Len(claims), Settling!Over(mappings, None, mappings, claims))
  BY <1>3, <1>4, Settling!FoldKeeps DEF Listed
<1>6. QED
  BY <1>1, <1>5 DEF Listed

\* What else is noted of a run leaves its shape.
LEMMA ShapedNote ==
  ASSUME NEW run, Shaped(run), NEW f \in RunFields \ {"cases", "records", "applied"}, NEW v
  PROVE  Shaped([run EXCEPT ![f] = v])
BY FieldsOfRun DEF Shaped, RunFields

\* One more column is applied.
LEMMA ShapedApplied ==
  ASSUME NEW run, Shaped(run), NEW at, NEW field
  PROVE  Shaped([run EXCEPT !.applied = Put(@, at, field)])
<1> DEFINE after == Put(run.applied, at, field)
<1>1. IsFiniteSet(DOMAIN after)
  <2>1. DOMAIN after = DOMAIN run.applied \cup {at}
    BY DEF Put
  <2>2. QED
    BY <2>1, FS_AddElement DEF Shaped
<1> HIDE DEF after
<1>2. Shaped([run EXCEPT !.applied = after])
  BY <1>1, FieldsOfRun DEF Shaped, RunFields
<1>3. QED
  BY <1>2 DEF after

\* _ambiguous_mapping.
LEMMA ColumnShaped ==
  ASSUME NEW run, Shaped(run), NEW mapping
  PROVE  Shaped(AskAboutColumn(run, mapping))
<1> DEFINE first == FirstShown(Ranked(mapping.candidates))
           shown == {first[i].field : i \in DOMAIN first}
           case  == [NoCase EXCEPT !.klass = "AMBIGUOUS_MAPPING", !.file = mapping.file,
                              !.column = mapping.column,
                              !.options = {<<"field", f>> : f \in shown}]
           raised == Raise(run, case)
           fields == SetDefault(raised.fieldCase, {<<mapping.file, f>> : f \in shown}, Len(run.cases) + 1)
<1>1. AskAboutColumn(run, mapping) = [raised EXCEPT !["fieldCase"] = fields]
  BY DEF AskAboutColumn
<1>2. DOMAIN case = DOMAIN NoCase
  OBVIOUS
<1> HIDE DEF case, fields
<1>3. Shaped(raised)
  BY <1>2, ShapedRaise
<1> HIDE DEF raised
<1>4. Shaped([raised EXCEPT !["fieldCase"] = fields])
  BY <1>3, ShapedNote DEF RunFields
<1>5. QED
  BY <1>1, <1>4

\* One column of _map.
LEMMA PlaceShaped ==
  ASSUME NEW run, Shaped(run), NEW overrides, NEW profile, NEW mapping
  PROVE  Shaped(PlaceColumn(run, overrides, profile, mapping))
<1> DEFINE at     == <<mapping.file, mapping.column>>
           forced == Get(overrides.columnMap, at)
           placed == IF forced \in FieldNames
                       THEN [mapping EXCEPT !.decision = "auto_apply", !.field = forced] ELSE mapping
           noted  == [run EXCEPT !.mappings = Append(@, placed)]
           plan   == PlanColumn(Range(profile.values), placed.field)
           chosen == Get(overrides.formats, at)
           plans  == Put(noted.plans, at, IF chosen # None /\ plan.between # {}
                                                  THEN [NoPlan EXCEPT !.format = chosen] ELSE plan)
           there  == [noted EXCEPT !.applied = Put(@, at, placed.field)]
<1>1. PlaceColumn(run, overrides, profile, mapping) =
        CASE placed.decision = "auto_apply" -> [there EXCEPT !["plans"] = plans]
          [] placed.decision = "review" -> AskAboutColumn(noted, placed)
          [] OTHER -> noted
  BY DEF PlaceColumn
<1> HIDE DEF plans
<1>2. Shaped(noted)
  BY ShapedNote DEF RunFields
<1> HIDE DEF noted
<1>3. Shaped(there)
  BY <1>2, ShapedApplied
<1>4. Shaped([there EXCEPT !["plans"] = plans])
  BY <1>3, ShapedNote DEF RunFields
<1>5. Shaped(AskAboutColumn(noted, placed))
  BY <1>2, ColumnShaped
<1>6. QED
  BY <1>1, <1>2, <1>4, <1>5


RankStep(source, votes, done, header) ==
  Append(done, RankColumn(source.name,
    ProfileColumn(header, [i \in DOMAIN source.rows |-> source.rows[i].cells[header]]),
    IF header \in DOMAIN votes THEN votes[header] ELSE NoFunction))
Ranking == INSTANCE FoldInduction WITH Step <- RankStep, Inv <- Listed

PlaceStep(overrides, source, run, mapping) ==
  PlaceColumn(run, overrides, ProfileColumn(mapping.column,
    [i \in DOMAIN source.rows |-> source.rows[i].cells[mapping.column]]), mapping)
Placing == INSTANCE FoldInduction WITH Step <- PlaceStep, Inv <- ShapedLoop

\* One file of _map.
LEMMA MapFileShaped ==
  ASSUME NEW run, Shaped(run), NEW overrides, NEW source, IsSeq(source.headers), NEW votes
  PROVE  Shaped(MapFile(run, overrides, source, votes))
<1> DEFINE ranked == Ranking!Over(source, votes, <<>>, source.headers)
           settled == ResolveWithinFile(ranked)
           placed == Placing!Over(overrides, source, run, settled)
<1>1. MapFile(run, overrides, source, votes) = IF source.rows = <<>> THEN run ELSE placed
  BY DEF MapFile, Ranking!Over, RankStep, Ranking!Unfolding, FoldLeft,
         MapThenFoldSet, Ranking!Last, Max,
         Placing!Over, PlaceStep, Placing!Unfolding, Placing!Last
<1>2. IsSeq(ranked)
  <2>1. Ranking!Sequence(source.headers)
    BY SeqReached DEF Ranking!Sequence, Ranking!Reached
  <2>2. \A done, header : IsSeq(done) => IsSeq(RankStep(source, votes, done, header))
    BY SeqAppend DEF RankStep
  <2>3. Listed(source, votes, <<>>, Len(source.headers), ranked)
    BY <2>1, <2>2, SeqEmpty, Ranking!FoldKeeps DEF Listed
  <2>4. QED
    BY <2>3 DEF Listed
<1> HIDE DEF ranked
<1>3. IsSeq(settled)
  BY <1>2, ResolveIsSeq
<1> HIDE DEF settled
<1>4. Shaped(placed)
  <2>1. Placing!Sequence(settled)
    BY <1>3, SeqReached DEF Placing!Sequence, Placing!Reached
  <2>2. \A done, mapping : Shaped(done) => Shaped(PlaceStep(overrides, source, done, mapping))
    BY PlaceShaped DEF PlaceStep
  <2>3. ShapedLoop(overrides, source, run, Len(settled), placed)
    BY <2>1, <2>2, Placing!FoldKeeps DEF ShapedLoop
  <2>4. QED
    BY <2>3 DEF ShapedLoop
<1>5. QED
  BY <1>1, <1>4

(*************** the stages after the columns are mapped ******************)

\* A run of the form the code gives it, with the columns where another has them.
Formed(columns, run) ==
  /\ Shaped(run)
  /\ run.mappings = columns.mappings /\ run.applied = columns.applied

\* The same of a stage's loop: the columns stay where they were when it began.
FormedLoop(p, q, base, n, run) == Formed(base, run)

\* What is in form is in form relative to itself.
LEMMA FormedItself ==
  ASSUME NEW columns, NEW run, Formed(columns, run)
  PROVE  Formed(run, run)
BY DEF Formed

\* Form is kept along a chain of runs.
LEMMA FormedAfter ==
  ASSUME NEW columns, NEW before, Formed(columns, before), NEW run, Formed(before, run)
  PROVE  Formed(columns, run)
BY DEF Formed

\* Raising a case keeps the form.
LEMMA FormedRaise ==
  ASSUME NEW columns, NEW run, Formed(columns, run), NEW case, DOMAIN case = DOMAIN NoCase
  PROVE  Formed(columns, Raise(run, case))
<1>1. Shaped(Raise(run, case))
  BY ShapedRaise DEF Formed
<1>2. QED
  BY <1>1, FieldsOfRun DEF Formed, Shaped, Raise, RunFields

\* Changing a case keeps the form.
LEMMA FormedCase ==
  ASSUME NEW columns, NEW run, Formed(columns, run), NEW n, NEW case, DOMAIN case = DOMAIN run.cases[n]
  PROVE  Formed(columns, [run EXCEPT !.cases[n] = case])
<1>1. Shaped([run EXCEPT !.cases[n] = case])
  BY ShapedCase DEF Formed
<1>2. QED
  BY <1>1, FieldsOfRun DEF Formed, Shaped, RunFields

\* Records may change as long as they stay records.
LEMMA FormedRecords ==
  ASSUME NEW columns, NEW run, Formed(columns, run),
         NEW records, records = [i \in DOMAIN run.records |-> records[i]]
  PROVE  Formed(columns, [run EXCEPT !.records = records])
<1>1. Shaped([run EXCEPT !.records = records])
  BY ShapedRecords DEF Formed
<1>2. QED
  BY <1>1, FieldsOfRun DEF Formed, Shaped, RunFields

\* So does taking note of who asked.
LEMMA FormedNote ==
  ASSUME NEW columns, NEW run, Formed(columns, run),
         NEW f \in RunFields \ {"cases", "records", "applied", "mappings"}, NEW v
  PROVE  Formed(columns, [run EXCEPT ![f] = v])
<1>1. Shaped([run EXCEPT ![f] = v])
  BY ShapedNote DEF Formed
<1>2. QED
  BY <1>1, FieldsOfRun DEF Formed, Shaped, RunFields

(*********************** fields no column supplies *************************)

\* _unrecognised_file.
LEMMA FileFormed ==
  ASSUME NEW columns, NEW run, Formed(columns, run), NEW file
  PROVE  Formed(columns, AskAboutFile(run, file))
<1> DEFINE case == [NoCase EXCEPT !.klass = "UNMAPPED_REQUIRED", !.file = file,
                             !.about = <<"unlike", file>>, !.wholeFile = file,
                             !.options = {<<"exclude", "file">>}, !.recommended = <<"exclude", "file">>]
           raised == Raise(run, case)
           fields == SetDefault(raised.fieldCase, {<<file, f>> : f \in Range(RequiredFields)}, Len(run.cases) + 1)
<1>1. AskAboutFile(run, file) = [raised EXCEPT !["fieldCase"] = fields]
  BY DEF AskAboutFile
<1>2. DOMAIN case = DOMAIN NoCase
  OBVIOUS
<1> HIDE DEF case, fields
<1>3. Formed(columns, raised)
  BY <1>2, FormedRaise
<1> HIDE DEF raised
<1>4. Formed(columns, [raised EXCEPT !["fieldCase"] = fields])
  BY <1>3, FormedNote DEF RunFields
<1>5. QED
  BY <1>1, <1>4

\* _raise_unmapped.
LEMMA FieldFormed ==
  ASSUME NEW columns, NEW run, Formed(columns, run), NEW field, NEW origin
  PROVE  Formed(columns, AskAboutField(run, field, origin))
<1>1. PICK case, fields :
        /\ DOMAIN case = DOMAIN NoCase
        /\ AskAboutField(run, field, origin) = [Raise(run, case) EXCEPT !["fieldCase"] = fields]
  BY DEF AskAboutField
<1>2. Formed(columns, Raise(run, case))
  BY <1>1, FormedRaise
<1>3. Formed(columns, [Raise(run, case) EXCEPT !["fieldCase"] = fields])
  BY <1>2, FormedNote DEF RunFields
<1>4. QED
  BY <1>1, <1>3

AskFileStep(p, q, run, file) == AskAboutFile(run, file)
AskingFiles == INSTANCE FoldInduction WITH Step <- AskFileStep, Inv <- FormedLoop

AskOriginStep(field, q, run, origin) == AskAboutField(run, field, origin)
AskingOrigins == INSTANCE FoldInduction WITH Step <- AskOriginStep, Inv <- FormedLoop

Lacking(run, files, done, field) ==
  IF field \in UNION {Supplied(run, f) : f \in Range(files)}
    THEN Those(files, {f \in Range(files) \ {g \in Range(files) : Unusable(run, g)} :
                         /\ field \notin Supplied(run, f)
                         /\ <<f, field>> \notin DOMAIN done.fieldCase})
    ELSE <<None>>
AskFieldStep(run, files, done, field) ==
  FoldLeft(LAMBDA d, origin : AskAboutField(d, field, origin), done, Lacking(run, files, done, field))
AskingFields == INSTANCE FoldInduction WITH Step <- AskFieldStep, Inv <- FormedLoop

\* The schema's fields, and the required ones, one after another.
LEMMA FieldsAreSeq == IsSeq(FieldOrder) /\ IsSeq(RequiredFields)
BY SchemaAssumption, ThoseIs DEF IsSeq, RequiredFields

\* What is asked about one required field.
LEMMA AskFieldFormed ==
  ASSUME NEW run, NEW files, IsSeq(files), NEW columns, NEW done, Formed(columns, done), NEW field
  PROVE  Formed(columns, AskFieldStep(run, files, done, field))
<1> DEFINE origins == Lacking(run, files, done, field)
           asked == AskingOrigins!Over(field, None, done, origins)
<1>1. AskFieldStep(run, files, done, field) = asked
  BY DEF AskFieldStep, AskingOrigins!Over, AskOriginStep, AskingOrigins!Unfolding, FoldLeft,
         MapThenFoldSet, AskingOrigins!Last, Max
<1>2. IsSeq(origins)
  <2>1. IsSeq(<<None>>)
    <3>1. <<None>> \in Seq({None})
      OBVIOUS
    <3>2. QED
      BY <3>1 DEF IsSeq
  <2>2. QED
    BY <2>1, ThoseIs DEF Lacking
<1> HIDE DEF origins
<1>3. AskingOrigins!Sequence(origins)
  BY <1>2, SeqReached DEF AskingOrigins!Sequence, AskingOrigins!Reached
<1>4. \A d, origin : Formed(done, d) => Formed(done, AskOriginStep(field, None, d, origin))
  BY FieldFormed DEF AskOriginStep
<1>5. FormedLoop(field, None, done, Len(origins), asked)
  BY <1>3, <1>4, AskingOrigins!FoldKeeps, FormedItself DEF FormedLoop
<1>6. QED
  BY <1>1, <1>5, FormedAfter DEF FormedLoop

\* _unmapped_required.
LEMMA UnmappedFormed ==
  ASSUME NEW columns, NEW run, Formed(columns, run), NEW files, IsSeq(files)
  PROVE  Formed(columns, UnmappedRequired(run, files))
<1> DEFINE unlike == Those(files, {f \in Range(files) : Unusable(run, f)})
           told == AskingFiles!Over(None, None, run, unlike)
           asked == AskingFields!Over(run, files, told, RequiredFields)
<1>1. UnmappedRequired(run, files) = asked
  BY DEF UnmappedRequired, AskFieldStep, Lacking, AskFileStep, AskingFields!Over, AskingFiles!Over,
         AskingFields!Unfolding, AskingFiles!Unfolding, FoldLeft,
         MapThenFoldSet,
         AskingFields!Last, AskingFiles!Last, Max
<1>2. Formed(columns, told)
  <2>1. IsSeq(unlike)
    BY ThoseIs
  <2> HIDE DEF unlike
  <2>2. AskingFiles!Sequence(unlike)
    BY <2>1, SeqReached DEF AskingFiles!Sequence, AskingFiles!Reached
  <2>3. \A d, file : Formed(run, d) => Formed(run, AskFileStep(None, None, d, file))
    BY FileFormed DEF AskFileStep
  <2>4. FormedLoop(None, None, run, Len(unlike), told)
    BY <2>2, <2>3, AskingFiles!FoldKeeps, FormedItself DEF FormedLoop
  <2>5. QED
    BY <2>4, FormedAfter DEF FormedLoop
<1> HIDE DEF told
<1>3. Formed(columns, asked)
  <2>1. AskingFields!Sequence(RequiredFields)
    BY FieldsAreSeq, SeqReached DEF AskingFields!Sequence, AskingFields!Reached
  <2>2. \A d, field : Formed(told, d) => Formed(told, AskFieldStep(run, files, d, field))
    BY AskFieldFormed
  <2>3. FormedLoop(run, files, told, Len(RequiredFields), asked)
    BY <1>2, <2>1, <2>2, AskingFields!FoldKeeps, FormedItself DEF FormedLoop
  <2>4. QED
    BY <2>3, <1>2, FormedAfter DEF FormedLoop
<1>4. QED
  BY <1>1, <1>3

(************************** building the records ***************************)

\* The record being built is replaced.
LEMMA CurrentFormed ==
  ASSUME NEW columns, NEW run, Formed(columns, run), NEW record
  PROVE  Formed(columns, SetCurrent(run, record))
<1> DEFINE records == [run.records EXCEPT ![Len(run.records)] = record]
<1>1. records = [i \in DOMAIN run.records |-> records[i]]
  OBVIOUS
<1>2. SetCurrent(run, record) = [run EXCEPT !.records = records]
  BY DEF SetCurrent
<1> HIDE DEF records
<1>3. QED
  BY <1>1, <1>2, FormedRecords

\* _attach_to_case.
LEMMA WaitFormed ==
  ASSUME NEW columns, NEW run, Formed(columns, run), NEW n, NEW field
  PROVE  Formed(columns, WaitOn(run, n, field))
<1> DEFINE record == Current(run)
           held   == SetCurrent(run, [record EXCEPT !.open = @ \cup {n}])
           case   == [held.cases[n] EXCEPT !.blocks = @ \cup {record.id}]
           there  == [held EXCEPT !.cases[n] = case]
           values == Put(there.valueCase, <<record.id, field>>, n)
<1>1. WaitOn(run, n, field) = [there EXCEPT !["valueCase"] = values]
  BY DEF WaitOn
<1>2. DOMAIN case = DOMAIN held.cases[n]
  OBVIOUS
<1> HIDE DEF case, values
<1>3. Formed(columns, held)
  BY CurrentFormed
<1> HIDE DEF held
<1>4. Formed(columns, there)
  BY <1>2, <1>3, FormedCase
<1> HIDE DEF there
<1>5. Formed(columns, [there EXCEPT !["valueCase"] = values])
  BY <1>4, FormedNote DEF RunFields
<1>6. QED
  BY <1>1, <1>5

\* _apply_value, of a value that cannot be cleaned.
LEMMA AskValueFormed ==
  ASSUME NEW columns, NEW run, Formed(columns, run), NEW file, NEW header, NEW row, NEW field, NEW cleaned
  PROVE  Formed(columns, AskAboutValue(run, file, header, row, field, cleaned))
<1> DEFINE raw     == row.cells[header]
           record  == Current(run)
           plan    == run.plans[<<file, header>>]
           column  == cleaned.alternatives # {} /\ plan.between # {}
           klass   == IF column THEN "AMBIGUOUS_VALUE"
                      ELSE IF header \in row.doubtful THEN "LOW_CONFIDENCE_EXTRACTION"
                      ELSE IF cleaned.alternatives # {} THEN "AMBIGUOUS_VALUE"
                      ELSE "VALIDATION_UNRESOLVED"
           group   == <<file, header, IF column THEN None ELSE raw>>
           shared  == IF klass = "AMBIGUOUS_VALUE" THEN Get(run.sharedCase, group) ELSE None
           n       == IF shared # None THEN shared ELSE Len(run.cases) + 1
           case    == [NoCase EXCEPT !.klass = klass, !.recordKey = RowKey(record), !.field = field,
                         !.file = file, !.column = header,
                         !.perValue = klass = "AMBIGUOUS_VALUE" /\ ~column, !.raw = raw,
                         !.options = IF column THEN {<<"format", fmt>> : fmt \in plan.between}
                                               ELSE {<<"value", v>> : v \in cleaned.alternatives}]
           asked   == IF shared # None THEN run ELSE Raise(run, case)
           share   == Put(asked.sharedCase, group, n)
           grouped == IF klass = "AMBIGUOUS_VALUE" THEN [asked EXCEPT !["sharedCase"] = share] ELSE asked
           rows    == IF n \in DOMAIN run.formatRows THEN run.formatRows[n] ELSE <<>>
           waiting == Put(grouped.formatRows, n, Append(rows, <<record.id, raw>>))
           noted   == IF column THEN [grouped EXCEPT !["formatRows"] = waiting] ELSE grouped
<1>1. AskAboutValue(run, file, header, row, field, cleaned) = WaitOn(noted, n, field)
  BY DEF AskAboutValue
<1>2. Formed(columns, asked)
  <2>1. DOMAIN case = DOMAIN NoCase
    OBVIOUS
  <2> HIDE DEF case, shared
  <2>2. QED
    BY <2>1, FormedRaise
<1> HIDE DEF asked, share, klass
<1>3. Formed(columns, grouped)
  <2>1. Formed(columns, [asked EXCEPT !["sharedCase"] = share])
    BY <1>2, FormedNote DEF RunFields
  <2>2. QED
    BY <1>2, <2>1
<1> HIDE DEF grouped, waiting, column
<1>4. Formed(columns, noted)
  <2>1. Formed(columns, [grouped EXCEPT !["formatRows"] = waiting])
    BY <1>3, FormedNote DEF RunFields
  <2>2. QED
    BY <1>3, <2>1
<1> HIDE DEF noted, n
<1>5. QED
  BY <1>1, <1>4, WaitFormed

\* _apply_value.
LEMMA ValueFormed ==
  ASSUME NEW columns, NEW run, Formed(columns, run), NEW overrides, NEW file, NEW row, NEW header
  PROVE  Formed(columns, ApplyValue(run, overrides, file, row, header))
<1>1. \/ \E record : ApplyValue(run, overrides, file, row, header) = SetCurrent(run, record)
      \/ \E field, cleaned : ApplyValue(run, overrides, file, row, header) =
                               AskAboutValue(run, file, header, row, field, cleaned)
  BY DEF ApplyValue
<1>2. QED
  BY <1>1, CurrentFormed, AskValueFormed

CellStep(overrides, place, run, header) == ApplyValue(run, overrides, place.file, place.row, header)
Cells == INSTANCE FoldInduction WITH Step <- CellStep, Inv <- FormedLoop

\* One row of _build: its columns are finitely many and come one after another.
LEMMA RowFormed ==
  ASSUME NEW columns, NEW run, Formed(columns, run), NEW overrides, NEW source, NEW row
  PROVE  Formed(columns, BuildRow(run, overrides, source, row))
<1> DEFINE identity(header) == run.applied[<<source.name, header>>] = IdentityField
           named == {a[2] : a \in {b \in DOMAIN run.applied : b[1] = source.name}}
           headers == InOrder(named, LAMBDA g, h : \/ identity(g) /\ ~identity(h)
                                                   \/ identity(g) = identity(h) /\ Place(g) < Place(h))
           fresh  == Append(run.records, NewRecord(row, source.name))
           begun  == [run EXCEPT !.records = fresh]
           place  == [file |-> source.name, row |-> row]
           filled == Cells!Over(overrides, place, begun, headers)
<1>1. \E record : BuildRow(run, overrides, source, row) = SetCurrent(filled, record)
  <2>1. FoldLeft(LAMBDA d, h : ApplyValue(d, overrides, source.name, row, h), begun, headers) = filled
    BY DEF Cells!Over, CellStep, Cells!Unfolding, FoldLeft, MapThenFoldSet,
           Cells!Last, Max
  <2> HIDE DEF filled
  <2>2. QED
    BY <2>1 DEF BuildRow
<1>2. IsSeq(headers)
  <2> DEFINE held == {b \in DOMAIN run.applied : b[1] = source.name}
             second == [a \in held |-> a[2]]
  <2>1. IsFiniteSet(held)
    BY FS_Subset DEF Formed, Shaped
  <2>2. IsFiniteSet({second[a] : a \in DOMAIN second})
    BY <2>1, ImageFinite
  <2>3. named = {second[a] : a \in DOMAIN second}
    OBVIOUS
  <2>4. IsFiniteSet(named)
    BY <2>2, <2>3
  <2> HIDE DEF named
  <2> DEFINE at(i) == CHOOSE h \in named : Cardinality({g \in named :
                          \/ identity(g) /\ ~identity(h)
                          \/ identity(g) = identity(h) /\ Place(g) < Place(h)}) = i - 1
  <2>7. headers = [i \in 1..Cardinality(named) |-> at(i)]
    BY Zenon DEF InOrder
  <2> HIDE DEF at, headers
  <2>5. DOMAIN headers = 1..Cardinality(named) /\ headers = [i \in DOMAIN headers |-> headers[i]]
    BY <2>7
  <2> HIDE DEF headers
  <2>6. QED
    BY <2>4, <2>5, InOrderIs
<1> HIDE DEF headers
<1>3. Formed(columns, begun)
  <2>1. IsSeq(fresh)
    BY SeqAppend DEF Formed, Shaped
  <2> HIDE DEF fresh
  <2>2. QED
    BY <2>1, FieldsOfRun DEF Formed, Shaped, RunFields
<1> HIDE DEF begun
<1>4. Formed(columns, filled)
  <2>1. Cells!Sequence(headers)
    BY <1>2, SeqReached DEF Cells!Sequence, Cells!Reached
  <2>2. \A d, header : Formed(begun, d) => Formed(begun, CellStep(overrides, place, d, header))
    BY ValueFormed DEF CellStep
  <2>3. FormedLoop(overrides, place, begun, Len(headers), filled)
    BY <1>3, <2>1, <2>2, Cells!FoldKeeps, FormedItself DEF FormedLoop
  <2>4. QED
    BY <2>3, <1>3, FormedAfter DEF FormedLoop
<1>5. QED
  BY <1>1, <1>4, CurrentFormed

RowStep(overrides, source, run, row) == BuildRow(run, overrides, source, row)
Rows == INSTANCE FoldInduction WITH Step <- RowStep, Inv <- FormedLoop
SheetStep(overrides, q, run, source) == BuildFile(run, overrides, source)
Sheets == INSTANCE FoldInduction WITH Step <- SheetStep, Inv <- FormedLoop

\* Files as the code reads them: headers and rows one after another.
Sheet(source) == IsSeq(source.headers) /\ IsSeq(source.rows)

\* One file of _build.
LEMMA BuildFileFormed ==
  ASSUME NEW columns, NEW run, Formed(columns, run), NEW overrides, NEW source, Sheet(source)
  PROVE  Formed(columns, BuildFile(run, overrides, source))
<1> DEFINE done == Rows!Over(overrides, source, run, source.rows)
<1>1. BuildFile(run, overrides, source) = IF Supplied(run, source.name) = {} THEN run ELSE done
  BY DEF BuildFile, Rows!Over, RowStep, Rows!Unfolding, FoldLeft, MapThenFoldSet,
         Rows!Last, Max
<1>2. Rows!Sequence(source.rows)
  BY SeqReached DEF Rows!Sequence, Rows!Reached, Sheet
<1>3. \A d, row : Formed(run, d) => Formed(run, RowStep(overrides, source, d, row))
  BY RowFormed DEF RowStep
<1>4. FormedLoop(overrides, source, run, Len(source.rows), done)
  BY <1>2, <1>3, Rows!FoldKeeps, FormedItself DEF FormedLoop
<1>5. QED
  BY <1>1, <1>4, FormedAfter DEF FormedLoop

\* _build.
LEMMA BuildFormed ==
  ASSUME NEW columns, NEW run, Formed(columns, run), NEW overrides, NEW sources, IsSeq(sources),
         \A i \in DOMAIN sources : Sheet(sources[i])
  PROVE  Formed(columns, Build(run, overrides, sources))
<1> DEFINE done == Sheets!Over(overrides, sources, run, sources)
<1>1. Build(run, overrides, sources) = [done EXCEPT !["built"] = done.records]
  BY DEF Build, Sheets!Over, SheetStep, Sheets!Unfolding, FoldLeft, MapThenFoldSet,
         Sheets!Last, Max
<1>2. Sheets!Sequence(sources)
  BY SeqReached DEF Sheets!Sequence, Sheets!Reached
<1>3. \A n \in 1..Len(sources) : \A d :
         Formed(run, d) => Formed(run, SheetStep(overrides, sources, d, sources[n]))
  BY BuildFileFormed, SeqIs DEF SheetStep
<1>4. FormedLoop(overrides, sources, run, Len(sources), done)
  BY <1>2, <1>3, Sheets!FoldKeeps, FormedItself DEF FormedLoop
<1>5. Formed(columns, done)
  BY <1>4, FormedAfter DEF FormedLoop
<1> HIDE DEF done
<1>6. Formed(columns, [done EXCEPT !["built"] = done.records])
  BY <1>5, FormedNote DEF RunFields
<1>7. QED
  BY <1>1, <1>6

(************************* merging the records *****************************)

\* A record is replaced.
LEMMA SetRecordFormed ==
  ASSUME NEW columns, NEW run, Formed(columns, run), NEW record
  PROVE  Formed(columns, SetRecord(run, record))
<1> DEFINE records == [i \in DOMAIN run.records |->
                         IF run.records[i].id = record.id THEN record ELSE run.records[i]]
<1>1. records = [i \in DOMAIN run.records |-> records[i]]
  OBVIOUS
<1>2. SetRecord(run, record) = [run EXCEPT !.records = records]
  BY DEF SetRecord
<1> HIDE DEF records
<1>3. QED
  BY <1>1, <1>2, FormedRecords

\* Records wait on one more question.
LEMMA HoldFormed ==
  ASSUME NEW columns, NEW run, Formed(columns, run), NEW ids, NEW n
  PROVE  Formed(columns, Hold(run, ids, n))
<1> DEFINE records == [i \in DOMAIN run.records |->
                         IF run.records[i].id \in ids THEN [run.records[i] EXCEPT !.open = @ \cup {n}]
                                                      ELSE run.records[i]]
<1>1. records = [i \in DOMAIN run.records |-> records[i]]
  OBVIOUS
<1>2. Hold(run, ids, n) = [run EXCEPT !.records = records]
  BY DEF Hold
<1> HIDE DEF records
<1>3. QED
  BY <1>1, <1>2, FormedRecords

\* A question is asked about records that wait for it.
LEMMA AgainstFormed ==
  ASSUME NEW columns, NEW run, Formed(columns, run), NEW case, DOMAIN case = DOMAIN NoCase
  PROVE  Formed(columns, RaiseAgainst(run, case))
BY FormedRaise, HoldFormed DEF RaiseAgainst

\* A field on which two records disagree.
LEMMA SettleFormed ==
  ASSUME NEW columns, NEW run, Formed(columns, run), NEW overrides, NEW id, NEW other, NEW theirs, NEW field
  PROVE  Formed(columns, SettleField(run, overrides, id, other, theirs, field))
<1>1. \/ SettleField(run, overrides, id, other, theirs, field) = run
      \/ \E record : SettleField(run, overrides, id, other, theirs, field) = SetRecord(run, record)
      \/ \E case : /\ DOMAIN case = DOMAIN NoCase
                   /\ SettleField(run, overrides, id, other, theirs, field) = RaiseAgainst(run, case)
  <2> DEFINE keep   == RecordOf(run, id)
             mine   == keep.values[field]
             files  == <<keep.files[1], other.files[1]>>
             winner == Prefer(overrides.authority, files[1], files[2])
             case   == [NoCase EXCEPT !.klass = "CONFLICTING_FACTS", !.recordKey = ShownKey(keep),
                          !.field = field, !.file = files[1], !.blocks = {id},
                          !.options = {<<"value", mine>>, <<"value", theirs>>,
                                       <<"authority", files[1]>>, <<"authority", files[2]>>}]
             record == [keep EXCEPT !.values[field] = theirs]
  <2>1. SettleField(run, overrides, id, other, theirs, field) =
          IF winner = None THEN RaiseAgainst(run, case)
          ELSE IF winner = files[1] THEN run
          ELSE SetRecord(run, record)
    BY DEF SettleField
  <2>2. DOMAIN case = DOMAIN NoCase
    OBVIOUS
  <2> HIDE DEF case, record, winner, files
  <2>3. QED
    BY <2>1, <2>2
<1>2. QED
  BY <1>1, SetRecordFormed, AgainstFormed

SettlingStep(overrides, pair, run, field) ==
  SettleField(run, overrides, pair.keep.id, pair.other, pair.other.values[field], field)
Conflicts == INSTANCE FoldInduction WITH Step <- SettlingStep, Inv <- FormedLoop

\* _merge.
LEMMA MergeFormed ==
  ASSUME NEW columns, NEW run, Formed(columns, run), NEW overrides, NEW keep, NEW other
  PROVE  Formed(columns, Merge(run, overrides, keep, other))
<1> DEFINE fields == ConflictingFields(keep.values, other.values)
           begun  == SetRecord(run, Filled(keep, other))
           pair   == [keep |-> keep, other |-> other]
           done   == Conflicts!Over(overrides, pair, begun, fields)
           into   == Put(done.mergedInto, other.id, keep.id)
<1>1. Merge(run, overrides, keep, other) = [done EXCEPT !["mergedInto"] = into]
  <2>1. FoldLeft(LAMBDA d, f : SettleField(d, overrides, keep.id, other, other.values[f], f), begun, fields)
          = done
    BY DEF Conflicts!Over, SettlingStep, Conflicts!Unfolding, FoldLeft,
           MapThenFoldSet, Conflicts!Last, Max
  <2> HIDE DEF done, begun, fields
  <2>2. Merge(run, overrides, keep, other) =
          [FoldLeft(LAMBDA d, f : SettleField(d, overrides, keep.id, other, other.values[f], f),
                    begun, fields)
             EXCEPT !.mergedInto = Put(@, other.id, keep.id)]
    BY DEF Merge, begun, fields
  <2>3. QED
    BY <2>1, <2>2
<1>2. Formed(columns, begun)
  BY SetRecordFormed
<1>3. IsSeq(fields)
  BY FieldsAreSeq, ThoseIs DEF ConflictingFields
<1> HIDE DEF begun, fields, pair, into
<1>4. Formed(columns, done)
  <2>1. Conflicts!Sequence(fields)
    BY <1>3, SeqReached DEF Conflicts!Sequence, Conflicts!Reached
  <2>2. \A d, field : Formed(begun, d) => Formed(begun, SettlingStep(overrides, pair, d, field))
    BY SettleFormed DEF SettlingStep
  <2>3. FormedLoop(overrides, pair, begun, Len(fields), done)
    BY <1>2, <2>1, <2>2, Conflicts!FoldKeeps, FormedItself DEF FormedLoop
  <2>4. QED
    BY <2>3, <1>2, FormedAfter DEF FormedLoop
<1> HIDE DEF done
<1>5. Formed(columns, [done EXCEPT !["mergedInto"] = into])
  BY <1>4, FormedNote DEF RunFields
<1>6. QED
  BY <1>1, <1>5

\* The question whether two rows are one.
LEMMA IdentityFormed ==
  ASSUME NEW columns, NEW run, Formed(columns, run), NEW left, NEW right
  PROVE  Formed(columns, AskIdentity(run, left, right))
<1> DEFINE case == [NoCase EXCEPT !.klass = "UNCERTAIN_IDENTITY", !.recordKey = ShownKey(left),
             !.file = left.files[1], !.pair = <<RowKey(left), RowKey(right)>>, !.blocks = {left.id, right.id},
             !.options = {<<"identity", "merge">>, <<"identity", "separate">>},
             !.recommended = <<"identity", "separate">>]
<1>1. DOMAIN case = DOMAIN NoCase
  OBVIOUS
<1>2. AskIdentity(run, left, right) = RaiseAgainst(run, case)
  BY DEF AskIdentity
<1> HIDE DEF case
<1>3. QED
  BY <1>1, <1>2, AgainstFormed

\* One pair of _reconcile.
LEMMA PairFormed ==
  ASSUME NEW columns, NEW run, Formed(columns, run), NEW overrides, NEW pair
  PROVE  Formed(columns, ReconcilePair(run, overrides, pair))
<1>1. \/ ReconcilePair(run, overrides, pair) = run
      \/ \E left, right : \/ ReconcilePair(run, overrides, pair) = Merge(run, overrides, left, right)
                          \/ ReconcilePair(run, overrides, pair) = AskIdentity(run, left, right)
  BY DEF ReconcilePair
<1>2. QED
  BY <1>1, MergeFormed, IdentityFormed

\* Two lists have finitely many pairs.
LEMMA PairsFinite ==
  ASSUME NEW records, IsSeq(records)
  PROVE  IsFiniteSet(CandidatePairs(records))
<1>1. \E A, f : /\ A \in SUBSET ((DOMAIN records) \X (DOMAIN records)) /\ DOMAIN f = A
                /\ CandidatePairs(records) = {f[p] : p \in A}
  <2> DEFINE blocks(i, j) == {k \in DOMAIN BlockingKeys :
                         SameBucket(BlockingKeys[k], records[i].values, records[j].values)}
             A == {p \in (DOMAIN records) \X (DOMAIN records) :
                          /\ Place(records[p[1]].id) < Place(records[p[2]].id)
                          /\ blocks(p[1], p[2]) # {}}
             pair(i, j) ==
        LET block == Min(blocks(i, j))
        IN  [left |-> records[i].id, right |-> records[j].id, block |-> block,
             bucket |-> Min({b \in DOMAIN records :
                SameBucket(BlockingKeys[block], records[b].values, records[i].values)}),
             score |-> MatchScore(records[i].values, records[j].values),
             decision |-> DecidePair(records[i].values, records[j].values)]
             f == [p \in A |-> pair(p[1], p[2])]
  <2>1. CandidatePairs(records) = {pair(p[1], p[2]) : p \in A}
    BY DEF CandidatePairs
  <2> HIDE DEF pair, blocks
  <2>2. A \in SUBSET ((DOMAIN records) \X (DOMAIN records)) /\ DOMAIN f = A
    OBVIOUS
  <2>3. \A p \in A : f[p] = pair(p[1], p[2])
    OBVIOUS
  <2> HIDE DEF A, f
  <2>4. {pair(p[1], p[2]) : p \in A} = {f[p] : p \in A}
    BY <2>3
  <2>5. QED
    BY <2>1, <2>2, <2>4
<1>2. PICK A, f : /\ A \in SUBSET ((DOMAIN records) \X (DOMAIN records)) /\ DOMAIN f = A
                  /\ CandidatePairs(records) = {f[p] : p \in A}
  BY <1>1
<1>3. IsFiniteSet((DOMAIN records) \X (DOMAIN records))
  BY PlacesFinite, FS_Product
<1>4. IsFiniteSet(DOMAIN f)
  BY <1>2, <1>3, FS_Subset
<1>5. QED
  BY <1>2, <1>4, ImageFinite

\* match_records gives the pairs one after another.
LEMMA MatchesAreSeq ==
  ASSUME NEW records, IsSeq(records)
  PROVE  IsSeq(MatchRecords(records))
<1> DEFINE pairs == CandidatePairs(records)
           rank(p) == <<-p.score, p.block, p.bucket, Place(p.left), Place(p.right)>>
           before(p, q) == \E i \in 1..5 : /\ rank(p)[i] < rank(q)[i]
                                           /\ \A j \in 1..(i - 1) : rank(p)[j] = rank(q)[j]
           at(i) == CHOOSE p \in pairs : Cardinality({q \in pairs : before(q, p)}) = i - 1
           matches == MatchRecords(records)
<1>1. IsFiniteSet(pairs)
  BY PairsFinite
<1>2. matches = [i \in 1..Cardinality(pairs) |-> at(i)]
  BY Zenon DEF MatchRecords, InOrder
<1> HIDE DEF at, matches, pairs
<1>3. DOMAIN matches = 1..Cardinality(pairs) /\ matches = [i \in DOMAIN matches |-> matches[i]]
  BY <1>2
<1>4. IsSeq(matches)
  BY <1>1, <1>3, InOrderIs
<1>5. QED
  BY <1>4 DEF matches

PairStep(overrides, q, run, pair) == ReconcilePair(run, overrides, pair)
Pairs == INSTANCE FoldInduction WITH Step <- PairStep, Inv <- FormedLoop

\* _reconcile.
LEMMA ReconcileFormed ==
  ASSUME NEW columns, NEW run, Formed(columns, run), NEW overrides
  PROVE  Formed(columns, Reconcile(run, overrides))
<1> DEFINE matches == MatchRecords(run.records)
           done == Pairs!Over(overrides, None, run, matches)
           alone == Those(done.records, {r \in Range(done.records) : r.id \notin DOMAIN done.mergedInto})
<1>1. Reconcile(run, overrides) = [done EXCEPT !.records = alone]
  BY DEF Reconcile, Pairs!Over, PairStep, Pairs!Unfolding, FoldLeft, MapThenFoldSet,
         Pairs!Last, Max
<1>2. IsSeq(matches)
  BY MatchesAreSeq DEF Formed, Shaped
<1> HIDE DEF matches
<1>3. Formed(columns, done)
  <2>1. Pairs!Sequence(matches)
    BY <1>2, SeqReached DEF Pairs!Sequence, Pairs!Reached
  <2>2. \A d, pair : Formed(run, d) => Formed(run, PairStep(overrides, None, d, pair))
    BY PairFormed DEF PairStep
  <2>3. FormedLoop(overrides, None, run, Len(matches), done)
    BY <2>1, <2>2, Pairs!FoldKeeps, FormedItself DEF FormedLoop
  <2>4. QED
    BY <2>3, FormedAfter DEF FormedLoop
<1> HIDE DEF done
<1>4. IsSeq(alone)
  BY <1>3, ThoseIs DEF Formed, Shaped
<1> HIDE DEF alone
<1>5. Formed(columns, [done EXCEPT !.records = alone])
  BY <1>3, <1>4, FieldsOfRun DEF Formed, Shaped, RunFields
<1>6. QED
  BY <1>1, <1>5

\* The questions of a run, each of them changed.
LEMMA FormedCases ==
  ASSUME NEW columns, NEW run, Formed(columns, run), NEW cases, cases = [n \in DOMAIN run.cases |-> cases[n]],
         \A n \in DOMAIN run.cases : DOMAIN cases[n] = DOMAIN run.cases[n]
  PROVE  Formed(columns, [run EXCEPT !.cases = cases])
<1>1. Asked(cases)
  <2>1. \A n \in DOMAIN run.cases : DOMAIN cases[n] = DOMAIN NoCase
    BY DEF Formed, Shaped, Asked
  <2>2. QED
    BY <2>1, AskedChanged DEF Formed, Shaped
<1>2. QED
  BY <1>1, FieldsOfRun DEF Formed, Shaped, RunFields

(************************ the same dates elsewhere *************************)

\* _cross_check_formats.
LEMMA CrossCheckFormed ==
  ASSUME NEW columns, NEW run, Formed(columns, run)
  PROVE  Formed(columns, CrossCheckFormats(run))
<1> DEFINE cases == [n \in DOMAIN run.cases |-> IF n \in DOMAIN run.formatRows THEN CrossCheckCase(run, n)
                                                                                ELSE run.cases[n]]
<1>1. \A n : DOMAIN CrossCheckCase(run, n) = DOMAIN run.cases[n]
  <2> TAKE n
  <2>1. CrossCheckCase(run, n) = run.cases[n] \/ \E a, b : CrossCheckCase(run, n) =
                 [run.cases[n] EXCEPT !.recommended = a, !.cautioned = b]
    BY DEF CrossCheckCase
  <2>2. QED
    BY <2>1
<1>2. \A n \in DOMAIN run.cases : DOMAIN cases[n] = DOMAIN run.cases[n]
  BY <1>1
<1>3. cases = [n \in DOMAIN run.cases |-> cases[n]]
  OBVIOUS
<1>4. CrossCheckFormats(run) = [run EXCEPT !.cases = cases]
  BY DEF CrossCheckFormats
<1> HIDE DEF cases
<1>5. QED
  BY <1>2, <1>3, <1>4, FormedCases

(************************ checking the records *****************************)

\* _attach.
LEMMA AttachFormed ==
  ASSUME NEW columns, NEW run, Formed(columns, run), NEW id, NEW n
  PROVE  Formed(columns, Attach(run, id, n))
<1> DEFINE held == Hold(run, {id}, n)
           case == [held.cases[n] EXCEPT !.blocks = @ \cup {id}]
<1>1. Attach(run, id, n) = [held EXCEPT !.cases[n] = case]
  BY DEF Attach
<1>2. DOMAIN case = DOMAIN held.cases[n]
  OBVIOUS
<1> HIDE DEF case
<1>3. Formed(columns, held)
  BY HoldFormed
<1> HIDE DEF held
<1>4. QED
  BY <1>1, <1>2, <1>3, FormedCase

\* One issue of one record in _validate.
LEMMA IssueFormed ==
  ASSUME NEW columns, NEW run, Formed(columns, run), NEW id, NEW issue
  PROVE  Formed(columns, AskAboutIssue(run, id, issue))
<1>1. \/ AskAboutIssue(run, id, issue) = run
      \/ \E n : AskAboutIssue(run, id, issue) = Attach(run, id, n)
      \/ \E case : DOMAIN case = DOMAIN NoCase /\ AskAboutIssue(run, id, issue) = RaiseAgainst(run, case)
  <2> DEFINE record == RecordOf(run, id)
             field  == issue.field
             asked  == IF <<record.files[1], field>> \in DOMAIN run.fieldCase
                         THEN run.fieldCase[<<record.files[1], field>>] ELSE Get(run.fieldCase, <<None, field>>)
             klass  == ClassOf(issue.rule)
             case   == [NoCase EXCEPT !.klass = klass, !.recordKey = ShownKey(record), !.field = field,
                          !.file = record.files[1], !.blocks = {id},
                          !.options = IF klass = "UNRESOLVED_REFERENCE" THEN LookupOptions(field) ELSE {}]
  <2>1. AskAboutIssue(run, id, issue) =
          CASE issue.rule = "required" /\ <<id, field>> \in DOMAIN run.valueCase -> run
            [] issue.rule = "required" /\ <<id, field>> \notin DOMAIN run.valueCase /\ asked # None ->
                 Attach(run, id, asked)
            [] OTHER -> RaiseAgainst(run, case)
    BY DEF AskAboutIssue
  <2>2. DOMAIN case = DOMAIN NoCase
    OBVIOUS
  <2> HIDE DEF case, asked
  <2>3. QED
    BY <2>1, <2>2
<1>2. QED
  BY <1>1, AttachFormed, AgainstFormed

FieldIssueStep(values, known, found, f) == found \o FieldIssues(f, values, known)
FieldByField == INSTANCE FoldInduction WITH Step <- FieldIssueStep, Inv <- Listed

\* A list of one.
LEMMA OneIsSeq == \A e : IsSeq(<<e>>)
<1> TAKE e
<1>1. <<e>> \in Seq({e})
  OBVIOUS
<1>2. QED
  BY <1>1 DEF IsSeq

\* What is wrong with one field of a record, one after another.
LEMMA FieldIssuesAreSeq ==
  ASSUME NEW field, NEW values, NEW known
  PROVE  IsSeq(FieldIssues(field, values, known))
<1>1. \A e : IsSeq(<<e>>)
  BY OneIsSeq
<1>2. IsSeq(<<>>)
  BY SeqEmpty
<1>3. \A value : IsSeq(CheckType(field, value))
  BY <1>1, <1>2 DEF CheckType
<1>4. \A value : IsSeq(CheckConstraints(field, value))
  <2> TAKE value
  <2> DEFINE limits == Those(LimitOrder, LimitsBroken(field, value))
             broken == [i \in DOMAIN limits |-> Issue(field, limits[i])]
  <2>1. IsSeq(LimitOrder)
    <3>1. LimitOrder \in Seq({"max_length", "min_length", "minimum", "maximum"})
      BY DEF LimitOrder
    <3>2. QED
      BY <3>1 DEF IsSeq
  <2>2. IsSeq(limits)
    BY <2>1, ThoseIs
  <2> HIDE DEF limits
  <2>3. broken = [i \in DOMAIN limits |-> broken[i]]
    OBVIOUS
  <2>4. \E first : IsSeq(first) /\ CheckConstraints(field, value) = first \o broken
    BY <1>1, <1>2 DEF CheckConstraints, limits
  <2> HIDE DEF broken
  <2>5. IsSeq(broken)
    BY <2>2, <2>3, SeqChanged
  <2>6. QED
    BY <2>4, <2>5, SeqConcat
<1>5. \A value : IsSeq(CheckReference(field, value, values, known))
  <2> TAKE value
  <2>1. CheckReference(field, value, values, known) = <<>>
          \/ \E e : CheckReference(field, value, values, known) = <<e>>
    BY DEF CheckReference
  <2>2. QED
    BY <1>1, <1>2, <2>1
<1>6. QED
  BY <1>1, <1>2, <1>3, <1>4, <1>5, SeqConcat DEF FieldIssues

\* What is wrong with a record, one after another.
LEMMA IssuesAreSeq ==
  ASSUME NEW record, NEW known, NEW records
  PROVE  IsSeq(ValidateRecord(record.values, known) \o UniquenessIssues(record, records))
<1> DEFINE values == record.values
           found == FieldByField!Over(values, known, <<>>, FieldOrder)
<1>1. IsSeq(ValidateRecord(values, known))
  <2>1. ValidateRecord(values, known) = found
    BY DEF ValidateRecord, FieldByField!Over, FieldIssueStep, FieldByField!Unfolding, FoldLeft,
           MapThenFoldSet, FieldByField!Last, Max
  <2>2. FieldByField!Sequence(FieldOrder)
    BY FieldsAreSeq, SeqReached DEF FieldByField!Sequence, FieldByField!Reached
  <2>3. \A d, f : IsSeq(d) => IsSeq(FieldIssueStep(values, known, d, f))
    BY FieldIssuesAreSeq, SeqConcat DEF FieldIssueStep
  <2>4. Listed(values, known, <<>>, Len(FieldOrder), found)
    BY <2>2, <2>3, SeqEmpty, FieldByField!FoldKeeps DEF Listed
  <2>5. QED
    BY <2>1, <2>4 DEF Listed
<1>2. IsSeq(UniquenessIssues(record, records))
  <2> DEFINE issues == UniquenessIssues(record, records)
  <2>1. \E S : LET fields == Those(FieldOrder, S)
               IN  issues = [i \in DOMAIN fields |-> Issue(fields[i], "unique")]
    BY DEF UniquenessIssues
  <2>2. PICK S : LET fields == Those(FieldOrder, S)
                 IN  issues = [i \in DOMAIN fields |-> Issue(fields[i], "unique")]
    BY <2>1
  <2> HIDE DEF issues
  <2> DEFINE fields == Those(FieldOrder, S)
  <2>3. IsSeq(fields)
    BY FieldsAreSeq, ThoseIs
  <2>4. issues = [i \in DOMAIN fields |-> Issue(fields[i], "unique")]
    BY <2>2
  <2> HIDE DEF fields
  <2>5. issues = [i \in DOMAIN fields |-> issues[i]]
    BY <2>4
  <2>6. IsSeq(issues)
    BY <2>3, <2>5, SeqChanged
  <2>7. QED
    BY <2>6 DEF issues
<1>3. QED
  BY <1>1, <1>2, SeqConcat

AskIssueStep(id, q, run, issue) == AskAboutIssue(run, id, issue)
AskingIssues == INSTANCE FoldInduction WITH Step <- AskIssueStep, Inv <- FormedLoop

IssuesOf(run, r) ==
  ValidateRecord(r.values, {KeyFor(s) : s \in Range(run.records)} \ {None})
    \o UniquenessIssues(r, run.records)
AskRecordStep(before, q, run, r) ==
  FoldLeft(LAMBDA d, issue : AskAboutIssue(d, r.id, issue), run, IssuesOf(before, r))
AskingRecords == INSTANCE FoldInduction WITH Step <- AskRecordStep, Inv <- FormedLoop

\* The issues of one record in _validate.
LEMMA AskRecordFormed ==
  ASSUME NEW before, NEW columns, NEW run, Formed(columns, run), NEW r
  PROVE  Formed(columns, AskRecordStep(before, None, run, r))
<1> DEFINE issues == IssuesOf(before, r)
           id == r.id
           asked == AskingIssues!Over(id, None, run, issues)
<1>1. AskRecordStep(before, None, run, r) = asked
  BY DEF AskRecordStep, AskingIssues!Over, AskIssueStep, AskingIssues!Unfolding, FoldLeft,
         MapThenFoldSet, AskingIssues!Last, Max
<1>2. IsSeq(issues)
  BY IssuesAreSeq DEF IssuesOf
<1> HIDE DEF issues, id
<1>3. AskingIssues!Sequence(issues)
  BY <1>2, SeqReached DEF AskingIssues!Sequence, AskingIssues!Reached
<1>4. \A d, issue : Formed(run, d) => Formed(run, AskIssueStep(id, None, d, issue))
  BY IssueFormed DEF AskIssueStep
<1>5. FormedLoop(id, None, run, Len(issues), asked)
  BY <1>3, <1>4, AskingIssues!FoldKeeps, FormedItself DEF FormedLoop
<1>6. QED
  BY <1>1, <1>5, FormedAfter DEF FormedLoop

\* _validate.
LEMMA ValidateFormed ==
  ASSUME NEW columns, NEW run, Formed(columns, run)
  PROVE  Formed(columns, Validate(run))
<1> DEFINE found(r) == [r EXCEPT !.issues = IssuesOf(run, r)]
           records == [i \in DOMAIN run.records |-> found(run.records[i])]
           checked == [run EXCEPT !.records = records]
           asked == AskingRecords!Over(run, None, checked, run.records)
<1>1. Validate(run) = asked
  BY DEF Validate, IssuesOf, AskRecordStep, AskingRecords!Over, AskingRecords!Unfolding, FoldLeft,
         MapThenFoldSet, AskingRecords!Last, Max
<1>2. Formed(columns, checked)
  <2>1. records = [i \in DOMAIN run.records |-> records[i]]
    OBVIOUS
  <2> HIDE DEF records
  <2>2. QED
    BY <2>1, FormedRecords
<1> HIDE DEF checked
<1>3. AskingRecords!Sequence(run.records)
  BY SeqReached DEF AskingRecords!Sequence, AskingRecords!Reached, Formed, Shaped
<1>4. \A d, r : Formed(checked, d) => Formed(checked, AskRecordStep(run, None, d, r))
  BY AskRecordFormed
<1>5. FormedLoop(run, None, checked, Len(run.records), asked)
  BY <1>2, <1>3, <1>4, AskingRecords!FoldKeeps, FormedItself DEF FormedLoop
<1>6. QED
  BY <1>1, <1>5, <1>2, FormedAfter DEF FormedLoop

(************************* the state of a record ***************************)

\* A record waits for what it refers to.
LEMMA HoldRecordFormed ==
  ASSUME NEW columns, NEW run, Formed(columns, run), NEW id
  PROVE  Formed(columns, HoldRecord(run, id))
<1>1. \/ HoldRecord(run, id) = run
      \/ \E record, cases :
           /\ cases = [n \in DOMAIN SetRecord(run, record).cases |-> cases[n]]
           /\ \A n \in DOMAIN cases : DOMAIN cases[n] = DOMAIN SetRecord(run, record).cases[n]
           /\ HoldRecord(run, id) = [SetRecord(run, record) EXCEPT !.cases = cases]
  <2> DEFINE record == RecordOf(run, id)
             other(i) == Named(run, Get(record.values, SelfReferences[i]))
             unready == {i \in DOMAIN SelfReferences :
                           other(i) # None /\ other(i).id # id /\ other(i).state # "READY"}
             open   == other(Min(unready)).open
             counts(case) == [case EXCEPT !.children = @ \cup {id}]
             held   == [record EXCEPT !.open = open, !.state = "BLOCKED"]
             before == SetRecord(run, held)
             cases  == [n \in DOMAIN before.cases |-> IF n \in open THEN counts(before.cases[n])
                                                                     ELSE before.cases[n]]
  <2>1. HoldRecord(run, id) = IF record.state # "READY" \/ unready = {} \/ open = {} THEN run
                              ELSE [before EXCEPT !.cases = cases]
    BY DEF HoldRecord
  <2>2. cases = [n \in DOMAIN before.cases |-> cases[n]]
    OBVIOUS
  <2>3. \A n \in DOMAIN cases : DOMAIN cases[n] = DOMAIN before.cases[n]
    OBVIOUS
  <2> HIDE DEF cases, open, unready, held
  <2>4. QED
    BY <2>1, <2>2, <2>3
<1>2. ASSUME NEW record, NEW cases,
             cases = [n \in DOMAIN SetRecord(run, record).cases |-> cases[n]],
             \A n \in DOMAIN cases : DOMAIN cases[n] = DOMAIN SetRecord(run, record).cases[n]
      PROVE  Formed(columns, [SetRecord(run, record) EXCEPT !.cases = cases])
  <2> DEFINE before == SetRecord(run, record)
  <2>1. Formed(columns, before)
    BY SetRecordFormed
  <2>2. /\ cases = [n \in DOMAIN before.cases |-> cases[n]]
        /\ \A n \in DOMAIN before.cases : DOMAIN cases[n] = DOMAIN before.cases[n]
    BY <1>2
  <2> HIDE DEF before
  <2>3. Formed(columns, [before EXCEPT !.cases = cases])
    BY <2>1, <2>2, FormedCases
  <2>4. QED
    BY <2>3 DEF before
<1>3. QED
  BY <1>1, <1>2

HoldStep(p, q, run, r) == HoldRecord(run, r.id)
Holding == INSTANCE FoldInduction WITH Step <- HoldStep, Inv <- FormedLoop
HoldPassStep(records, q, run, i) == FoldLeft(LAMBDA d, r : HoldRecord(d, r.id), run, records)
HoldingAll == INSTANCE FoldInduction WITH Step <- HoldPassStep, Inv <- FormedLoop

\* One pass of _hold_dependents.
LEMMA HoldPassFormed ==
  ASSUME NEW records, IsSeq(records), NEW columns, NEW run, Formed(columns, run), NEW i
  PROVE  Formed(columns, HoldPassStep(records, None, run, i))
<1> DEFINE held == Holding!Over(None, None, run, records)
<1>1. HoldPassStep(records, None, run, i) = held
  BY DEF HoldPassStep, Holding!Over, HoldStep, Holding!Unfolding, FoldLeft,
         MapThenFoldSet, Holding!Last, Max
<1>2. Holding!Sequence(records)
  BY SeqReached DEF Holding!Sequence, Holding!Reached
<1>3. \A d, r : Formed(run, d) => Formed(run, HoldStep(None, None, d, r))
  BY HoldRecordFormed DEF HoldStep
<1>4. FormedLoop(None, None, run, Len(records), held)
  BY <1>2, <1>3, Holding!FoldKeeps, FormedItself DEF FormedLoop
<1>5. QED
  BY <1>1, <1>4, FormedAfter DEF FormedLoop

\* _finalise.
LEMMA FinaliseFormed ==
  ASSUME NEW columns, NEW run, Formed(columns, run), NEW overrides
  PROVE  Formed(columns, Finalise(run, overrides))
<1> DEFINE records == [i \in DOMAIN run.records |-> Finished(run.records[i], overrides.excluded)]
           stated == [run EXCEPT !.records = records]
           places == [i \in DOMAIN stated.records |-> i]
           held == HoldingAll!Over(stated.records, None, stated, places)
<1>1. Finalise(run, overrides) = held
  <2>1. Finalise(run, overrides) = HoldDependents(stated)
    BY DEF Finalise
  <2> HIDE DEF stated
  <2>2. HoldDependents(stated) = held
    BY DEF HoldDependents, HoldPassStep, HoldingAll!Over, HoldingAll!Unfolding, FoldLeft,
           MapThenFoldSet, HoldingAll!Last, Max
  <2>3. QED
    BY <2>1, <2>2
<1>2. Formed(columns, stated)
  <2>1. records = [i \in DOMAIN run.records |-> records[i]]
    OBVIOUS
  <2> HIDE DEF records
  <2>2. QED
    BY <2>1, FormedRecords
<1> HIDE DEF stated
<1>3. IsSeq(places)
  <2>1. places = [i \in DOMAIN stated.records |-> places[i]]
    OBVIOUS
  <2>2. IsSeq(stated.records)
    BY <1>2 DEF Formed, Shaped
  <2> HIDE DEF places
  <2>3. QED
    BY <2>1, <2>2, SeqChanged
<1> HIDE DEF places
<1>4. HoldingAll!Sequence(places)
  BY <1>3, SeqReached DEF HoldingAll!Sequence, HoldingAll!Reached
<1>5. \A d, i : Formed(stated, d) => Formed(stated, HoldPassStep(stated.records, None, d, i))
  BY <1>2, HoldPassFormed DEF Formed, Shaped
<1>6. FormedLoop(stated.records, None, stated, Len(places), held)
  BY <1>2, <1>4, <1>5, HoldingAll!FoldKeeps, FormedItself DEF FormedLoop
<1>7. QED
  BY <1>1, <1>6, <1>2, FormedAfter DEF FormedLoop

(************************** orders of finite sets **************************)

\* A strict order that ranks any two elements.
Orders(R, S) ==
  /\ \A x \in S : <<x, x>> \notin R
  /\ \A x, y, z \in S : <<x, y>> \in R /\ <<y, z>> \in R => <<x, z>> \in R
  /\ \A x, y \in S : x # y => <<x, y>> \in R \/ <<y, x>> \in R

\* What comes before an element.
Before(R, S, x) == {y \in S : <<y, x>> \in R}

\* Counting what comes before ranks the elements of a finite set from 0 on.
LEMMA OrderRanks ==
  ASSUME NEW S, IsFiniteSet(S), NEW R, Orders(R, S), NEW i \in 1..Cardinality(S)
  PROVE  \E x \in S : Cardinality(Before(R, S, x)) = i - 1
<1> DEFINE N == Cardinality(S)
           T == 0..(N - 1)
           rank == [x \in S |-> Cardinality(Before(R, S, x))]
<1>1. N \in Nat
  BY FS_CardinalityType
<1>2. ASSUME NEW x \in S
      PROVE  /\ IsFiniteSet(Before(R, S, x)) /\ rank[x] \in Nat /\ rank[x] < N
             /\ Before(R, S, x) \in SUBSET S
  <2>1. Before(R, S, x) \in SUBSET S /\ x \notin Before(R, S, x)
    BY DEF Orders, Before
  <2>2. /\ IsFiniteSet(Before(R, S, x)) /\ Cardinality(Before(R, S, x)) <= N
        /\ Cardinality(Before(R, S, x)) # N
    BY <2>1, FS_Subset
  <2>3. Cardinality(Before(R, S, x)) \in Nat
    BY <2>2, FS_CardinalityType
  <2>4. QED
    BY <1>1, <2>1, <2>2, <2>3
<1>3. rank \in [S -> T]
  <2>1. \A x \in S : rank[x] \in T
    BY <1>1, <1>2
  <2>2. QED
    BY <2>1
<1>4. ASSUME NEW x \in S, NEW y \in S, <<x, y>> \in R PROVE rank[x] # rank[y]
  <2>1. Before(R, S, x) \in SUBSET Before(R, S, y)
    BY <1>4 DEF Orders, Before
  <2>2. x \in Before(R, S, y) /\ x \notin Before(R, S, x)
    BY <1>4 DEF Orders, Before
  <2>3. IsFiniteSet(Before(R, S, y))
    BY <1>2
  <2>4. Cardinality(Before(R, S, x)) # Cardinality(Before(R, S, y))
    BY <2>1, <2>2, <2>3, FS_Subset
  <2>5. QED
    BY <2>4
<1>5. rank \in Injection(S, T)
  <2>1. \A x, y \in S : rank[x] = rank[y] => x = y
    BY <1>4 DEF Orders
  <2> HIDE DEF rank, T
  <2>2. QED
    BY <1>3, <2>1 DEF Injection, IsInjective
<1>6. IsFiniteSet(T) /\ Cardinality(T) = N
  <2>1. PICK m \in Int : m = N - 1
    BY <1>1
  <2>2. IsFiniteSet(0..m) /\ Cardinality(0..m) = IF 0 > m THEN 0 ELSE m - 0 + 1
    BY FS_Interval
  <2>3. QED
    BY <1>1, <2>1, <2>2
<1>7. rank \in Surjection(S, T)
  <2> HIDE DEF rank, T
  <2>1. QED
    BY <1>5, <1>6, FS_Injection
<1>8. i - 1 \in T
  BY <1>1
<1>9. PICK x \in S : rank[x] = i - 1
  <2> HIDE DEF rank, T
  <2>1. QED
    BY <1>7, <1>8 DEF Surjection
<1>10. QED
  BY <1>9

\* Finitely many numbers have a least and a greatest.
LEMMA LeastAndGreatest ==
  ASSUME NEW S, IsFiniteSet(S), S # {}, S \subseteq Int
  PROVE  /\ Min(S) \in S /\ \A y \in S : Min(S) <= y
         /\ Max(S) \in S /\ \A y \in S : Max(S) >= y
<1> DEFINE up == {p \in S \X S : p[1] < p[2]}
           down == {p \in S \X S : p[1] > p[2]}
<1>1. Orders(up, S) /\ Orders(down, S)
  <2>1. \A x, y \in S : (<<x, y>> \in up <=> x < y) /\ (<<x, y>> \in down <=> x > y)
    OBVIOUS
  <2> HIDE DEF up, down
  <2>2. Orders(up, S)
    BY <2>1 DEF Orders
  <2>3. Orders(down, S)
    BY <2>1 DEF Orders
  <2>4. QED
    BY <2>2, <2>3
<1>2. 1 \in 1..Cardinality(S)
  BY FS_CardinalityType, FS_EmptySet
<1>3. ASSUME NEW R, Orders(R, S) PROVE \E x \in S : \A y \in S : <<y, x>> \notin R
  <2>1. PICK x \in S : Cardinality(Before(R, S, x)) = 1 - 1
    BY <1>2, <1>3, OrderRanks
  <2>2. Before(R, S, x) \in SUBSET S
    BY DEF Before
  <2>3. Before(R, S, x) = {}
    BY <2>1, <2>2, FS_Subset, FS_EmptySet
  <2>4. QED
    BY <2>3 DEF Before
<1>4. \E x \in S : \A y \in S : x <= y
  <2>1. PICK x \in S : \A y \in S : <<y, x>> \notin up
    BY <1>1, <1>3
  <2>2. \A y \in S : ~(y < x)
    BY <2>1
  <2>3. QED
    BY <2>2
<1>5. \E x \in S : \A y \in S : x >= y
  <2>1. PICK x \in S : \A y \in S : <<y, x>> \notin down
    BY <1>1, <1>3
  <2>2. \A y \in S : ~(y > x)
    BY <2>1
  <2>3. QED
    BY <2>2
<1>6. QED
  BY <1>4, <1>5 DEF Min, Max

\* The parts of a finite set have sizes, and less is in what is left of one.
LEMMA PartsShrink ==
  ASSUME NEW S, IsFiniteSet(S)
  PROVE  \E N, size :
           /\ N \in Nat
           /\ \A T : 0 \in T /\ (\A n \in 0..(N - 1) : n \in T => n + 1 \in T) => N \in T
           /\ \A t \in SUBSET S :
                /\ size[t] \in 0..N
                /\ size[t] = 0 => t = {}
                /\ \A e \in t : size[t \ {e}] < size[t]
<1> DEFINE N == Cardinality(S)
           size == [t \in SUBSET S |-> Cardinality(t)]
<1>1. N \in Nat
  BY FS_CardinalityType
<1>2. ASSUME NEW t \in SUBSET S
      PROVE  /\ size[t] \in 0..N
             /\ size[t] = 0 => t = {}
             /\ \A e \in t : size[t \ {e}] < size[t]
  <2>1. IsFiniteSet(t) /\ Cardinality(t) <= N /\ Cardinality(t) \in Nat
    BY FS_Subset, FS_CardinalityType
  <2>2. Cardinality(t) = 0 => t = {}
    BY <2>1, FS_EmptySet
  <2>3. \A e \in t : Cardinality(t \ {e}) = Cardinality(t) - 1
    BY <2>1, FS_RemoveElement
  <2>4. \A e \in t : size[t \ {e}] = Cardinality(t \ {e})
    OBVIOUS
  <2>5. QED
    BY <1>1, <2>1, <2>2, <2>3, <2>4
<1>3. \A T : 0 \in T /\ (\A n \in 0..(N - 1) : n \in T => n + 1 \in T) => N \in T
  BY <1>1, Reaching
<1> HIDE DEF N, size
<1>4. QED
  BY <1>1, <1>2, <1>3

(****************************** sums and shares ****************************)

\* A quotient of natural numbers.
LEMMA QuotientIsNat ==
  ASSUME NEW a \in Nat, NEW b \in Nat \ {0}
  PROVE  a \div b \in Nat
OBVIOUS

\* A whole is something.
LEMMA WholeIsNat == Whole \in Nat \ {0}
BY DEF Whole

\* A share is a natural number, that of an empty whole is nothing.
LEMMA ShareIsNat ==
  ASSUME NEW n \in Nat, NEW d \in Nat
  PROVE  Share(n, d) \in Nat
<1>1. Whole * n \in Nat
  BY WholeIsNat
<1>2. QED
  BY <1>1, QuotientIsNat DEF Share

NatInv(p, q, base, gone, sum) == sum \in Nat
SumInv(p, q, base, gone, sum) == sum \in Nat /\ (gone # {} => sum # 0)

WeighStep(profile, field, sum, signal) ==
  SignalWeight(signal) * SignalValue(signal, profile, field) + sum
Weighing == INSTANCE FoldInduction WITH Step <- WeighStep, Inv <- NatInv
WeightStep(p, q, sum, signal) == SignalWeight(signal) + sum
Weights == INSTANCE FoldInduction WITH Step <- WeightStep, Inv <- SumInv
FieldWeightStep(p, q, sum, field) == Weight(field) + sum
FieldWeights == INSTANCE FoldInduction WITH Step <- FieldWeightStep, Inv <- SumInv

\* A profile has its values one after another.
IsProfile(profile) == IsSeq(profile.values)

\* The distinct values of a column are finitely many.
LEMMA ValuesFinite ==
  ASSUME NEW profile, IsProfile(profile)
  PROVE  /\ Len(profile.values) \in Nat
         /\ IsFiniteSet(DOMAIN profile.values)
         /\ IsFiniteSet(Range(profile.values))
         /\ Cardinality(Range(profile.values)) \in Nat
<1>1. /\ Len(profile.values) \in Nat /\ IsFiniteSet(DOMAIN profile.values)
      /\ IsFiniteSet({profile.values[i] : i \in DOMAIN profile.values})
  BY SeqIs, PlacesFinite DEF IsProfile
<1>2. Range(profile.values) = {profile.values[i] : i \in DOMAIN profile.values}
  BY DEF Range
<1>3. IsFiniteSet(Range(profile.values))
  BY <1>1, <1>2
<1>4. QED
  BY <1>1, <1>3, FS_CardinalityType

\* Parts of a finite whole are shares.
LEMMA PartIsNat ==
  ASSUME NEW S, IsFiniteSet(S), NEW T \in SUBSET S, NEW d \in Nat
  PROVE  Share(Cardinality(T), d) \in Nat
BY FS_Subset, FS_CardinalityType, ShareIsNat

\* What a column is measured by is a share of 10,000, or some.
LEMMA TypeFitIsNat ==
  ASSUME NEW profile, IsProfile(profile), NEW field \in FieldNames
  PROVE  TypeFit(profile, field) \in Nat
<1> DEFINE places == DOMAIN profile.values
           share(T) == Share(Cardinality(T), Len(profile.values))
           read == [fmt \in DateFormats |-> share({i \in places : ReadAs(profile.values[i], fmt) # None})]
<1>1. \A T \in SUBSET places : share(T) \in Nat
  BY ValuesFinite, PartIsNat
<1>2. DateFit(profile) \in Nat
  <2> DEFINE fits == {read[fmt] : fmt \in DOMAIN read}
  <2>1. DateFit(profile) = Max(fits)
    BY DEF DateFit, ShareOfValues
  <2>2. IsFiniteSet(fits)
    BY SchemaAssumption, ImageFinite
  <2>3. \A fmt \in DateFormats : {i \in places : ReadAs(profile.values[i], fmt) # None} \in SUBSET places
    OBVIOUS
  <2>4. \A fmt \in DateFormats : read[fmt] \in Nat
    BY <1>1, <2>3
  <2>5. fits # {} /\ fits \subseteq Nat
    BY <2>4, SchemaAssumption
  <2> HIDE DEF fits
  <2>6. Max(fits) \in fits
    <3>1. fits \subseteq Int
      BY <2>5
    <3>2. QED
      BY <2>2, <2>5, <3>1, LeastAndGreatest
  <2>7. QED
    BY <2>1, <2>5, <2>6
<1>3. \E T \in SUBSET places : ShareOfValues(profile, LAMBDA v : IsAllowed(field, v)) = share(T)
  <2>1. ShareOfValues(profile, LAMBDA v : IsAllowed(field, v)) =
           share({i \in places : IsAllowed(field, profile.values[i])})
    BY DEF ShareOfValues
  <2>2. QED
    BY <2>1
<1>4. \E T \in SUBSET places :
         ShareOfValues(profile, LAMBDA v : Parses(FieldSpec[field].type, v)) = share(T)
  <2>1. ShareOfValues(profile, LAMBDA v : Parses(FieldSpec[field].type, v)) =
           share({i \in places : Parses(FieldSpec[field].type, profile.values[i])})
    BY DEF ShareOfValues
  <2>2. QED
    BY <2>1
<1> HIDE DEF share, places
<1>5. QED
  BY <1>1, <1>2, <1>3, <1>4, WholeIsNat DEF TypeFit

\* A share of the distinct values.
LEMMA DistinctIsNat ==
  ASSUME NEW profile, IsProfile(profile), NEW T \in SUBSET Range(profile.values)
  PROVE  Share(Cardinality(T), Cardinality(Range(profile.values))) \in Nat
BY ValuesFinite, PartIsNat

\* So are the fits: to what the field allows,
LEMMA ConstraintFitIsNat ==
  ASSUME NEW profile, IsProfile(profile), NEW field
  PROVE  ConstraintFit(profile, field) \in Nat
<1>1. ConstraintFit(profile, field) =
        Share(Cardinality({v \in Range(profile.values) : RelaxedMatch(field, v) \/ IsAllowed(field, v)}),
              Cardinality(Range(profile.values)))
  BY DEF ConstraintFit, ShareOfDistinct
<1>2. QED
  BY <1>1, DistinctIsNat

\* to the records it refers to,
LEMMA ReferenceFitIsNat ==
  ASSUME NEW profile, IsProfile(profile), NEW field
  PROVE  ReferenceFit(profile, field) \in Nat
<1>1. ReferenceFit(profile, field) =
        Share(Cardinality({v \in Range(profile.values) : v \in Lookups[FieldSpec[field].reference[1]]}),
              Cardinality(Range(profile.values)))
  BY DEF ReferenceFit, ShareOfDistinct
<1>2. QED
  BY <1>1, DistinctIsNat

\* to a field whose values are all different,
LEMMA UniqueFitIsNat ==
  ASSUME NEW profile, IsProfile(profile)
  PROVE  UniqueFit(profile) \in Nat
BY ValuesFinite, ShareIsNat DEF UniqueFit

\* and to the shape of the column.
LEMMA MaskFitIsNat ==
  ASSUME NEW profile, IsProfile(profile), NEW field
  PROVE  MaskFit(profile, field) \in Nat
<1> DEFINE distinct == Range(profile.values)
           same(w) == {i \in DOMAIN profile.values : Mask(profile.values[i]) = Mask(w)}
           reached == [w \in distinct |-> Share(Cardinality(same(w)), Len(profile.values))]
           reach == {reached[w] : w \in DOMAIN reached}
           matching == {v \in distinct : RelaxedMatch(field, v)}
           match == Share(Cardinality(matching), Cardinality(distinct))
<1>1. MaskFit(profile, field) = IF reach = {} THEN 0 ELSE (match * Max(reach)) \div Whole
  <2> DEFINE all == {Share(Cardinality(same(w)), Len(profile.values)) : w \in distinct}
  <2>1. MaskFit(profile, field) = IF all = {} THEN 0 ELSE (match * Max(all)) \div Whole
    BY Zenon DEF MaskFit, ShareOfValues, ShareOfDistinct
  <2>2. all = reach
    OBVIOUS
  <2> HIDE DEF all, reach, match
  <2>3. QED
    BY <2>1, <2>2
<1>2. match \in Nat
  BY DistinctIsNat
<1>3. IsFiniteSet(reach)
  BY ValuesFinite, ImageFinite
<1>4. \A w \in distinct : same(w) \in SUBSET DOMAIN profile.values
  OBVIOUS
<1> HIDE DEF same
<1>5. \A w \in distinct : reached[w] \in Nat
  BY <1>4, ValuesFinite, PartIsNat
<1>6. reach \subseteq Nat
  BY <1>5
<1> HIDE DEF reach, match
<1>7. reach # {} => Max(reach) \in Nat
  <2>1. reach \subseteq Int
    BY <1>6
  <2>2. reach # {} => Max(reach) \in reach
    BY <1>3, <2>1, LeastAndGreatest
  <2>3. QED
    BY <1>6, <2>2
<1>8. \A a, b \in Nat : a * b \in Nat
  OBVIOUS
<1>9. reach # {} => (match * Max(reach)) \div Whole \in Nat
  BY <1>2, <1>7, <1>8, WholeIsNat, QuotientIsNat
<1>10. QED
  BY <1>1, <1>9

AllSignals == {"name_sim", "type_fit", "constraint_fit", "unique_fit", "mask_fit", "reference_fit"}

\* The signals that count are some of six, the header's likeness always.
LEMMA SignalsFinite ==
  ASSUME NEW profile, NEW field
  PROVE  /\ IsFiniteSet(Signals(profile, field)) /\ Signals(profile, field) # {}
         /\ Signals(profile, field) \subseteq AllSignals
<1>1. IsFiniteSet({}) /\ \A S, x : IsFiniteSet(S) => IsFiniteSet(S \cup {x})
  BY FS_EmptySet, FS_AddElement
<1>2. AllSignals = ((((({} \cup {"name_sim"}) \cup {"type_fit"}) \cup {"constraint_fit"})
                      \cup {"unique_fit"}) \cup {"mask_fit"}) \cup {"reference_fit"}
  BY DEF AllSignals
<1>3. IsFiniteSet(AllSignals)
  BY <1>1, <1>2
<1>4. Signals(profile, field) \in SUBSET AllSignals /\ "name_sim" \in Signals(profile, field)
  BY DEF Signals, AllSignals
<1>5. IsFiniteSet(Signals(profile, field))
  BY <1>3, <1>4, FS_Subset
<1>6. QED
  BY <1>4, <1>5

\* Evidence.deterministic_score is a share.
LEMMA MeasuredIsNat ==
  ASSUME NEW profile, IsProfile(profile), NEW field \in FieldNames, NameSim(profile.name, field) \in Nat
  PROVE  MeasuredScore(profile, field) \in Nat
<1> DEFINE signals == Signals(profile, field)
           sum == Weighing!Gathered(profile, field, 0, signals)
           weight == Weights!Gathered(None, None, 0, signals)
<1>1. MeasuredScore(profile, field) = sum \div weight
  BY DEF MeasuredScore, MapThenSumSet, MapThenFoldSet, WeighStep, WeightStep,
         Weighing!Gathered, Weighing!Gathering, Weights!Gathered, Weights!Gathering
<1>2. IsFiniteSet(signals) /\ signals # {} /\ signals \subseteq AllSignals
  BY SignalsFinite
<1> HIDE DEF signals
<1>3. \A s \in AllSignals : SignalWeight(s) \in Nat \ {0}
  BY DEF AllSignals, SignalWeight
<1>4. \A s \in AllSignals : SignalValue(s, profile, field) \in Nat
  BY TypeFitIsNat, ConstraintFitIsNat, UniqueFitIsNat, MaskFitIsNat, ReferenceFitIsNat
     DEF AllSignals, SignalValue
<1>5. sum \in Nat
  <2>1. \A a, b, c \in Nat : a * b + c \in Nat
    OBVIOUS
  <2>2. \A t \in SUBSET signals : \A e \in signals : \A x :
           NatInv(profile, field, 0, t, x) =>
             NatInv(profile, field, 0, t \cup {e}, WeighStep(profile, field, x, e))
    BY <1>2, <1>3, <1>4, <2>1 DEF NatInv, WeighStep
  <2>3. NatInv(profile, field, 0, {}, 0)
    BY DEF NatInv
  <2>4. PICK N, size : Weighing!Sized(size, N, signals)
    BY <1>2, PartsShrink DEF Weighing!Sized, Weighing!Reached
  <2>5. NatInv(profile, field, 0, signals, sum)
    BY <2>2, <2>3, <2>4, Weighing!GatherKeeps
  <2>6. QED
    BY <2>5 DEF NatInv
<1>6. weight \in Nat \ {0}
  <2>1. \A t \in SUBSET signals : \A e \in signals : \A x :
           SumInv(None, None, 0, t, x) => SumInv(None, None, 0, t \cup {e}, WeightStep(None, None, x, e))
    BY <1>2, <1>3 DEF SumInv, WeightStep
  <2>2. SumInv(None, None, 0, {}, 0)
    BY DEF SumInv
  <2>3. PICK N, size : Weights!Sized(size, N, signals)
    BY <1>2, PartsShrink DEF Weights!Sized, Weights!Reached
  <2>4. SumInv(None, None, 0, signals, weight)
    BY <2>1, <2>2, <2>3, Weights!GatherKeeps
  <2>5. QED
    BY <1>2, <2>4 DEF SumInv
<1> HIDE DEF sum, weight
<1>7. QED
  BY <1>1, <1>5, <1>6, QuotientIsNat

\* WeightOf: what fields weigh together.
LEMMA WeightOfIs ==
  ASSUME NEW fields, IsFiniteSet(fields)
  PROVE  WeightOf(fields) \in Nat /\ (fields # {} => WeightOf(fields) # 0)
<1> DEFINE sum == FieldWeights!Gathered(None, None, 0, fields)
<1>1. WeightOf(fields) = sum
  BY DEF WeightOf, MapThenSumSet, MapThenFoldSet, FieldWeightStep,
         FieldWeights!Gathered, FieldWeights!Gathering
<1>2. \A f : Weight(f) \in Nat \ {0}
  BY DEF Weight
<1>3. \A t \in SUBSET fields : \A e \in fields : \A x :
         SumInv(None, None, 0, t, x) => SumInv(None, None, 0, t \cup {e}, FieldWeightStep(None, None, x, e))
  BY <1>2 DEF SumInv, FieldWeightStep
<1>4. SumInv(None, None, 0, {}, 0)
  BY DEF SumInv
<1>5. PICK N, size : FieldWeights!Sized(size, N, fields)
  BY PartsShrink DEF FieldWeights!Sized, FieldWeights!Reached
<1>6. SumInv(None, None, 0, fields, sum)
  BY <1>3, <1>4, <1>5, FieldWeights!GatherKeeps
<1> HIDE DEF sum
<1>7. QED
  BY <1>1, <1>6 DEF SumInv

(************************ the evidence for a column ************************)

\* What is known of a column when it is ranked.
ProfileOf(source, header) ==
  ProfileColumn(header, [i \in DOMAIN source.rows |-> source.rows[i].cells[header]])
VoteOn(votes, header) == IF header \in DOMAIN votes THEN votes[header] ELSE NoFunction

\* A field has a third of the measured evidence and no veto.
Proven(profile, field) ==
  /\ field \in FieldNames
  /\ ~Vetoed(profile, field)
  /\ 3 * MeasuredScore(profile, field) >= 9999

\* Votes, and likeness of headers and fields, are shares.
Weighable(source, votes) ==
  /\ Sheet(source)
  /\ \A h \in Range(source.headers), f \in FieldNames : NameSim(h, f) \in Nat
  /\ \A h \in DOMAIN votes : \A f \in DOMAIN votes[h] : votes[h][f] \in Shares

\* The profile of a column.
LEMMA ProfileIs ==
  ASSUME NEW source, Sheet(source), NEW header
  PROVE  IsProfile(ProfileOf(source, header)) /\ ProfileOf(source, header).name = header
<1> DEFINE cells == [i \in DOMAIN source.rows |-> source.rows[i].cells[header]]
           texts == [i \in DOMAIN cells |-> IF cells[i] = None THEN None ELSE Trimmed(cells[i])]
           kept  == Range(texts) \ (NullMarkers \cup {None})
<1>1. ProfileOf(source, header) = [name |-> header, values |-> Those(texts, kept)]
  BY DEF ProfileOf, ProfileColumn
<1>2. texts = [i \in DOMAIN source.rows |-> texts[i]]
  OBVIOUS
<1>3. IsSeq(texts)
  <2> HIDE DEF texts
  <2>1. QED
    BY <1>2, SeqChanged DEF Sheet
<1> HIDE DEF texts, kept
<1>4. IsSeq(Those(texts, kept))
  BY <1>3, ThoseIs
<1>5. QED
  BY <1>1, <1>4 DEF IsProfile

\* The schema's fields are finitely many, each with a place of its own.
LEMMA FieldsFinite ==
  /\ IsFiniteSet(FieldNames)
  /\ \A f \in FieldNames : Position(f) \in Nat
  /\ \A f, g \in FieldNames : Position(f) = Position(g) => f = g
<1>1. IsSeq(FieldOrder)
  BY FieldsAreSeq
<1>2. FieldNames = {FieldOrder[i] : i \in DOMAIN FieldOrder}
  BY DEF FieldNames, Range
<1>3. IsFiniteSet(FieldNames)
  BY <1>1, <1>2, PlacesFinite
<1>4. \A f \in FieldNames : Position(f) \in DOMAIN FieldOrder /\ FieldOrder[Position(f)] = f
  BY <1>2 DEF Position
<1>5. DOMAIN FieldOrder = 1..Len(FieldOrder) /\ Len(FieldOrder) \in Nat
  BY <1>1, SeqIs
<1>6. QED
  BY <1>3, <1>4, <1>5

\* Candidates as the scoring makes them.
IsCandidates(cands) ==
  /\ IsFiniteSet(cands)
  /\ \A c \in cands : /\ c = [field |-> c.field, score |-> c.score]
                      /\ c.field \in FieldNames /\ c.score \in Nat

\* The first of the ranking is a candidate.
LEMMA BestIsCandidate ==
  ASSUME NEW cands, IsCandidates(cands), Ranked(cands) # <<>>
  PROVE  Ranked(cands)[1] \in cands
<1> DEFINE better(c, d) == \/ c.score > d.score
                           \/ c.score = d.score /\ Position(c.field) < Position(d.field)
           R == {p \in cands \X cands : better(p[1], p[2])}
           at(i) == CHOOSE x \in cands : Cardinality({y \in cands : better(y, x)}) = i - 1
<1>1. Ranked(cands) = [i \in 1..Cardinality(cands) |-> at(i)]
  BY Zenon DEF Ranked, InOrder
<1>2. \A c, d \in cands : <<c, d>> \in R <=> better(c, d)
  OBVIOUS
<1> HIDE DEF R
<1>3. Orders(R, cands)
  <2>1. \A c \in cands : c.score \in Nat /\ Position(c.field) \in Nat
    BY FieldsFinite DEF IsCandidates
  <2>2. \A c, d \in cands : c.score = d.score /\ Position(c.field) = Position(d.field) => c = d
    BY FieldsFinite DEF IsCandidates
  <2>3. \A c \in cands : ~better(c, c)
    BY <2>1
  <2>4. \A c, d, e \in cands : better(c, d) /\ better(d, e) => better(c, e)
    BY <2>1
  <2>5. \A c, d \in cands : c # d => better(c, d) \/ better(d, c)
    BY <2>1, <2>2
  <2> HIDE DEF better
  <2>6. QED
    BY <1>2, <2>3, <2>4, <2>5 DEF Orders
<1>4. Cardinality(cands) \in Nat
  BY FS_CardinalityType DEF IsCandidates
<1>5. 1 \in 1..Cardinality(cands)
  <2> HIDE DEF at
  <2>1. Cardinality(cands) # 0
    <3>1. ASSUME Cardinality(cands) = 0 PROVE Ranked(cands) = <<>>
      BY <1>1, <3>1
    <3>2. QED
      BY <3>1
  <2>2. QED
    BY <1>4, <2>1
<1>6. PICK x \in cands : Cardinality(Before(R, cands, x)) = 1 - 1
  BY <1>3, <1>5, OrderRanks DEF IsCandidates
<1>7. Before(R, cands, x) = {y \in cands : better(y, x)}
  BY <1>2 DEF Before
<1> HIDE DEF better
<1>8. at(1) \in cands
  BY <1>6, <1>7
<1>9. QED
  BY <1>1, <1>5, <1>8

\* A mapping whose candidates come from the scoring of its column.
Weighed(source, votes, m) ==
  /\ DOMAIN m = {"file", "column", "candidates", "decision", "field"}
  /\ m.file = source.name /\ m.column \in Range(source.headers)
  /\ m.candidates \subseteq Candidates(ProfileOf(source, m.column), VoteOn(votes, m.column))

\* And which is applied on evidence only.
Earned(source, votes, m) ==
  /\ Weighed(source, votes, m)
  /\ m.decision = "auto_apply" => Proven(ProfileOf(source, m.column), m.field)

\* A score is a share, or some of one.
LEMMA ScoreIsNat ==
  ASSUME NEW profile, NEW field, MeasuredScore(profile, field) \in Nat,
         NEW vote, \A f \in DOMAIN vote : vote[f] \in Shares
  PROVE  Score(profile, field, vote) \in Nat
<1> DEFINE m == MeasuredScore(profile, field)
           v == vote[field]
<1>1. CASE Vetoed(profile, field)
  BY <1>1 DEF Score
<1>2. CASE ~Vetoed(profile, field) /\ field \notin DOMAIN vote
  BY <1>2 DEF Score
<1>3. CASE ~Vetoed(profile, field) /\ field \in DOMAIN vote
  <2>1. v \in Shares
    BY <1>3
  <2>2. Score(profile, field, vote) = (75 * m + 25 * v) \div 100
    BY <1>3 DEF Score, VoteCap
  <2> HIDE DEF m, v
  <2>3. m \in Nat /\ v \in Nat
    BY <2>1, WholeIsNat DEF m, Shares
  <2>4. 75 * m + 25 * v \in Nat
    BY <2>3
  <2>5. QED
    BY <2>2, <2>4, QuotientIsNat
<1>4. QED
  BY <1>1, <1>2, <1>3

\* A column's scores.
LEMMA ScoresAre ==
  ASSUME NEW source, NEW votes, Weighable(source, votes), NEW h \in Range(source.headers),
         NEW f \in FieldNames
  PROVE  /\ MeasuredScore(ProfileOf(source, h), f) \in Nat
         /\ Score(ProfileOf(source, h), f, VoteOn(votes, h)) \in Nat
         /\ \A g \in DOMAIN VoteOn(votes, h) : VoteOn(votes, h)[g] \in Shares
<1> DEFINE profile == ProfileOf(source, h)
           vote == VoteOn(votes, h)
<1>1. IsProfile(profile) /\ profile.name = h
  BY ProfileIs DEF Weighable
<1>2. NameSim(profile.name, f) \in Nat
  BY <1>1 DEF Weighable
<1> HIDE DEF profile
<1>3. MeasuredScore(profile, f) \in Nat
  BY <1>1, <1>2, MeasuredIsNat
<1>4. \A g \in DOMAIN vote : vote[g] \in Shares
  <2>1. CASE h \in DOMAIN votes
    <3>1. vote = votes[h]
      BY <2>1 DEF VoteOn
    <3> HIDE DEF vote
    <3>2. QED
      BY <2>1, <3>1 DEF Weighable
  <2>2. CASE h \notin DOMAIN votes
    <3>1. vote = NoFunction /\ DOMAIN NoFunction = {}
      BY <2>2 DEF VoteOn, NoFunction
    <3> HIDE DEF vote
    <3>2. QED
      BY <3>1
  <2>3. QED
    BY <2>1, <2>2
<1> HIDE DEF vote
<1>5. Score(profile, f, vote) \in Nat
  BY <1>3, <1>4, ScoreIsNat
<1>6. QED
  BY <1>3, <1>4, <1>5 DEF profile, vote

\* The candidates of a column.
LEMMA CandidatesAre ==
  ASSUME NEW source, NEW votes, Weighable(source, votes), NEW h \in Range(source.headers),
         NEW cands, cands \subseteq Candidates(ProfileOf(source, h), VoteOn(votes, h))
  PROVE  /\ IsCandidates(cands)
         /\ \A c \in cands : c.score = Score(ProfileOf(source, h), c.field, VoteOn(votes, h))
<1> DEFINE score(f) == Score(ProfileOf(source, h), f, VoteOn(votes, h))
           scored == [f \in FieldNames |-> [field |-> f, score |-> score(f)]]
           all == {scored[f] : f \in DOMAIN scored}
<1>1. cands \in SUBSET all
  BY DEF Candidates
<1>2. IsFiniteSet(all)
  BY FieldsFinite, ImageFinite
<1>3. IsFiniteSet(cands)
  BY <1>1, <1>2, FS_Subset
<1>4. \A f \in FieldNames : score(f) \in Nat
  BY ScoresAre
<1> HIDE DEF score
<1>5. \A c \in all : c = [field |-> c.field, score |-> c.score] /\ c.field \in FieldNames /\ c.score = score(c.field)
  OBVIOUS
<1> HIDE DEF all
<1>6. QED
  BY <1>1, <1>3, <1>4, <1>5 DEF IsCandidates, score

\* What decide applies is proven.
LEMMA DecidedEarned ==
  ASSUME NEW source, NEW votes, Weighable(source, votes), NEW m, Weighed(source, votes, m)
  PROVE  Earned(source, votes, Decided(m))
<1> DEFINE d == Decided(m)
           profile == ProfileOf(source, m.column)
           vote == VoteOn(votes, m.column)
           best == Ranked(m.candidates)[1]
<1>1. /\ DOMAIN d = DOMAIN m /\ d.file = m.file /\ d.column = m.column /\ d.candidates = m.candidates
  BY DEF Decided, Weighed
<1>2. ASSUME d.decision = "auto_apply" PROVE Proven(profile, d.field)
  <2>1. ~(best.score < ReviewFloor) /\ d.field = best.field
    BY <1>2, AppliedIsTheBest DEF Weighed
  <2>2. Ranked(m.candidates) # <<>>
    <3>1. ASSUME Ranked(m.candidates) = <<>> PROVE d.decision = "unmapped"
      BY <3>1 DEF Decided, Weighed
    <3>2. QED
      BY <1>2, <3>1
  <2>3. /\ IsCandidates(m.candidates)
        /\ \A c \in m.candidates : c.score = Score(profile, c.field, vote)
    BY CandidatesAre DEF Weighed
  <2>4. best \in m.candidates
    BY <2>2, <2>3, BestIsCandidate
  <2>5. best.field \in FieldNames /\ best.score \in Nat /\ best.score = Score(profile, best.field, vote)
    BY <2>3, <2>4 DEF IsCandidates
  <2> HIDE DEF best, d
  <2>6. Score(profile, best.field, vote) >= ReviewFloor
    BY <2>1, <2>5 DEF ReviewFloor
  <2>7. /\ MeasuredScore(profile, best.field) \in Nat
        /\ \A g \in DOMAIN vote : vote[g] \in Shares
    <3>1. m.column \in Range(source.headers)
      BY DEF Weighed
    <3> HIDE DEF profile, vote
    <3>2. /\ MeasuredScore(ProfileOf(source, m.column), best.field) \in Nat
          /\ \A g \in DOMAIN VoteOn(votes, m.column) : VoteOn(votes, m.column)[g] \in Shares
      BY <2>5, <3>1, ScoresAre
    <3>3. QED
      BY <3>2 DEF profile, vote
  <2> HIDE DEF profile, vote
  <2>8. ~Vetoed(profile, best.field) /\ MeasuredScore(profile, best.field) >= 3333
    BY <2>6, <2>7, CandidateNeedsEvidence
  <2>9. QED
    BY <2>1, <2>5, <2>7, <2>8 DEF Proven
<1> HIDE DEF d, profile, best
<1>3. Weighed(source, votes, d)
  BY <1>1 DEF Weighed
<1>4. ProfileOf(source, d.column) = profile
  BY <1>1 DEF profile
<1>5. QED
  BY <1>2, <1>3, <1>4 DEF Earned, d

EarnedList(source, votes, base, n, done) ==
  IsSeq(done) /\ \A i \in DOMAIN done : Earned(source, votes, done[i])
RankingEarned == INSTANCE FoldInduction WITH Step <- RankStep, Inv <- EarnedList
EarnedAgain(mappings, evidence, base, n, done) == EarnedList(evidence[1], evidence[2], base, n, done)
SettlingEarned == INSTANCE FoldInduction WITH Step <- SettleStep, Inv <- EarnedAgain

\* A column that is ranked is applied on evidence only.
LEMMA RankEarned ==
  ASSUME NEW source, NEW votes, Weighable(source, votes), NEW header \in Range(source.headers)
  PROVE  Earned(source, votes, RankColumn(source.name, ProfileOf(source, header), VoteOn(votes, header)))
<1> DEFINE m == [file |-> source.name, column |-> header,
                 candidates |-> Candidates(ProfileOf(source, header), VoteOn(votes, header)),
                 decision |-> "unmapped", field |-> None]
<1>1. ProfileOf(source, header).name = header
  BY ProfileIs DEF Weighable
<1>2. RankColumn(source.name, ProfileOf(source, header), VoteOn(votes, header)) = Decided(m)
  BY <1>1 DEF RankColumn
<1>3. Weighed(source, votes, m)
  BY DEF Weighed
<1> HIDE DEF m
<1>4. QED
  BY <1>2, <1>3, DecidedEarned

\* So is one that is decided again without a candidate.
LEMMA TakenBackEarned ==
  ASSUME NEW source, NEW votes, Weighable(source, votes), NEW m, Earned(source, votes, m), NEW field
  PROVE  Earned(source, votes, TakeBack(m, field))
<1> DEFINE less == [m EXCEPT !.candidates = {c \in @ : c.field # field}]
<1>1. Weighed(source, votes, less)
  BY DEF Earned, Weighed
<1>2. TakeBack(m, field) = Decided(less)
  BY DEF TakeBack
<1> HIDE DEF less
<1>3. QED
  BY <1>1, <1>2, DecidedEarned

\* And all of a file's, settled among themselves.
LEMMA ResolvedEarned ==
  ASSUME NEW source, NEW votes, Weighable(source, votes), NEW mappings,
         IsSeq(mappings), \A i \in DOMAIN mappings : Earned(source, votes, mappings[i])
  PROVE  /\ IsSeq(ResolveWithinFile(mappings))
         /\ \A i \in DOMAIN ResolveWithinFile(mappings) : Earned(source, votes, ResolveWithinFile(mappings)[i])
<1> DEFINE placed == {i \in DOMAIN mappings : mappings[i].decision = "auto_apply"}
           firsts == {i \in placed : \A j \in placed : mappings[j].field = mappings[i].field => i <= j}
           claims == Those(mappings, {mappings[i] : i \in firsts})
           evidence == <<source, votes>>
           settled == SettlingEarned!Over(mappings, evidence, mappings, claims)
<1>1. ResolveWithinFile(mappings) = settled
  BY DEF ResolveWithinFile, SettlingEarned!Over, SettleStep, SettlingEarned!Unfolding, FoldLeft,
         MapThenFoldSet, SettlingEarned!Last, Max
<1>2. IsSeq(claims)
  BY ThoseIs
<1> HIDE DEF claims
<1>3. SettlingEarned!Sequence(claims)
  BY <1>2, SeqReached DEF SettlingEarned!Sequence, SettlingEarned!Reached
<1>4. \A done : EarnedAgain(mappings, evidence, mappings, 0, done) <=>
                  IsSeq(done) /\ \A i \in DOMAIN done : Earned(source, votes, done[i])
  BY DEF EarnedAgain, EarnedList
<1>5. ASSUME NEW done, IsSeq(done), \A i \in DOMAIN done : Earned(source, votes, done[i]), NEW claim
      PROVE  /\ IsSeq(SettleStep(mappings, evidence, done, claim))
             /\ \A i \in DOMAIN SettleStep(mappings, evidence, done, claim) :
                  Earned(source, votes, SettleStep(mappings, evidence, done, claim)[i])
  <2> DEFINE after == SettleStep(mappings, evidence, done, claim)
  <2>1. /\ after = [i \in DOMAIN done |-> after[i]]
        /\ \A i \in DOMAIN done : after[i] = done[i] \/ after[i] = TakeBack(done[i], claim.field)
    BY DEF SettleStep
  <2> HIDE DEF after
  <2>2. IsSeq(after) /\ DOMAIN after = DOMAIN done
    BY <1>5, <2>1, SeqChanged
  <2>3. \A i \in DOMAIN done : Earned(source, votes, TakeBack(done[i], claim.field))
    BY <1>5, TakenBackEarned
  <2>4. \A i \in DOMAIN after : Earned(source, votes, after[i])
    BY <1>5, <2>1, <2>2, <2>3
  <2>5. QED
    BY <2>2, <2>4 DEF after
<1> HIDE DEF evidence
<1>6. \A n : \A done, claim : EarnedAgain(mappings, evidence, mappings, n - 1, done) =>
        EarnedAgain(mappings, evidence, mappings, n, SettleStep(mappings, evidence, done, claim))
  BY <1>5 DEF EarnedAgain, EarnedList, evidence
<1>7. EarnedAgain(mappings, evidence, mappings, 0, mappings)
  BY <1>4
<1>8. EarnedAgain(mappings, evidence, mappings, Len(claims), settled)
  BY <1>3, <1>6, <1>7, SettlingEarned!FoldKeeps
<1>9. QED
  BY <1>1, <1>8 DEF EarnedAgain, EarnedList, evidence

\* A file's columns, ranked together.
LEMMA RankedEarned ==
  ASSUME NEW source, NEW votes, Weighable(source, votes)
  PROVE  EarnedList(source, votes, <<>>, Len(source.headers),
                    RankingEarned!Over(source, votes, <<>>, source.headers))
<1>1. IsSeq(source.headers)
  BY DEF Weighable, Sheet
<1>2. RankingEarned!Sequence(source.headers)
  BY <1>1, SeqReached DEF RankingEarned!Sequence, RankingEarned!Reached
<1>3. EarnedList(source, votes, <<>>, 0, <<>>)
  BY SeqEmpty DEF EarnedList
<1>4. ASSUME NEW n \in 1..Len(source.headers), NEW done, EarnedList(source, votes, <<>>, n - 1, done)
      PROVE  EarnedList(source, votes, <<>>, n, RankStep(source, votes, done, source.headers[n]))
  <2> DEFINE header == source.headers[n]
             ranked == RankColumn(source.name, ProfileOf(source, header), VoteOn(votes, header))
             after == RankStep(source, votes, done, header)
  <2>1. after = Append(done, ranked)
    BY DEF RankStep, ProfileOf, VoteOn
  <2>2. header \in Range(source.headers)
    BY <1>1, SeqIs DEF Range
  <2> HIDE DEF header
  <2>3. Earned(source, votes, ranked)
    BY <2>2, RankEarned
  <2> HIDE DEF ranked
  <2>4. IsSeq(done) /\ \A i \in DOMAIN done : Earned(source, votes, done[i])
    BY <1>4 DEF EarnedList
  <2>5. /\ IsSeq(after) /\ Len(after) = Len(done) + 1
        /\ \A i \in 1..(Len(done) + 1) : after[i] = IF i <= Len(done) THEN done[i] ELSE ranked
    BY <2>1, <2>4, SeqAppend
  <2> HIDE DEF after
  <2>6. Len(done) \in Nat /\ DOMAIN done = 1..Len(done) /\ DOMAIN after = 1..(Len(done) + 1)
    BY <2>4, <2>5, SeqIs
  <2>7. \A i \in DOMAIN after : Earned(source, votes, after[i])
    BY <2>3, <2>4, <2>5, <2>6
  <2>8. QED
    BY <2>5, <2>7 DEF EarnedList, after, header
<1>5. QED
  BY <1>2, <1>3, <1>4, RankingEarned!FoldKeeps

\* What a mapping may be after the answers had their say.
Supported(overrides, source, m) ==
  /\ m.file = source.name /\ m.column \in Range(source.headers)
  /\ m.decision = "auto_apply" /\ <<m.file, m.column>> \notin DOMAIN overrides.columnMap
       => Proven(ProfileOf(source, m.column), m.field)

\* The columns of some files, as they were placed.
Placed(overrides, files, run) ==
  /\ Shaped(run)
  /\ IsSeq(run.mappings)
  /\ \A i \in DOMAIN run.mappings : \E source \in files : Supported(overrides, source, run.mappings[i])
  /\ \A at \in DOMAIN run.applied :
       /\ run.applied[at] \in FieldNames
       /\ \E source \in files : \E header \in Range(source.headers) : at = <<source.name, header>>

PlacedLoop(overrides, source, base, n, run) ==
  \A files : source \in files /\ Placed(overrides, files, base) => Placed(overrides, files, run)
PlacingOnEvidence == INSTANCE FoldInduction WITH Step <- PlaceStep, Inv <- PlacedLoop

\* A column is placed on evidence or by an answer.
LEMMA PlaceSupported ==
  ASSUME NEW overrides, NEW source, NEW votes, NEW files, source \in files,
         NEW run, Placed(overrides, files, run),
         NEW mapping, Earned(source, votes, mapping)
  PROVE  Placed(overrides, files, PlaceStep(overrides, source, run, mapping))
<1> DEFINE at == <<mapping.file, mapping.column>>
           forced == Get(overrides.columnMap, at)
           placed == IF forced \in FieldNames
                       THEN [mapping EXCEPT !.decision = "auto_apply", !.field = forced] ELSE mapping
           noted == [run EXCEPT !.mappings = Append(@, placed)]
           after == PlaceStep(overrides, source, run, mapping)
<1>1. Shaped(after)
  BY PlaceShaped DEF PlaceStep, Placed
<1>2. /\ DOMAIN mapping = {"file", "column", "candidates", "decision", "field"}
      /\ mapping.file = source.name /\ mapping.column \in Range(source.headers)
      /\ mapping.decision = "auto_apply" => Proven(ProfileOf(source, mapping.column), mapping.field)
  BY DEF Earned, Weighed
<1>3. /\ placed.file = source.name /\ placed.column = mapping.column
      /\ placed.decision = "auto_apply" =>
           \/ at \in DOMAIN overrides.columnMap /\ placed.field \in FieldNames
           \/ Proven(ProfileOf(source, mapping.column), placed.field)
  <2>1. CASE forced \in FieldNames
    <3>1. at \in DOMAIN overrides.columnMap
      BY <2>1, SchemaAssumption DEF Get
    <3> HIDE DEF forced, at
    <3>2. QED
      BY <1>2, <2>1, <3>1
  <2>2. CASE forced \notin FieldNames
    BY <1>2, <2>2
  <2>3. QED
    BY <2>1, <2>2
<1>4. /\ after.mappings = Append(run.mappings, placed)
      /\ after.applied = run.applied
           \/ /\ placed.decision = "auto_apply"
              /\ after.applied = Put(run.applied, at, placed.field)
  <2>1. DOMAIN run = RunFields
    BY FieldsOfRun DEF Placed, Shaped
  <2>2. noted.mappings = Append(run.mappings, placed) /\ noted.applied = run.applied /\ DOMAIN noted = RunFields
    BY <2>1 DEF RunFields
  <2>3. \/ after = noted
        \/ after = AskAboutColumn(noted, placed)
        \/ /\ placed.decision = "auto_apply"
           /\ \E plans : after = [noted EXCEPT !.applied = Put(@, at, placed.field), !.plans = plans]
    BY DEF PlaceStep, PlaceColumn
  <2> HIDE DEF placed, noted, after
  <2>4. AskAboutColumn(noted, placed).mappings = noted.mappings
        /\ AskAboutColumn(noted, placed).applied = noted.applied
    BY <2>2 DEF AskAboutColumn, Raise, RunFields
  <2>5. QED
    BY <2>2, <2>3, <2>4 DEF RunFields
<1> HIDE DEF after, placed, forced, noted
<1>5. Supported(overrides, source, placed)
  BY <1>2, <1>3 DEF Supported
<1>6. IsSeq(after.mappings)
        /\ \A i \in DOMAIN after.mappings : \E s \in files : Supported(overrides, s, after.mappings[i])
  <2>1. /\ IsSeq(run.mappings)
        /\ \A i \in DOMAIN run.mappings : \E s \in files : Supported(overrides, s, run.mappings[i])
    BY DEF Placed
  <2>2. /\ IsSeq(after.mappings) /\ Len(after.mappings) = Len(run.mappings) + 1
        /\ \A i \in 1..(Len(run.mappings) + 1) :
             after.mappings[i] = IF i <= Len(run.mappings) THEN run.mappings[i] ELSE placed
    BY <1>4, <2>1, SeqAppend
  <2>3. /\ Len(run.mappings) \in Nat /\ DOMAIN run.mappings = 1..Len(run.mappings)
        /\ DOMAIN after.mappings = 1..(Len(run.mappings) + 1)
    BY <2>1, <2>2, SeqIs
  <2>4. QED
    BY <1>5, <2>1, <2>2, <2>3
<1>7. \A a \in DOMAIN after.applied :
        /\ after.applied[a] \in FieldNames
        /\ \E s \in files : \E header \in Range(s.headers) : a = <<s.name, header>>
  <2>1. \A a \in DOMAIN run.applied :
          /\ run.applied[a] \in FieldNames
          /\ \E s \in files : \E header \in Range(s.headers) : a = <<s.name, header>>
    BY DEF Placed
  <2>2. CASE after.applied = run.applied
    BY <2>1, <2>2
  <2>3. CASE placed.decision = "auto_apply" /\ after.applied = Put(run.applied, at, placed.field)
    <3>1. placed.field \in FieldNames
      BY <1>3, <2>3 DEF Proven
    <3>2. DOMAIN after.applied = DOMAIN run.applied \cup {at}
      BY <2>3 DEF Put
    <3>3. \A a \in DOMAIN after.applied : after.applied[a] = IF a = at THEN placed.field ELSE run.applied[a]
      BY <2>3 DEF Put
    <3>4. at = <<source.name, mapping.column>>
      BY <1>2
    <3> HIDE DEF at
    <3>5. QED
      BY <1>2, <2>1, <3>1, <3>2, <3>3, <3>4
  <2>4. QED
    BY <1>4, <2>2, <2>3
<1>8. QED
  BY <1>1, <1>6, <1>7 DEF Placed, after

\* One file of _map.
LEMMA MapFilePlaced ==
  ASSUME NEW overrides, NEW source, NEW votes, Weighable(source, votes),
         NEW files, source \in files, NEW run, Placed(overrides, files, run)
  PROVE  Placed(overrides, files, MapFile(run, overrides, source, votes))
<1> DEFINE ranked == RankingEarned!Over(source, votes, <<>>, source.headers)
           settled == ResolveWithinFile(ranked)
           placed == PlacingOnEvidence!Over(overrides, source, run, settled)
<1>1. MapFile(run, overrides, source, votes) = IF source.rows = <<>> THEN run ELSE placed
  BY DEF MapFile, RankingEarned!Over, RankStep, RankingEarned!Unfolding, FoldLeft,
         MapThenFoldSet, RankingEarned!Last, Max,
         PlacingOnEvidence!Over, PlaceStep, PlacingOnEvidence!Unfolding, PlacingOnEvidence!Last
<1>2. IsSeq(ranked) /\ \A i \in DOMAIN ranked : Earned(source, votes, ranked[i])
  BY RankedEarned DEF EarnedList
<1> HIDE DEF ranked
<1>3. IsSeq(settled) /\ \A i \in DOMAIN settled : Earned(source, votes, settled[i])
  BY <1>2, ResolvedEarned
<1> HIDE DEF settled
<1>4. PlacedLoop(overrides, source, run, Len(settled), placed)
  <2>1. PlacingOnEvidence!Sequence(settled)
    BY <1>3, SeqReached DEF PlacingOnEvidence!Sequence, PlacingOnEvidence!Reached
  <2>2. \A n \in 1..Len(settled) : Earned(source, votes, settled[n])
    BY <1>3, SeqIs
  <2>3. \A n \in 1..Len(settled) : \A done :
          PlacedLoop(overrides, source, run, n - 1, done) =>
            PlacedLoop(overrides, source, run, n, PlaceStep(overrides, source, done, settled[n]))
    BY <2>2, PlaceSupported DEF PlacedLoop
  <2>4. PlacedLoop(overrides, source, run, 0, run)
    BY DEF PlacedLoop
  <2>5. QED
    BY <2>1, <2>3, <2>4, PlacingOnEvidence!FoldKeeps
<1>5. QED
  BY <1>1, <1>4 DEF PlacedLoop

(********************* what the records wait for ***************************)

\* The questions that count a record.
Waits(cases, id) == {n \in DOMAIN cases : id \in cases[n].blocks \cup cases[n].children}

RecordFields == {"id", "values", "origin", "files", "open", "issues", "state"}

\* A record has values of fields, each with where it came from.
IsRecord(r) ==
  DOMAIN r = RecordFields /\ DOMAIN r.values \subseteq FieldNames /\ DOMAIN r.origin = DOMAIN r.values

\* What a record waits for is what counts it, up to the last stage.
Counted(cases, r) == IsRecord(r) /\ r.state = "processing" /\ r.open = Waits(cases, r.id)

\* Rows have ids of their own.
Apart(records) == \A i, j \in DOMAIN records : records[i].id = records[j].id => i = j

\* What was asked already is noted with the question that asks it.
Filed(run) ==
  /\ \A k \in DOMAIN run.fieldCase : run.fieldCase[k] \in DOMAIN run.cases
  /\ \A k \in DOMAIN run.sharedCase : run.sharedCase[k] \in DOMAIN run.cases
  /\ \A k \in DOMAIN run.valueCase : Waits(run.cases, k[1]) # {}

Sound(run) ==
  /\ Shaped(run) /\ Apart(run.records) /\ Filed(run)
  /\ \A i \in DOMAIN run.records : Counted(run.cases, run.records[i])

\* The records are of the same rows, with the same issues.
SameRows(base, run) ==
  /\ DOMAIN run.records = DOMAIN base.records
  /\ \A i \in DOMAIN run.records : /\ run.records[i].id = base.records[i].id
                                   /\ run.records[i].issues = base.records[i].issues

\* Questions go on counting what they count.
Grown(base, run) ==
  /\ DOMAIN base.cases \subseteq DOMAIN run.cases
  /\ \A id : Waits(base.cases, id) \subseteq Waits(run.cases, id)

\* A sound run that comes of another by asking and filling in.
Goes(base, run) ==
  Sound(run) /\ SameRows(base, run) /\ Grown(base, run) /\ run.mergedInto = base.mergedInto

\* A run goes to itself,
LEMMA GoesItself ==
  ASSUME NEW run, Sound(run)
  PROVE  Goes(run, run)
BY DEF Goes, SameRows, Grown

\* and step by step.
LEMMA GoesOn ==
  ASSUME NEW base, NEW run, Goes(base, run), NEW after, Goes(run, after)
  PROVE  Goes(base, after)
<1>1. SameRows(base, after)
  BY DEF Goes, SameRows
<1>2. Grown(base, after)
  BY DEF Goes, Grown
<1>3. QED
  BY <1>1, <1>2 DEF Goes

\* What else than records and questions a run notes.
NotesKept(run, after) ==
  /\ after.fieldCase = run.fieldCase /\ after.sharedCase = run.sharedCase
  /\ after.valueCase = run.valueCase /\ after.mergedInto = run.mergedInto

\* The questions of a run are replaced, or its records.
LEMMA CasesSet ==
  ASSUME NEW run, DOMAIN run = RunFields, NEW cases
  PROVE  LET after == [run EXCEPT !.cases = cases]
         IN  /\ DOMAIN after = RunFields /\ after.cases = cases /\ after.records = run.records
             /\ NotesKept(run, after)
BY DEF RunFields, NotesKept

\* Records are replaced, and nothing else.
LEMMA RecordsSet ==
  ASSUME NEW run, DOMAIN run = RunFields, NEW records
  PROVE  LET after == [run EXCEPT !.records = records]
         IN  /\ DOMAIN after = RunFields /\ after.cases = run.cases /\ after.records = records
             /\ NotesKept(run, after)
BY DEF RunFields, NotesKept

\* A question more counts what it blocks.
LEMMA WaitsAppend ==
  ASSUME NEW cases, Asked(cases), NEW case, DOMAIN case = DOMAIN NoCase, case.children = {}
  PROVE  LET after == Append(cases, case)
         IN  /\ Len(cases) + 1 \in DOMAIN after /\ DOMAIN cases \subseteq DOMAIN after
             /\ \A id : Waits(after, id) = IF id \in case.blocks THEN Waits(cases, id) \cup {Len(cases) + 1}
                                                                 ELSE Waits(cases, id)
<1> DEFINE after == Append(cases, case)
           N == Len(cases)
<1>1. IsSeq(cases) /\ N \in Nat /\ DOMAIN cases = 1..N
  BY SeqIs DEF Asked
<1>2. IsSeq(after) /\ Len(after) = N + 1 /\ \A i \in 1..(N + 1) : after[i] = IF i <= N THEN cases[i] ELSE case
  BY <1>1, SeqAppend
<1>3. DOMAIN after = 1..(N + 1)
  BY <1>2, SeqIs
<1> HIDE DEF after, N
<1>4. DOMAIN after = DOMAIN cases \cup {N + 1} /\ N + 1 \notin DOMAIN cases
  BY <1>1, <1>3
<1>5. (\A n \in DOMAIN cases : after[n] = cases[n]) /\ after[N + 1] = case
  BY <1>1, <1>2
<1>6. ASSUME NEW id
      PROVE  Waits(after, id) = IF id \in case.blocks THEN Waits(cases, id) \cup {N + 1} ELSE Waits(cases, id)
  BY <1>4, <1>5 DEF Waits
<1>7. QED
  BY <1>4, <1>6 DEF after, N

\* A question that blocks one record more.
LEMMA WaitsBlocks ==
  ASSUME NEW cases, NEW n \in DOMAIN cases, NEW id, NEW after, DOMAIN after = DOMAIN cases,
         after[n].blocks = cases[n].blocks \cup {id}, after[n].children = cases[n].children,
         \A m \in DOMAIN cases : m # n => after[m] = cases[m]
  PROVE  \A x : Waits(after, x) = IF x = id THEN Waits(cases, x) \cup {n} ELSE Waits(cases, x)
BY DEF Waits

\* Questions that count the same.
LEMMA WaitsSame ==
  ASSUME NEW cases, NEW after, DOMAIN after = DOMAIN cases,
         \A n \in DOMAIN cases : after[n].blocks = cases[n].blocks /\ after[n].children = cases[n].children
  PROVE  \A id : Waits(after, id) = Waits(cases, id)
BY DEF Waits

\* Records and questions may change together.
LEMMA GoesBy ==
  ASSUME NEW run, Sound(run), NEW after, Shaped(after), Grown(run, after), SameRows(run, after),
         NotesKept(run, after), \A i \in DOMAIN after.records : Counted(after.cases, after.records[i])
  PROVE  Goes(run, after)
<1>1. Apart(after.records)
  BY DEF Sound, Apart, SameRows
<1>2. Filed(after)
  BY DEF Sound, Filed, Grown, NotesKept
<1>3. QED
  BY <1>1, <1>2 DEF Goes, Sound, NotesKept

\* _case, of a question that holds nobody yet.
LEMMA RaiseGoes ==
  ASSUME NEW run, Sound(run), NEW case, DOMAIN case = DOMAIN NoCase, case.blocks = {}, case.children = {}
  PROVE  LET after == Raise(run, case)
         IN  /\ Goes(run, after) /\ after.records = run.records /\ NotesKept(run, after)
             /\ Len(run.cases) + 1 \in DOMAIN after.cases
             /\ \A id : Waits(after.cases, id) = Waits(run.cases, id)
<1> DEFINE cases == Append(run.cases, case)
           after == Raise(run, case)
<1>1. DOMAIN run = RunFields /\ Asked(run.cases) /\ Shaped(run)
  BY FieldsOfRun DEF Sound, Shaped
<1>2. /\ Len(run.cases) + 1 \in DOMAIN cases /\ DOMAIN run.cases \subseteq DOMAIN cases
      /\ \A id : Waits(cases, id) = Waits(run.cases, id)
  BY <1>1, WaitsAppend
<1>3. Shaped(after)
  BY <1>1, ShapedRaise
<1>4. after = [run EXCEPT !.cases = cases]
  BY DEF Raise
<1> HIDE DEF cases, after
<1>5. after.cases = cases /\ after.records = run.records /\ NotesKept(run, after)
  BY <1>1, <1>4, CasesSet
<1>6. SameRows(run, after) /\ Grown(run, after)
  BY <1>2, <1>5 DEF SameRows, Grown
<1>7. \A i \in DOMAIN after.records : Counted(after.cases, after.records[i])
  BY <1>2, <1>5 DEF Sound, Counted
<1>8. Goes(run, after)
  BY <1>3, <1>5, <1>6, <1>7, GoesBy
<1>9. QED
  BY <1>2, <1>5, <1>8 DEF after

\* A record waits for one question more.
LEMMA HeldCounted ==
  ASSUME NEW cases, NEW after, NEW n, NEW r, Counted(cases, r),
         Waits(after, r.id) = Waits(cases, r.id) \cup {n}
  PROVE  LET held == [r EXCEPT !.open = @ \cup {n}]
         IN  Counted(after, held) /\ held.id = r.id /\ held.issues = r.issues
<1> DEFINE held == [r EXCEPT !.open = @ \cup {n}]
<1>1. DOMAIN r = RecordFields
  BY DEF Counted, IsRecord
<1>2. /\ DOMAIN held = RecordFields /\ held.id = r.id /\ held.values = r.values /\ held.origin = r.origin
      /\ held.issues = r.issues /\ held.state = r.state /\ held.open = r.open \cup {n}
  BY <1>1 DEF RecordFields
<1> HIDE DEF held
<1>3. Counted(after, held)
  BY <1>2 DEF Counted, IsRecord
<1>4. QED
  BY <1>2, <1>3 DEF held

\* Records wait on a question that counts them.
LEMMA HoldGoes ==
  ASSUME NEW run, Sound(run), NEW cases, Asked(cases), NEW n, NEW ids,
         DOMAIN run.cases \subseteq DOMAIN cases,
         \A id : Waits(cases, id) = IF id \in ids THEN Waits(run.cases, id) \cup {n} ELSE Waits(run.cases, id)
  PROVE  Goes(run, [Hold(run, ids, n) EXCEPT !.cases = cases])
<1> DEFINE held(r) == [r EXCEPT !.open = @ \cup {n}]
           records == [i \in DOMAIN run.records |-> IF run.records[i].id \in ids THEN held(run.records[i])
                                                                                 ELSE run.records[i]]
           there == [run EXCEPT !.records = records]
           after == [there EXCEPT !.cases = cases]
<1>1. DOMAIN run = RunFields /\ Shaped(run)
  BY FieldsOfRun DEF Sound, Shaped
<1>2. Hold(run, ids, n) = there
  BY DEF Hold
<1>3. ASSUME NEW i \in DOMAIN run.records
      PROVE  /\ Counted(cases, records[i]) /\ records[i].id = run.records[i].id
             /\ records[i].issues = run.records[i].issues
  <2>1. Counted(run.cases, run.records[i])
    BY DEF Sound
  <2>2. CASE run.records[i].id \in ids
    <3>1. records[i] = held(run.records[i])
      BY <2>2
    <3>2. Waits(cases, run.records[i].id) = Waits(run.cases, run.records[i].id) \cup {n}
      BY <2>2
    <3> DEFINE r == run.records[i]
    <3>3. Counted(run.cases, r) /\ Waits(cases, r.id) = Waits(run.cases, r.id) \cup {n} /\ records[i] = held(r)
      BY <2>1, <3>1, <3>2
    <3> HIDE DEF r, records
    <3>4. Counted(cases, held(r)) /\ held(r).id = r.id /\ held(r).issues = r.issues
      BY <3>3, HeldCounted
    <3> HIDE DEF held
    <3>5. QED
      BY <3>3, <3>4 DEF r
  <2>3. CASE run.records[i].id \notin ids
    <3>1. records[i] = run.records[i]
      BY <2>3
    <3>2. Waits(cases, run.records[i].id) = Waits(run.cases, run.records[i].id)
      BY <2>3
    <3> HIDE DEF records
    <3>3. QED
      BY <2>1, <3>1, <3>2 DEF Counted
  <2>4. QED
    BY <2>2, <2>3
<1>4. DOMAIN records = DOMAIN run.records /\ records = [i \in DOMAIN run.records |-> records[i]]
  OBVIOUS
<1> HIDE DEF records
<1>5. DOMAIN there = RunFields /\ there.records = records /\ Shaped(there) /\ NotesKept(run, there)
  BY <1>1, <1>4, RecordsSet, ShapedRecords
<1> HIDE DEF there
<1>6. DOMAIN after = RunFields /\ after.records = records /\ after.cases = cases /\ NotesKept(there, after)
  BY <1>5, CasesSet
<1>7. Shaped(after)
  <2>1. after.applied = there.applied
    BY <1>5 DEF RunFields
  <2> HIDE DEF after
  <2>2. QED
    BY <1>5, <1>6, <2>1, FieldsOfRun DEF Shaped
<1> HIDE DEF after
<1>8. NotesKept(run, after)
  BY <1>5, <1>6 DEF NotesKept
<1>9. SameRows(run, after)
  BY <1>3, <1>4, <1>6 DEF SameRows
<1>10. Grown(run, after)
  BY <1>6 DEF Grown
<1>11. \A i \in DOMAIN after.records : Counted(after.cases, after.records[i])
  BY <1>3, <1>4, <1>6
<1>12. Goes(run, after)
  BY <1>7, <1>8, <1>9, <1>10, <1>11, GoesBy
<1>13. QED
  BY <1>2, <1>12 DEF after

\* A question is asked about records that wait for it.
LEMMA AgainstGoes ==
  ASSUME NEW run, Sound(run), NEW case, DOMAIN case = DOMAIN NoCase, case.children = {}
  PROVE  /\ Goes(run, RaiseAgainst(run, case))
         /\ \A id \in case.blocks : Waits(RaiseAgainst(run, case).cases, id) # {}
<1> DEFINE cases == Append(run.cases, case)
           n == Len(run.cases) + 1
           after == [Hold(run, case.blocks, n) EXCEPT !.cases = cases]
           held(r) == [r EXCEPT !.open = @ \cup {n}]
           records == [i \in DOMAIN run.records |->
                         IF run.records[i].id \in case.blocks THEN held(run.records[i]) ELSE run.records[i]]
<1>1. DOMAIN run = RunFields /\ Asked(run.cases)
  BY FieldsOfRun DEF Sound, Shaped
<1>2. /\ n \in DOMAIN cases /\ DOMAIN run.cases \subseteq DOMAIN cases
      /\ \A id : Waits(cases, id) = IF id \in case.blocks THEN Waits(run.cases, id) \cup {n}
                                                          ELSE Waits(run.cases, id)
  BY <1>1, WaitsAppend
<1>3. Asked(cases)
  BY <1>1, AskedAppend
<1>4. RaiseAgainst(run, case) = after
  <2>1. RaiseAgainst(run, case) = [[run EXCEPT !.cases = cases] EXCEPT !.records = records]
    <3>1. "records" \in DOMAIN run /\ [run EXCEPT !.cases = cases].records = run.records
      BY <1>1 DEF RunFields
    <3>2. RaiseAgainst(run, case) = Hold([run EXCEPT !.cases = cases], case.blocks, n)
      BY DEF RaiseAgainst, Raise
    <3> HIDE DEF cases, n
    <3>3. QED
      BY <3>1, <3>2 DEF Hold
  <2>2. after = [[run EXCEPT !.records = records] EXCEPT !.cases = cases]
    BY DEF Hold
  <2> HIDE DEF after, cases, records
  <2>3. QED
    BY <1>1, <2>1, <2>2 DEF RunFields
<1> HIDE DEF cases, n, held, records
<1>5. Goes(run, after)
  BY <1>2, <1>3, HoldGoes
<1>6. after.cases = cases
  <2>1. "cases" \in DOMAIN Hold(run, case.blocks, n)
    BY <1>1 DEF Hold, RunFields
  <2>2. QED
    BY <2>1
<1>7. QED
  BY <1>2, <1>4, <1>5, <1>6

(********************* while the columns are mapped ************************)

\* A run that asks, and holds nobody.
Still(base, run) ==
  Goes(base, run) /\ run.records = base.records /\ \A id : Waits(run.cases, id) = Waits(base.cases, id)

\* There is nobody yet to wait, and nothing to merge.
Unbuilt(run) ==
  Sound(run) /\ run.records = <<>> /\ DOMAIN run.mergedInto = {} /\ \A id : Waits(run.cases, id) = {}

\* A run holds nobody else than itself.
LEMMA StillItself ==
  ASSUME NEW run, Sound(run)
  PROVE  Still(run, run)
BY GoesItself DEF Still

\* What holds nobody step by step holds nobody,
LEMMA StillOn ==
  ASSUME NEW base, NEW run, Still(base, run), NEW after, Still(run, after)
  PROVE  Still(base, after)
BY GoesOn DEF Still

\* leaves the run sound,
LEMMA StillSound ==
  ASSUME NEW base, NEW run, Still(base, run)
  PROVE  Sound(run)
BY DEF Still, Goes

\* and nobody there to wait.
LEMMA StillUnbuilt ==
  ASSUME NEW base, Unbuilt(base), NEW run, Still(base, run)
  PROVE  Unbuilt(run)
BY DEF Still, Unbuilt, Goes

\* What else is noted holds nobody.
LEMMA NoteStill ==
  ASSUME NEW run, Sound(run),
         NEW f \in RunFields \ {"cases", "records", "fieldCase", "sharedCase", "valueCase", "mergedInto"}, NEW v,
         Shaped([run EXCEPT ![f] = v])
  PROVE  Still(run, [run EXCEPT ![f] = v])
<1> DEFINE after == [run EXCEPT ![f] = v]
<1>1. DOMAIN run = RunFields
  BY FieldsOfRun DEF Sound, Shaped
<1>2. after.cases = run.cases /\ after.records = run.records /\ NotesKept(run, after)
  BY <1>1 DEF RunFields, NotesKept
<1>3. Shaped(after)
  OBVIOUS
<1> HIDE DEF after
<1>4. SameRows(run, after) /\ Grown(run, after)
  BY <1>2 DEF SameRows, Grown
<1>5. \A i \in DOMAIN after.records : Counted(after.cases, after.records[i])
  BY <1>2 DEF Sound
<1>6. Goes(run, after)
  BY <1>2, <1>3, <1>4, <1>5, GoesBy
<1>7. QED
  BY <1>2, <1>6 DEF Still, after

\* Fields defer to questions that there are.
LEMMA DeferStill ==
  ASSUME NEW run, Sound(run), NEW fields, \A k \in DOMAIN fields : fields[k] \in DOMAIN run.cases
  PROVE  Still(run, [run EXCEPT !.fieldCase = fields])
<1> DEFINE after == [run EXCEPT !["fieldCase"] = fields]
<1>1. DOMAIN run = RunFields
  BY FieldsOfRun DEF Sound, Shaped
<1>2. /\ after.cases = run.cases /\ after.records = run.records /\ after.fieldCase = fields
      /\ after.sharedCase = run.sharedCase /\ after.valueCase = run.valueCase
      /\ after.mergedInto = run.mergedInto
  BY <1>1 DEF RunFields
<1>3. Shaped(after)
  BY ShapedNote DEF Sound, RunFields
<1> HIDE DEF after
<1>4. Filed(after)
  BY <1>2 DEF Sound, Filed
<1>5. Sound(after)
  BY <1>2, <1>3, <1>4 DEF Sound
<1>6. Still(run, after)
  BY <1>2, <1>5 DEF Still, Goes, SameRows, Grown
<1>7. QED
  BY <1>6 DEF after

\* A question that fields defer to.
LEMMA AskStill ==
  ASSUME NEW run, Sound(run), NEW case, DOMAIN case = DOMAIN NoCase, case.blocks = {}, case.children = {},
         NEW fields,
         \A k \in DOMAIN fields : \/ k \in DOMAIN run.fieldCase /\ fields[k] = run.fieldCase[k]
                                  \/ fields[k] = Len(run.cases) + 1
  PROVE  Still(run, [Raise(run, case) EXCEPT !.fieldCase = fields])
<1> DEFINE raised == Raise(run, case)
<1>1. /\ Goes(run, raised) /\ raised.records = run.records /\ Len(run.cases) + 1 \in DOMAIN raised.cases
      /\ \A id : Waits(raised.cases, id) = Waits(run.cases, id)
  BY RaiseGoes
<1> HIDE DEF raised
<1>2. Sound(raised) /\ Still(run, raised)
  BY <1>1 DEF Still, Goes
<1>3. \A k \in DOMAIN fields : fields[k] \in DOMAIN raised.cases
  <2>1. \A k \in DOMAIN run.fieldCase : run.fieldCase[k] \in DOMAIN raised.cases
    BY <1>1 DEF Sound, Filed, Goes, Grown
  <2>2. QED
    BY <1>1, <2>1
<1>4. Still(raised, [raised EXCEPT !.fieldCase = fields])
  BY <1>2, <1>3, DeferStill
<1>5. QED
  BY <1>2, <1>4, StillOn DEF raised

\* _ambiguous_mapping.
LEMMA ColumnStill ==
  ASSUME NEW run, Sound(run), NEW mapping
  PROVE  Still(run, AskAboutColumn(run, mapping))
<1> DEFINE first == FirstShown(Ranked(mapping.candidates))
           shown == {first[i].field : i \in DOMAIN first}
           case  == [NoCase EXCEPT !.klass = "AMBIGUOUS_MAPPING", !.file = mapping.file,
                              !.column = mapping.column,
                              !.options = {<<"field", f>> : f \in shown}]
           asked == {<<mapping.file, f>> : f \in shown}
           fields == SetDefault(run.fieldCase, asked, Len(run.cases) + 1)
<1>1. AskAboutColumn(run, mapping) = [Raise(run, case) EXCEPT !.fieldCase = fields]
  <2>1. Raise(run, case).fieldCase = run.fieldCase
    <3> HIDE DEF case
    <3>1. DOMAIN run = RunFields
      BY FieldsOfRun DEF Sound, Shaped
    <3>2. QED
      BY <3>1 DEF Raise, RunFields
  <2>2. AskAboutColumn(run, mapping) =
          [Raise(run, case) EXCEPT !.fieldCase = SetDefault(Raise(run, case).fieldCase, asked, Len(run.cases) + 1)]
    BY DEF AskAboutColumn
  <2> HIDE DEF case, asked
  <2>3. QED
    BY <2>1, <2>2
<1>2. DOMAIN case = DOMAIN NoCase /\ case.blocks = {} /\ case.children = {}
  BY DEF NoCase
<1>3. \A k \in DOMAIN fields : \/ k \in DOMAIN run.fieldCase /\ fields[k] = run.fieldCase[k]
                               \/ fields[k] = Len(run.cases) + 1
  <2> HIDE DEF asked
  <2>1. QED
    BY DEF SetDefault
<1> HIDE DEF case, fields
<1>4. QED
  BY <1>1, <1>2, <1>3, AskStill

\* One column of _map.
LEMMA PlaceStill ==
  ASSUME NEW run, Sound(run), NEW overrides, NEW profile, NEW mapping
  PROVE  Still(run, PlaceColumn(run, overrides, profile, mapping))
<1> DEFINE at     == <<mapping.file, mapping.column>>
           forced == Get(overrides.columnMap, at)
           placed == IF forced \in FieldNames
                       THEN [mapping EXCEPT !.decision = "auto_apply", !.field = forced] ELSE mapping
           noted  == [run EXCEPT !["mappings"] = Append(run.mappings, placed)]
           plan   == PlanColumn(Range(profile.values), placed.field)
           chosen == Get(overrides.formats, at)
           plans  == Put(noted.plans, at, IF chosen # None /\ plan.between # {}
                                                  THEN [NoPlan EXCEPT !.format = chosen] ELSE plan)
           applied == Put(noted.applied, at, placed.field)
           there  == [noted EXCEPT !["applied"] = applied]
<1>1. PlaceColumn(run, overrides, profile, mapping) =
        CASE placed.decision = "auto_apply" -> [there EXCEPT !["plans"] = plans]
          [] placed.decision = "review" -> AskAboutColumn(noted, placed)
          [] OTHER -> noted
  BY DEF PlaceColumn
<1> HIDE DEF plans
<1>2. Shaped(noted)
  BY ShapedNote DEF RunFields, Sound
<1>3. Still(run, noted)
  BY <1>2, NoteStill DEF RunFields
<1> HIDE DEF noted
<1>4. Sound(noted)
  BY <1>3 DEF Still, Goes
<1>5. Shaped(there)
  BY <1>2, ShapedApplied
<1> HIDE DEF applied
<1>6. Still(noted, there)
  BY <1>4, <1>5, NoteStill DEF RunFields
<1> HIDE DEF there
<1>7. Sound(there)
  BY <1>6 DEF Still, Goes
<1>8. Shaped([there EXCEPT !["plans"] = plans])
  BY <1>5, ShapedNote DEF RunFields
<1>9. Still(there, [there EXCEPT !["plans"] = plans])
  BY <1>7, <1>8, NoteStill DEF RunFields
<1>10. Still(noted, AskAboutColumn(noted, placed))
  BY <1>4, ColumnStill
<1>11. QED
  BY <1>1, <1>3, <1>6, <1>9, <1>10, StillOn

\* The same of a loop.
StillLoop(p, q, base, n, run) == Still(base, run)
PlacingStill == INSTANCE FoldInduction WITH Step <- PlaceStep, Inv <- StillLoop

\* One file of _map.
LEMMA MapFileStill ==
  ASSUME NEW run, Sound(run), NEW overrides, NEW source, IsSeq(source.headers), NEW votes
  PROVE  Still(run, MapFile(run, overrides, source, votes))
<1> DEFINE ranked == Ranking!Over(source, votes, <<>>, source.headers)
           settled == ResolveWithinFile(ranked)
           placed == PlacingStill!Over(overrides, source, run, settled)
<1>1. MapFile(run, overrides, source, votes) = IF source.rows = <<>> THEN run ELSE placed
  BY DEF MapFile, Ranking!Over, RankStep, Ranking!Unfolding, FoldLeft,
         MapThenFoldSet, Ranking!Last, Max,
         PlacingStill!Over, PlaceStep, PlacingStill!Unfolding, PlacingStill!Last
<1>2. IsSeq(ranked)
  <2>1. Ranking!Sequence(source.headers)
    BY SeqReached DEF Ranking!Sequence, Ranking!Reached
  <2>2. \A done, header : IsSeq(done) => IsSeq(RankStep(source, votes, done, header))
    BY SeqAppend DEF RankStep
  <2>3. Listed(source, votes, <<>>, Len(source.headers), ranked)
    BY <2>1, <2>2, SeqEmpty, Ranking!FoldKeeps DEF Listed
  <2>4. QED
    BY <2>3 DEF Listed
<1> HIDE DEF ranked
<1>3. IsSeq(settled)
  BY <1>2, ResolveIsSeq
<1> HIDE DEF settled
<1>4. Still(run, placed)
  <2>1. PlacingStill!Sequence(settled)
    BY <1>3, SeqReached DEF PlacingStill!Sequence, PlacingStill!Reached
  <2>2. \A done, mapping : Still(run, done) => Still(run, PlaceStep(overrides, source, done, mapping))
    <3> SUFFICES ASSUME NEW done, Still(run, done), NEW mapping
                 PROVE  Still(run, PlaceStep(overrides, source, done, mapping))
      OBVIOUS
    <3>1. Sound(done)
      BY StillSound
    <3>2. Still(done, PlaceStep(overrides, source, done, mapping))
      BY <3>1, PlaceStill DEF PlaceStep
    <3>3. QED
      BY <3>2, StillOn
  <2>3. StillLoop(overrides, source, run, Len(settled), placed)
    BY <2>1, <2>2, StillItself, PlacingStill!FoldKeeps DEF StillLoop
  <2>4. QED
    BY <2>3 DEF StillLoop
<1>5. QED
  BY <1>1, <1>4, StillItself

\* _unrecognised_file.
LEMMA FileStill ==
  ASSUME NEW run, Sound(run), NEW file
  PROVE  Still(run, AskAboutFile(run, file))
<1> DEFINE case == [NoCase EXCEPT !.klass = "UNMAPPED_REQUIRED", !.file = file,
                             !.about = <<"unlike", file>>, !.wholeFile = file,
                             !.options = {<<"exclude", "file">>}, !.recommended = <<"exclude", "file">>]
           asked == {<<file, f>> : f \in Range(RequiredFields)}
           fields == SetDefault(run.fieldCase, asked, Len(run.cases) + 1)
<1>1. AskAboutFile(run, file) = [Raise(run, case) EXCEPT !.fieldCase = fields]
  <2>1. Raise(run, case).fieldCase = run.fieldCase
    <3> HIDE DEF case
    <3>1. DOMAIN run = RunFields
      BY FieldsOfRun DEF Sound, Shaped
    <3>2. QED
      BY <3>1 DEF Raise, RunFields
  <2>2. AskAboutFile(run, file) =
          [Raise(run, case) EXCEPT !.fieldCase = SetDefault(Raise(run, case).fieldCase, asked, Len(run.cases) + 1)]
    BY DEF AskAboutFile
  <2> HIDE DEF case, asked
  <2>3. QED
    BY <2>1, <2>2
<1>2. DOMAIN case = DOMAIN NoCase /\ case.blocks = {} /\ case.children = {}
  BY DEF NoCase
<1>3. \A k \in DOMAIN fields : \/ k \in DOMAIN run.fieldCase /\ fields[k] = run.fieldCase[k]
                               \/ fields[k] = Len(run.cases) + 1
  <2> HIDE DEF asked
  <2>1. QED
    BY DEF SetDefault
<1> HIDE DEF case, fields
<1>4. QED
  BY <1>1, <1>2, <1>3, AskStill

\* _raise_unmapped.
LEMMA FieldStill ==
  ASSUME NEW run, Sound(run), NEW field, NEW origin
  PROVE  Still(run, AskAboutField(run, field, origin))
<1> DEFINE best(i)   == Ranked(run.mappings[i].candidates)
           close     == {i \in DOMAIN run.mappings : /\ best(i) # <<>> /\ best(i)[1].field = field
                                                     /\ origin \in {None, run.mappings[i].file}}
           score(i)  == best(i)[1].score
           near      == FirstShown(InOrder(close, LAMBDA i, j : \/ score(i) > score(j)
                                                                \/ score(i) = score(j) /\ i < j))
           nearest   == IF near = <<>> THEN NoCase ELSE run.mappings[near[1]]
           options   == {<<"column", run.mappings[i].column>> : i \in Range(near)}
                          \cup {<<"constant", v>> : v \in Range(FieldSpec[field].allowed)}
           case      == [NoCase EXCEPT !.klass = "UNMAPPED_REQUIRED", !.field = field,
                           !.file = nearest.file, !.column = nearest.column,
                           !.about = <<"no column", origin, field>>, !.scope = origin,
                           !.options = options]
           fields    == Put(run.fieldCase, <<origin, field>>, Len(run.cases) + 1)
<1>1. AskAboutField(run, field, origin) =
        [Raise(run, case) EXCEPT !.fieldCase = Put(Raise(run, case).fieldCase, <<origin, field>>, Len(run.cases) + 1)]
  BY DEF AskAboutField
<1> HIDE DEF near, options
<1>2. DOMAIN case = DOMAIN NoCase /\ case.blocks = {} /\ case.children = {}
  BY DEF NoCase
<1> HIDE DEF case
<1>3. Raise(run, case).fieldCase = run.fieldCase
  <2>1. DOMAIN run = RunFields
    BY FieldsOfRun DEF Sound, Shaped
  <2>2. QED
    BY <2>1 DEF Raise, RunFields
<1>4. AskAboutField(run, field, origin) = [Raise(run, case) EXCEPT !.fieldCase = fields]
  BY <1>1, <1>3
<1>5. \A k \in DOMAIN fields : \/ k \in DOMAIN run.fieldCase /\ fields[k] = run.fieldCase[k]
                               \/ fields[k] = Len(run.cases) + 1
  BY DEF Put
<1> HIDE DEF fields
<1>6. QED
  BY <1>2, <1>4, <1>5, AskStill

AskingFilesStill == INSTANCE FoldInduction WITH Step <- AskFileStep, Inv <- StillLoop
AskingOriginsStill == INSTANCE FoldInduction WITH Step <- AskOriginStep, Inv <- StillLoop
AskingFieldsStill == INSTANCE FoldInduction WITH Step <- AskFieldStep, Inv <- StillLoop

\* What is asked about one required field.
LEMMA AskFieldStill ==
  ASSUME NEW run, NEW files, IsSeq(files), NEW done, Sound(done), NEW field
  PROVE  Still(done, AskFieldStep(run, files, done, field))
<1> DEFINE origins == Lacking(run, files, done, field)
           asked == AskingOriginsStill!Over(field, None, done, origins)
<1>1. AskFieldStep(run, files, done, field) = asked
  BY DEF AskFieldStep, AskingOriginsStill!Over, AskOriginStep, AskingOriginsStill!Unfolding, FoldLeft,
         MapThenFoldSet, AskingOriginsStill!Last, Max
<1>2. IsSeq(origins)
  BY OneIsSeq, ThoseIs DEF Lacking
<1> HIDE DEF origins
<1>3. AskingOriginsStill!Sequence(origins)
  BY <1>2, SeqReached DEF AskingOriginsStill!Sequence, AskingOriginsStill!Reached
<1>4. ASSUME NEW d, Still(done, d), NEW origin PROVE Still(done, AskOriginStep(field, None, d, origin))
  <2>1. Sound(d)
    BY <1>4, StillSound
  <2>2. Still(d, AskOriginStep(field, None, d, origin))
    BY <2>1, FieldStill DEF AskOriginStep
  <2>3. QED
    BY <1>4, <2>2, StillOn
<1>5. StillLoop(field, None, done, Len(origins), asked)
  BY <1>3, <1>4, StillItself, AskingOriginsStill!FoldKeeps DEF StillLoop
<1>6. QED
  BY <1>1, <1>5 DEF StillLoop

\* _unmapped_required.
LEMMA UnmappedStill ==
  ASSUME NEW run, Sound(run), NEW files, IsSeq(files)
  PROVE  Still(run, UnmappedRequired(run, files))
<1> DEFINE unlike == Those(files, {f \in Range(files) : Unusable(run, f)})
           told == AskingFilesStill!Over(None, None, run, unlike)
           asked == AskingFieldsStill!Over(run, files, told, RequiredFields)
<1>1. UnmappedRequired(run, files) = asked
  BY DEF UnmappedRequired, AskFieldStep, Lacking, AskFileStep, AskingFieldsStill!Over,
         AskingFilesStill!Over, AskingFieldsStill!Unfolding, AskingFilesStill!Unfolding, FoldLeft,
         MapThenFoldSet, AskingFieldsStill!Last, AskingFilesStill!Last, Max
<1>2. Still(run, told)
  <2>1. IsSeq(unlike)
    BY ThoseIs
  <2> HIDE DEF unlike
  <2>2. AskingFilesStill!Sequence(unlike)
    BY <2>1, SeqReached DEF AskingFilesStill!Sequence, AskingFilesStill!Reached
  <2>3. ASSUME NEW d, Still(run, d), NEW file PROVE Still(run, AskFileStep(None, None, d, file))
    <3>1. Sound(d)
      BY <2>3, StillSound
    <3>2. Still(d, AskFileStep(None, None, d, file))
      BY <3>1, FileStill DEF AskFileStep
    <3>3. QED
      BY <2>3, <3>2, StillOn
  <2>4. StillLoop(None, None, run, Len(unlike), told)
    BY <2>2, <2>3, StillItself, AskingFilesStill!FoldKeeps DEF StillLoop
  <2>5. QED
    BY <2>4 DEF StillLoop
<1> HIDE DEF told
<1>3. Still(told, asked)
  <2>1. AskingFieldsStill!Sequence(RequiredFields)
    BY FieldsAreSeq, SeqReached DEF AskingFieldsStill!Sequence, AskingFieldsStill!Reached
  <2>2. ASSUME NEW d, Still(told, d), NEW field PROVE Still(told, AskFieldStep(run, files, d, field))
    <3>1. Sound(d)
      BY <2>2, StillSound
    <3>2. Still(d, AskFieldStep(run, files, d, field))
      BY <3>1, AskFieldStill
    <3>3. QED
      BY <2>2, <3>2, StillOn
  <2>3. Sound(told)
    BY <1>2 DEF Still, Goes
  <2>4. StillLoop(run, files, told, Len(RequiredFields), asked)
    BY <2>1, <2>2, <2>3, StillItself, AskingFieldsStill!FoldKeeps DEF StillLoop
  <2>5. QED
    BY <2>4 DEF StillLoop
<1>4. QED
  BY <1>1, <1>2, <1>3, StillOn

(*********************** what is left of a list ****************************)

\* Elements that are there once are there once in what is left, and it is all
\* that was asked for.
OnceLeft(S, s, base, n, kept) ==
  /\ IsSeq(kept)
  /\ \A i, j \in DOMAIN kept : kept[i] = kept[j] => i = j
  /\ \A x : (\E i \in DOMAIN kept : kept[i] = x) <=> x \in S /\ \E i \in 1..n : s[i] = x
FilterOnce == INSTANCE FoldInduction WITH Step <- ThoseStep, Inv <- OnceLeft

\* What is filtered out of a list without repetitions has none.
LEMMA ThoseOnce ==
  ASSUME NEW s, IsSeq(s), NEW S, \A i, j \in DOMAIN s : s[i] = s[j] => i = j
  PROVE  LET kept == Those(s, S)
         IN  /\ IsSeq(kept)
             /\ \A i, j \in DOMAIN kept : kept[i] = kept[j] => i = j
             /\ \A x : (\E i \in DOMAIN kept : kept[i] = x) <=> x \in S /\ \E i \in DOMAIN s : s[i] = x
<1>1. Those(s, S) = FilterOnce!Over(S, s, <<>>, s)
  BY DEF Those, FilterOnce!Over, ThoseStep, FilterOnce!Unfolding, FoldLeft, MapThenFoldSet,
         FilterOnce!Last, Max
<1>2. FilterOnce!Sequence(s) /\ Len(s) \in Nat /\ DOMAIN s = 1..Len(s)
  BY SeqReached DEF FilterOnce!Sequence, FilterOnce!Reached
<1>3. OnceLeft(S, s, <<>>, 0, <<>>)
  <2>1. DOMAIN <<>> = {}
    OBVIOUS
  <2>2. QED
    BY <2>1, SeqEmpty DEF OnceLeft
<1>4. ASSUME NEW n \in 1..Len(s), NEW kept, OnceLeft(S, s, <<>>, n - 1, kept)
      PROVE  OnceLeft(S, s, <<>>, n, ThoseStep(S, s, kept, s[n]))
  <2>0. /\ IsSeq(kept)
        /\ \A i, j \in DOMAIN kept : kept[i] = kept[j] => i = j
        /\ \A x : (\E i \in DOMAIN kept : kept[i] = x) <=> x \in S /\ \E i \in 1..(n - 1) : s[i] = x
    BY <1>4 DEF OnceLeft
  <2>a. \A x : (\E i \in 1..n : s[i] = x) <=> x = s[n] \/ \E i \in 1..(n - 1) : s[i] = x
    <3>1. \A i : i \in 1..n <=> i = n \/ i \in 1..(n - 1)
      BY <1>2
    <3>2. QED
      BY <3>1
  <2>1. CASE s[n] \in S
    <3>1. \A i \in DOMAIN kept : kept[i] # s[n]
      <4>1. \A i \in 1..(n - 1) : i \in DOMAIN s /\ i # n
        BY <1>2
      <4>2. n \in DOMAIN s
        BY <1>2
      <4>3. QED
        BY <2>0, <4>1, <4>2
    <3>2. Len(kept) \in Nat /\ DOMAIN kept = 1..Len(kept)
      BY <2>0, SeqIs
    <3> DEFINE e == s[n]
               after == Append(kept, e)
    <3>3. IsSeq(after) /\ Len(after) = Len(kept) + 1
      BY <2>0, SeqAppend
    <3>4. DOMAIN after = 1..(Len(kept) + 1)
      BY <3>3, SeqIs
    <3>5. \A i \in 1..(Len(kept) + 1) : after[i] = IF i <= Len(kept) THEN kept[i] ELSE e
      BY <2>0, SeqAppend
    <3>6. ThoseStep(S, s, kept, s[n]) = after
      BY <2>1 DEF ThoseStep
    <3> HIDE DEF after
    <3>7. /\ \A i : i \in DOMAIN after <=> i \in DOMAIN kept \/ i = Len(kept) + 1
          /\ Len(kept) + 1 \notin DOMAIN kept
          /\ \A i \in DOMAIN kept : after[i] = kept[i]
          /\ after[Len(kept) + 1] = e
      BY <3>2, <3>4, <3>5
    <3>8. \A i, j \in DOMAIN after : after[i] = after[j] => i = j
      BY <2>0, <3>1, <3>7
    <3>9. \A x : (\E i \in DOMAIN after : after[i] = x) <=> x = e \/ \E i \in DOMAIN kept : kept[i] = x
      BY <3>7
    <3>10. \A x : (\E i \in DOMAIN after : after[i] = x) <=> x \in S /\ \E i \in 1..n : s[i] = x
      BY <2>0, <2>1, <2>a, <3>9
    <3>11. QED
      BY <3>3, <3>6, <3>8, <3>10 DEF OnceLeft
  <2>2. CASE s[n] \notin S
    <3>1. ThoseStep(S, s, kept, s[n]) = kept
      BY <2>2 DEF ThoseStep
    <3>2. QED
      BY <2>0, <2>2, <2>a, <3>1 DEF OnceLeft
  <2>3. QED
    BY <2>1, <2>2
<1>5. OnceLeft(S, s, <<>>, Len(s), FilterOnce!Over(S, s, <<>>, s))
  BY <1>2, <1>3, <1>4, FilterOnce!FoldKeeps
<1>6. QED
  BY <1>1, <1>2, <1>5 DEF OnceLeft

(************************ while the records are built **********************)

Ids(run) == {run.records[i].id : i \in DOMAIN run.records}

\* Only records wait.
Owned(run) == \A x : Waits(run.cases, x) # {} => x \in Ids(run)

\* The records change, for the better.
LEMMA RecordsGoes ==
  ASSUME NEW run, Sound(run), NEW records, records = [i \in DOMAIN run.records |-> records[i]],
         \A i \in DOMAIN run.records : /\ Counted(run.cases, records[i])
                                       /\ records[i].id = run.records[i].id
                                       /\ records[i].issues = run.records[i].issues
  PROVE  LET after == [run EXCEPT !.records = records]
         IN  Goes(run, after) /\ after.records = records /\ after.cases = run.cases
<1> DEFINE after == [run EXCEPT !.records = records]
<1>1. DOMAIN run = RunFields /\ Shaped(run)
  BY FieldsOfRun DEF Sound, Shaped
<1>2. Shaped(after)
  BY <1>1, ShapedRecords
<1>3. after.cases = run.cases /\ after.records = records /\ NotesKept(run, after)
  BY <1>1, RecordsSet
<1> HIDE DEF after
<1>4. SameRows(run, after) /\ Grown(run, after)
  BY <1>3 DEF SameRows, Grown
<1>5. \A i \in DOMAIN after.records : Counted(after.cases, after.records[i])
  BY <1>3
<1>6. Goes(run, after)
  BY <1>2, <1>3, <1>4, <1>5, GoesBy
<1>7. QED
  BY <1>3, <1>6 DEF after

\* The record being built is one of them.
LEMMA CurrentIs ==
  ASSUME NEW run, Sound(run), run.records # <<>>
  PROVE  /\ Len(run.records) \in DOMAIN run.records /\ Current(run) = run.records[Len(run.records)]
         /\ Counted(run.cases, Current(run)) /\ Current(run).id \in Ids(run)
<1>1. IsSeq(run.records)
  BY DEF Sound, Shaped
<1>2. Len(run.records) \in Nat /\ DOMAIN run.records = 1..Len(run.records)
  BY <1>1, SeqIs
<1>3. Len(run.records) # 0
  BY <1>1, EmptySeq DEF IsSeq
<1>4. QED
  BY <1>2, <1>3 DEF Sound, Current, Ids

\* The record being built is replaced.
LEMMA CurrentGoes ==
  ASSUME NEW run, Sound(run), run.records # <<>>, NEW record, Counted(run.cases, record),
         record.id = Current(run).id, record.issues = Current(run).issues
  PROVE  Goes(run, SetCurrent(run, record)) /\ SetCurrent(run, record).cases = run.cases
<1> DEFINE records == [run.records EXCEPT ![Len(run.records)] = record]
<1>1. SetCurrent(run, record) = [run EXCEPT !.records = records]
  BY DEF SetCurrent
<1>2. records = [i \in DOMAIN run.records |-> records[i]]
  OBVIOUS
<1>3. \A i \in DOMAIN run.records : /\ Counted(run.cases, records[i])
                                    /\ records[i].id = run.records[i].id
                                    /\ records[i].issues = run.records[i].issues
  <2>1. \A i \in DOMAIN run.records :
          records[i] = IF i = Len(run.records) THEN record ELSE run.records[i]
    OBVIOUS
  <2> HIDE DEF records
  <2>2. \A i \in DOMAIN run.records : Counted(run.cases, run.records[i])
    BY DEF Sound
  <2>3. QED
    BY <2>1, <2>2, CurrentIs
<1> HIDE DEF records
<1>4. QED
  BY <1>1, <1>2, <1>3, RecordsGoes

\* Who waits stays the same when records and questions do.
LEMMA OwnedStays ==
  ASSUME NEW run, Owned(run), NEW after, SameRows(run, after),
         \A x : Waits(after.cases, x) # {} => Waits(run.cases, x) # {} \/ x \in Ids(run)
  PROVE  Owned(after)
<1>1. Ids(after) = Ids(run)
  BY DEF Ids, SameRows
<1>2. QED
  BY <1>1 DEF Owned

\* A value of a field is set.
LEMMA ValueCounted ==
  ASSUME NEW cases, NEW r, Counted(cases, r), NEW field \in FieldNames, NEW value, NEW file
  PROVE  LET set == SetValue(r, field, value, file)
         IN  Counted(cases, set) /\ set.id = r.id /\ set.issues = r.issues
<1> DEFINE values == Put(r.values, field, value)
           origin == Put(r.origin, field, file)
           set == [r EXCEPT !.values = values, !.origin = origin]
<1>1. SetValue(r, field, value, file) = set
  BY DEF SetValue
<1>2. DOMAIN values = DOMAIN r.values \cup {field} /\ DOMAIN origin = DOMAIN r.origin \cup {field}
  BY DEF Put
<1> HIDE DEF values, origin
<1>3. DOMAIN r = RecordFields /\ DOMAIN r.values \subseteq FieldNames /\ DOMAIN r.origin = DOMAIN r.values
  BY DEF Counted, IsRecord
<1>4. /\ DOMAIN set = RecordFields /\ set.id = r.id /\ set.values = values /\ set.origin = origin
      /\ set.issues = r.issues /\ set.state = r.state /\ set.open = r.open
  BY <1>3 DEF RecordFields
<1> HIDE DEF set
<1>5. Counted(cases, set)
  BY <1>2, <1>3, <1>4 DEF Counted, IsRecord
<1>6. QED
  BY <1>1, <1>4, <1>5

\* It is noted which question a value waits for.
LEMMA NoteValueGoes ==
  ASSUME NEW run, Sound(run), NEW values, \A k \in DOMAIN values : Waits(run.cases, k[1]) # {}
  PROVE  LET after == [run EXCEPT !.valueCase = values]
         IN  Goes(run, after) /\ after.cases = run.cases
<1> DEFINE after == [run EXCEPT !["valueCase"] = values]
<1>1. DOMAIN run = RunFields
  BY FieldsOfRun DEF Sound, Shaped
<1>3. /\ after.cases = run.cases /\ after.records = run.records /\ after.fieldCase = run.fieldCase
      /\ after.sharedCase = run.sharedCase /\ after.valueCase = values
      /\ after.mergedInto = run.mergedInto
  BY <1>1 DEF RunFields
<1>4. Shaped(after)
  BY ShapedNote DEF Sound, RunFields
<1> HIDE DEF after
<1>5. Filed(after)
  BY <1>3 DEF Sound, Filed
<1>6. Sound(after)
  BY <1>3, <1>4, <1>5 DEF Sound
<1>7. Goes(run, after)
  BY <1>3, <1>6 DEF Goes, SameRows, Grown
<1>8. QED
  BY <1>3, <1>7 DEF after

\* Questions that are shared are there.
LEMMA ShareStill ==
  ASSUME NEW run, Sound(run), NEW group, NEW n \in DOMAIN run.cases
  PROVE  Still(run, [run EXCEPT !.sharedCase = Put(@, group, n)])
<1> DEFINE share == Put(run.sharedCase, group, n)
           after == [run EXCEPT !["sharedCase"] = share]
<1>1. DOMAIN run = RunFields
  BY FieldsOfRun DEF Sound, Shaped
<1>2. \A k \in DOMAIN share : share[k] = n \/ (k \in DOMAIN run.sharedCase /\ share[k] = run.sharedCase[k])
  BY DEF Put
<1> HIDE DEF share
<1>3. /\ after.cases = run.cases /\ after.records = run.records /\ after.fieldCase = run.fieldCase
      /\ after.sharedCase = share /\ after.valueCase = run.valueCase
      /\ after.mergedInto = run.mergedInto
  BY <1>1 DEF RunFields
<1>4. Shaped(after)
  BY ShapedNote DEF Sound, RunFields
<1> HIDE DEF after
<1>5. Filed(after)
  BY <1>2, <1>3 DEF Sound, Filed
<1>6. Sound(after)
  BY <1>3, <1>4, <1>5 DEF Sound
<1>7. Still(run, after)
  BY <1>3, <1>6 DEF Still, Goes, SameRows, Grown
<1>8. QED
  BY <1>7 DEF after, share

\* A run goes on, and only its records begin to wait.
Fills(base, run) ==
  Goes(base, run) /\ \A x : Waits(run.cases, x) # {} => (Waits(base.cases, x) # {} \/ x \in Ids(base))

\* Filling in and asking, one after another.
LEMMA FillsOn ==
  ASSUME NEW base, NEW run, Fills(base, run), NEW after, Fills(run, after)
  PROVE  Fills(base, after)
<1>1. Goes(base, after)
  BY GoesOn DEF Fills
<1>2. Ids(run) = Ids(base)
  BY DEF Fills, Goes, SameRows, Ids
<1>3. QED
  BY <1>1, <1>2 DEF Fills

\* Asking without holding anybody.
LEMMA StillFills ==
  ASSUME NEW base, NEW run, Still(base, run)
  PROVE  Fills(base, run) /\ Sound(run) /\ run.records = base.records
BY DEF Still, Fills, Goes

\* Filling in without asking.
LEMMA GoesFills ==
  ASSUME NEW base, NEW run, Goes(base, run), run.cases = base.cases
  PROVE  Fills(base, run)
BY DEF Fills

\* Filling in keeps the rows, and only rows of the run begin to wait.
LEMMA FillsSound ==
  ASSUME NEW base, NEW run, Fills(base, run)
  PROVE  /\ Sound(run) /\ Ids(run) = Ids(base) /\ run.mergedInto = base.mergedInto
         /\ DOMAIN run.records = DOMAIN base.records
         /\ Owned(base) => Owned(run)
<1>1. Ids(run) = Ids(base) /\ DOMAIN run.records = DOMAIN base.records
  BY DEF Fills, Goes, SameRows, Ids
<1>2. QED
  BY <1>1 DEF Fills, Goes, Owned

\* _attach_to_case.
LEMMA WaitGoes ==
  ASSUME NEW run, Sound(run), run.records # <<>>, NEW n \in DOMAIN run.cases, NEW field
  PROVE  Fills(run, WaitOn(run, n, field))
<1> DEFINE record == Current(run)
           last   == Len(run.records)
           id     == record.id
           waits(r) == [r EXCEPT !.open = @ \cup {n}]
           set    == SetCurrent(run, waits(record))
           cases  == [run.cases EXCEPT ![n].blocks = @ \cup {id}]
           held   == Hold(run, {id}, n)
           there  == [held EXCEPT !.cases = cases]
           values == Put(there.valueCase, <<id, field>>, n)
           after  == [there EXCEPT !.valueCase = values]
<1>1. /\ last \in DOMAIN run.records /\ record = run.records[last]
      /\ Counted(run.cases, record) /\ id \in Ids(run)
  BY CurrentIs
<1>2. DOMAIN run = RunFields /\ Asked(run.cases)
  BY FieldsOfRun DEF Sound, Shaped
<1>3. set = held
  <2> DEFINE one == [run.records EXCEPT ![last] = waits(record)]
             two == [i \in DOMAIN run.records |-> IF run.records[i].id \in {id} THEN waits(run.records[i])
                                                                               ELSE run.records[i]]
  <2>1. set = [run EXCEPT !.records = one] /\ held = [run EXCEPT !.records = two]
    BY DEF SetCurrent, Hold
  <2>2. \A i \in DOMAIN run.records : run.records[i].id = id <=> i = last
    BY <1>1 DEF Sound, Apart
  <2> HIDE DEF record, last, id
  <2>3. one = [i \in DOMAIN run.records |-> IF i = last THEN waits(record) ELSE run.records[i]]
    OBVIOUS
  <2> HIDE DEF waits
  <2>4. two = [i \in DOMAIN run.records |-> IF i = last THEN waits(record) ELSE run.records[i]]
    BY <1>1, <2>2
  <2> HIDE DEF one, two, set, held
  <2>5. QED
    BY <2>1, <2>3, <2>4
<1>4. WaitOn(run, n, field) = after
  <2>1. held.cases = run.cases /\ held.valueCase = run.valueCase /\ DOMAIN held = RunFields
    BY <1>2 DEF Hold, RunFields
  <2>2. WaitOn(run, n, field) =
          [set EXCEPT !.cases[n].blocks = @ \cup {id}, !.valueCase = Put(@, <<id, field>>, n)]
    BY DEF WaitOn
  <2> HIDE DEF set, held, record
  <2>3. WaitOn(run, n, field) =
          [held EXCEPT !.cases = cases, !.valueCase = Put(held.valueCase, <<id, field>>, n)]
    BY <1>3, <2>1, <2>2
  <2>4. there.valueCase = held.valueCase
    BY <2>1
  <2> HIDE DEF cases
  <2>5. QED
    BY <2>1, <2>3, <2>4 DEF values
<1> HIDE DEF id, record, set, held, waits
<1>5. /\ DOMAIN cases = DOMAIN run.cases
      /\ \A x : Waits(cases, x) = IF x = id THEN Waits(run.cases, x) \cup {n} ELSE Waits(run.cases, x)
  <2>1. DOMAIN cases = DOMAIN run.cases /\ \A m \in DOMAIN run.cases : m # n => cases[m] = run.cases[m]
    OBVIOUS
  <2>2. cases[n].blocks = run.cases[n].blocks \cup {id} /\ cases[n].children = run.cases[n].children
    <3>1. DOMAIN run.cases[n] = DOMAIN NoCase
      BY <1>2 DEF Asked
    <3>2. QED
      BY <3>1 DEF NoCase
  <2> HIDE DEF cases
  <2>3. QED
    BY <2>1, <2>2 DEF Waits
<1>6. Asked(cases)
  <2>1. cases = [m \in DOMAIN run.cases |-> cases[m]]
        /\ \A m \in DOMAIN run.cases : DOMAIN cases[m] = DOMAIN run.cases[m]
    OBVIOUS
  <2> HIDE DEF cases
  <2>2. QED
    BY <1>2, <2>1, AskedChanged DEF Asked
<1>7. there.cases = cases
  BY <1>2 DEF Hold, RunFields, held
<1> HIDE DEF cases
<1>8. Goes(run, there)
  BY <1>5, <1>6, HoldGoes DEF held
<1> HIDE DEF there
<1>9. Sound(there)
  BY <1>8 DEF Goes
<1>10. \A k \in DOMAIN values : Waits(there.cases, k[1]) # {}
  <2>1. \A k \in DOMAIN values : k \in DOMAIN there.valueCase \/ k = <<id, field>>
    BY DEF Put
  <2>2. Waits(there.cases, id) # {}
    BY <1>5, <1>7
  <2> HIDE DEF values
  <2>3. QED
    BY <1>9, <2>1, <2>2 DEF Sound, Filed
<1> HIDE DEF values
<1>11. Goes(there, after) /\ after.cases = there.cases
  BY <1>9, <1>10, NoteValueGoes
<1> HIDE DEF after
<1>12. Goes(run, after)
  BY <1>8, <1>11, GoesOn
<1>13. QED
  BY <1>1, <1>4, <1>5, <1>7, <1>11, <1>12 DEF Fills

\* _apply_value, of a value that cannot be cleaned.
LEMMA AskValueGoes ==
  ASSUME NEW run, Sound(run), run.records # <<>>,
         NEW file, NEW header, NEW row, NEW field, NEW cleaned
  PROVE  Fills(run, AskAboutValue(run, file, header, row, field, cleaned))
<1> DEFINE raw     == row.cells[header]
           record  == Current(run)
           plan    == run.plans[<<file, header>>]
           column  == cleaned.alternatives # {} /\ plan.between # {}
           klass   == IF column THEN "AMBIGUOUS_VALUE"
                      ELSE IF header \in row.doubtful THEN "LOW_CONFIDENCE_EXTRACTION"
                      ELSE IF cleaned.alternatives # {} THEN "AMBIGUOUS_VALUE"
                      ELSE "VALIDATION_UNRESOLVED"
           group   == <<file, header, IF column THEN None ELSE raw>>
           shared  == IF klass = "AMBIGUOUS_VALUE" THEN Get(run.sharedCase, group) ELSE None
           n       == IF shared # None THEN shared ELSE Len(run.cases) + 1
           case    == [NoCase EXCEPT !.klass = klass, !.recordKey = RowKey(record), !.field = field,
                         !.file = file, !.column = header,
                         !.perValue = klass = "AMBIGUOUS_VALUE" /\ ~column, !.raw = raw,
                         !.options = IF column THEN {<<"format", fmt>> : fmt \in plan.between}
                                               ELSE {<<"value", v>> : v \in cleaned.alternatives}]
           asked   == IF shared # None THEN run ELSE Raise(run, case)
           grouped == IF klass = "AMBIGUOUS_VALUE" THEN [asked EXCEPT !.sharedCase = Put(@, group, n)] ELSE asked
           rows    == IF n \in DOMAIN run.formatRows THEN run.formatRows[n] ELSE <<>>
           waiting == Put(grouped.formatRows, n, Append(rows, <<record.id, raw>>))
           noted   == IF column THEN [grouped EXCEPT !["formatRows"] = waiting] ELSE grouped
<1>1. AskAboutValue(run, file, header, row, field, cleaned) = WaitOn(noted, n, field)
  BY DEF AskAboutValue
<1>2. Still(run, asked) /\ n \in DOMAIN asked.cases
  <2>1. CASE shared # None
    <3>1. group \in DOMAIN run.sharedCase /\ shared = run.sharedCase[group]
      BY <2>1 DEF Get
    <3>2. shared \in DOMAIN run.cases
      BY <3>1 DEF Sound, Filed
    <3> HIDE DEF shared, case
    <3>3. QED
      BY <2>1, <3>2, StillItself
  <2>2. CASE shared = None
    <3>1. DOMAIN case = DOMAIN NoCase /\ case.blocks = {} /\ case.children = {}
      BY DEF NoCase
    <3> HIDE DEF case, shared
    <3>2. Still(run, Raise(run, case)) /\ Len(run.cases) + 1 \in DOMAIN Raise(run, case).cases
      BY <3>1, RaiseGoes DEF Still
    <3>3. QED
      BY <2>2, <3>2
  <2> HIDE DEF shared, asked, n
  <2>3. QED
    BY <2>1, <2>2
<1> HIDE DEF asked, klass, n
<1>3. Still(run, grouped) /\ n \in DOMAIN grouped.cases
  <2>1. Sound(asked)
    BY <1>2, StillSound
  <2>2. Still(asked, [asked EXCEPT !.sharedCase = Put(@, group, n)])
    BY <1>2, <2>1, ShareStill
  <2>3. Still(run, [asked EXCEPT !.sharedCase = Put(@, group, n)])
    BY <1>2, <2>2, StillOn
  <2>4. Still(run, grouped)
    BY <1>2, <2>3
  <2>5. DOMAIN asked.cases \subseteq DOMAIN grouped.cases
    <3>1. CASE klass = "AMBIGUOUS_VALUE"
      <4>1. grouped = [asked EXCEPT !.sharedCase = Put(@, group, n)]
        BY <3>1
      <4> HIDE DEF grouped
      <4>2. QED
        BY <2>2, <4>1 DEF Still, Goes, Grown
    <3>2. CASE klass # "AMBIGUOUS_VALUE"
      BY <3>2
    <3>3. QED
      BY <3>1, <3>2
  <2> HIDE DEF grouped
  <2>6. QED
    BY <1>2, <2>4, <2>5
<1> HIDE DEF grouped, waiting, column
<1>4. Still(run, noted) /\ n \in DOMAIN noted.cases
  <2> DEFINE more == [grouped EXCEPT !["formatRows"] = waiting]
  <2>1. Sound(grouped)
    BY <1>3, StillSound
  <2>2. Shaped(more)
    BY <2>1, ShapedNote DEF RunFields, Sound
  <2>3. Still(grouped, more)
    BY <2>1, <2>2, NoteStill DEF RunFields
  <2> HIDE DEF more
  <2>4. Still(run, more) /\ n \in DOMAIN more.cases
    BY <1>3, <2>3, StillOn DEF Still, Goes, Grown
  <2>5. QED
    BY <1>3, <2>4 DEF more
<1> HIDE DEF noted
<1>5. Fills(run, noted) /\ Sound(noted) /\ noted.records = run.records
  BY <1>4, StillFills
<1>6. Fills(noted, WaitOn(noted, n, field))
  BY <1>4, <1>5, WaitGoes
<1>7. QED
  BY <1>1, <1>5, <1>6, FillsOn

\* _apply_value.
LEMMA ValueGoes ==
  ASSUME NEW run, Sound(run), run.records # <<>>, NEW overrides, NEW file, NEW row, NEW header,
         run.applied[<<file, header>>] \in FieldNames
  PROVE  Fills(run, ApplyValue(run, overrides, file, row, header))
<1> DEFINE field == run.applied[<<file, header>>]
<1>1. \/ \E value : ApplyValue(run, overrides, file, row, header) =
                      SetCurrent(run, SetValue(Current(run), field, value, file))
      \/ \E cleaned : ApplyValue(run, overrides, file, row, header) =
                        AskAboutValue(run, file, header, row, field, cleaned)
  BY DEF ApplyValue
<1> HIDE DEF field
<1>2. ASSUME NEW value PROVE Fills(run, SetCurrent(run, SetValue(Current(run), field, value, file)))
  <2> DEFINE record == SetValue(Current(run), field, value, file)
  <2>1. Counted(run.cases, Current(run)) /\ field \in FieldNames
    BY CurrentIs DEF field
  <2>2. Counted(run.cases, record) /\ record.id = Current(run).id /\ record.issues = Current(run).issues
    BY <2>1, ValueCounted
  <2> HIDE DEF record
  <2>3. Goes(run, SetCurrent(run, record)) /\ SetCurrent(run, record).cases = run.cases
    BY <2>2, CurrentGoes
  <2>4. QED
    BY <2>3, GoesFills DEF record
<1>3. QED
  BY <1>1, <1>2, AskValueGoes

(* Fields set for every record of a file. *)
ConstantStep(file, cases, r, constant) == ApplyConstant(r, file, constant)
ConstantLoop(file, cases, base, n, r) == Counted(cases, r) /\ r.id = base.id /\ r.issues = base.issues
SettingConstants == INSTANCE FoldInduction WITH Step <- ConstantStep, Inv <- ConstantLoop

WithConstants(constants, file, record) ==
  FoldLeft(LAMBDA r, c : ApplyConstant(r, file, c), record, constants)

\* The answers for a whole column are filled in one after another.
LEMMA ConstantsCounted ==
  ASSUME NEW constants, IsSeq(constants), NEW cases, NEW record, Counted(cases, record), NEW file
  PROVE  LET set == WithConstants(constants, file, record)
         IN  Counted(cases, set) /\ set.id = record.id /\ set.issues = record.issues
<1> DEFINE set == SettingConstants!Over(file, cases, record, constants)
<1>1. WithConstants(constants, file, record) = set
  BY DEF WithConstants, SettingConstants!Over, ConstantStep, SettingConstants!Unfolding, FoldLeft, MapThenFoldSet,
         SettingConstants!Last, Max
<1>2. SettingConstants!Sequence(constants)
  BY SeqReached DEF SettingConstants!Sequence, SettingConstants!Reached
<1>3. ASSUME NEW r, Counted(cases, r), NEW c
      PROVE  LET after == ApplyConstant(r, file, c)
             IN  Counted(cases, after) /\ after.id = r.id /\ after.issues = r.issues
  <2>1. CASE ApplyConstant(r, file, c) = r
    BY <1>3, <2>1
  <2>2. CASE ApplyConstant(r, file, c) # r
    <3>1. c.field \in FieldNames /\ ApplyConstant(r, file, c) = SetValue(r, c.field, c.value, r.files[1])
      BY <2>2 DEF ApplyConstant
    <3>2. QED
      BY <1>3, <3>1, ValueCounted
  <2>3. QED
    BY <2>1, <2>2
<1>4. \A n \in 1..Len(constants) : \A r :
        ConstantLoop(file, cases, record, n - 1, r) =>
          ConstantLoop(file, cases, record, n, ConstantStep(file, cases, r, constants[n]))
  BY <1>3 DEF ConstantLoop, ConstantStep
<1>5. ConstantLoop(file, cases, record, 0, record)
  BY DEF ConstantLoop
<1>6. ConstantLoop(file, cases, record, Len(constants), set)
  BY <1>2, <1>4, <1>5, SettingConstants!FoldKeeps
<1> HIDE DEF set
<1>7. QED
  BY <1>1, <1>6 DEF ConstantLoop

\* The columns are applied to fields, and sort apart.
Columns(run) ==
  /\ IsFiniteSet(DOMAIN run.applied)
  /\ \A at \in DOMAIN run.applied :
       at = <<at[1], at[2]>> /\ run.applied[at] \in FieldNames /\ Place(at[2]) \in Int
  /\ \A a, b \in DOMAIN run.applied : Place(a[2]) = Place(b[2]) => a[2] = b[2]

\* The columns of a file, with the one that names the record first.
HeadersOf(run, file) ==
  LET identity(header) == run.applied[<<file, header>>] = IdentityField
  IN  InOrder({a[2] : a \in {b \in DOMAIN run.applied : b[1] = file}},
              LAMBDA g, h : \/ identity(g) /\ ~identity(h)
                            \/ identity(g) = identity(h) /\ Place(g) < Place(h))

\* Two measures, one after the other, order what the second tells apart.
LEMMA LexOrders ==
  ASSUME NEW S, NEW c, NEW p, NEW R,
         \A x \in S : c[x] \in Int /\ p[x] \in Int,
         \A x, y \in S : p[x] = p[y] => x = y,
         \A x, y \in S : <<x, y>> \in R <=> (c[x] < c[y] \/ (c[x] = c[y] /\ p[x] < p[y]))
  PROVE  Orders(R, S)
<1>1. \A x \in S : <<x, x>> \notin R
  OBVIOUS
<1>2. \A x, y, z \in S : <<x, y>> \in R /\ <<y, z>> \in R => <<x, z>> \in R
  OBVIOUS
<1>3. \A x, y \in S : x # y => <<x, y>> \in R \/ <<y, x>> \in R
  OBVIOUS
<1>4. QED
  BY <1>1, <1>2, <1>3 DEF Orders

\* They are the columns that were applied.
LEMMA HeadersAre ==
  ASSUME NEW run, Columns(run), NEW file
  PROVE  /\ IsSeq(HeadersOf(run, file))
         /\ \A i \in DOMAIN HeadersOf(run, file) : <<file, HeadersOf(run, file)[i]>> \in DOMAIN run.applied
<1> DEFINE held == {b \in DOMAIN run.applied : b[1] = file}
           named == {a[2] : a \in held}
           identity(header) == run.applied[<<file, header>>] = IdentityField
           before(g, h) == \/ identity(g) /\ ~identity(h)
                           \/ identity(g) = identity(h) /\ Place(g) < Place(h)
           R == {p \in named \X named : before(p[1], p[2])}
           headers == HeadersOf(run, file)
           at(i) == CHOOSE h \in named : Cardinality({g \in named : before(g, h)}) = i - 1
<1>1. IsFiniteSet(named)
  <2> DEFINE second == [a \in held |-> a[2]]
  <2>1. IsFiniteSet(held)
    BY FS_Subset DEF Columns
  <2>2. IsFiniteSet({second[a] : a \in DOMAIN second})
    BY <2>1, ImageFinite
  <2>3. named = {second[a] : a \in DOMAIN second}
    OBVIOUS
  <2>4. QED
    BY <2>2, <2>3
<1>2. headers = [i \in 1..Cardinality(named) |-> at(i)]
  BY Zenon DEF HeadersOf, InOrder
<1>3. \A g, h \in named : <<g, h>> \in R <=> before(g, h)
  OBVIOUS
<1>4. \A h \in named : Place(h) \in Int /\ <<file, h>> \in DOMAIN run.applied
  BY DEF Columns
<1>5. \A g, h \in named : Place(g) = Place(h) => g = h
  BY DEF Columns
<1> DEFINE class == [h \in named |-> IF identity(h) THEN 0 ELSE 1]
           places == [h \in named |-> Place(h)]
<1>a. \A g, h \in named : <<g, h>> \in R <=> (class[g] < class[h] \/ (class[g] = class[h] /\ places[g] < places[h]))
  OBVIOUS
<1>b. \A h \in named : class[h] \in Int /\ places[h] \in Int
  <2>1. \A h \in named : class[h] \in {0, 1}
    OBVIOUS
  <2>2. \A h \in named : places[h] = Place(h)
    OBVIOUS
  <2> HIDE DEF class, places, named
  <2>3. \A h \in named : class[h] \in Int
    BY <2>1
  <2>4. \A h \in named : Place(h) \in Int
    BY <1>4
  <2>5. \A h \in named : places[h] \in Int
    BY <2>2, <2>4, Zenon
  <2>6. QED
    BY <2>3, <2>5
<1>c. \A g, h \in named : places[g] = places[h] => g = h
  BY <1>5
<1> HIDE DEF R, named, identity, class, before, places
<1>6. Orders(R, named)
  BY <1>a, <1>b, <1>c, LexOrders
<1>7. \A i \in 1..Cardinality(named) : at(i) \in named
  <2> SUFFICES ASSUME NEW i \in 1..Cardinality(named) PROVE at(i) \in named
    OBVIOUS
  <2>1. PICK x \in named : Cardinality(Before(R, named, x)) = i - 1
    BY <1>1, <1>6, OrderRanks
  <2>2. Before(R, named, x) = {g \in named : before(g, x)}
    BY <1>3 DEF Before
  <2>3. QED
    BY <2>1, <2>2
<1> HIDE DEF at, headers
<1>8. DOMAIN headers = 1..Cardinality(named) /\ headers = [i \in DOMAIN headers |-> headers[i]]
      /\ \A i \in DOMAIN headers : headers[i] \in named
  BY <1>2, <1>7
<1>9. IsSeq(headers)
  BY <1>1, <1>8, InOrderIs
<1>10. QED
  BY <1>4, <1>8, <1>9 DEF headers

\* The same of a loop.
FillsLoop(p, q, base, n, run) == Fills(base, run) /\ Formed(base, run)
CellsFilled == INSTANCE FoldInduction WITH Step <- CellStep, Inv <- FillsLoop

\* A row begins a record that nobody asks about.
LEMMA BegunSound ==
  ASSUME NEW run, Sound(run), Owned(run), NEW row, row.id \notin Ids(run), NEW file
  PROVE  LET begun == [run EXCEPT !.records = Append(@, NewRecord(row, file))]
         IN  /\ Sound(begun) /\ Owned(begun) /\ begun.records # <<>>
             /\ Ids(begun) = Ids(run) \cup {row.id} /\ begun.mergedInto = run.mergedInto
             /\ Formed(run, begun)
<1> DEFINE record == NewRecord(row, file)
           records == Append(run.records, record)
           begun == [run EXCEPT !.records = records]
           N == Len(run.records)
<1>1. DOMAIN run = RunFields /\ Shaped(run) /\ IsSeq(run.records)
  BY FieldsOfRun DEF Sound, Shaped
<1>2. Counted(run.cases, record) /\ record.id = row.id
  <2>1. Waits(run.cases, row.id) = {}
    BY DEF Owned
  <2>2. /\ DOMAIN record = RecordFields /\ record.id = row.id /\ record.open = {}
        /\ record.state = "processing" /\ DOMAIN record.values = {} /\ DOMAIN record.origin = {}
    BY DEF NewRecord, NoFunction, RecordFields
  <2> HIDE DEF record
  <2>3. QED
    BY <2>1, <2>2 DEF Counted, IsRecord
<1> HIDE DEF record
<1>3. N \in Nat /\ DOMAIN run.records = 1..N
  BY <1>1, SeqIs
<1>4. IsSeq(records) /\ Len(records) = N + 1
      /\ \A i \in 1..(N + 1) : records[i] = IF i <= N THEN run.records[i] ELSE record
  BY <1>1, SeqAppend
<1>5. DOMAIN records = 1..(N + 1)
  BY <1>4, SeqIs
<1> HIDE DEF records, N
<1>6. /\ \A i : i \in DOMAIN records <=> i \in DOMAIN run.records \/ i = N + 1
      /\ N + 1 \notin DOMAIN run.records
      /\ \A i \in DOMAIN run.records : records[i] = run.records[i]
      /\ records[N + 1] = record
  BY <1>3, <1>4, <1>5
<1>7. begun.cases = run.cases /\ begun.records = records /\ NotesKept(run, begun) /\ DOMAIN begun = RunFields
  BY <1>1, RecordsSet
<1>8. begun.applied = run.applied /\ begun.mappings = run.mappings
  BY <1>1 DEF RunFields
<1> HIDE DEF begun
<1>9. Shaped(begun) /\ Formed(run, begun)
  BY <1>1, <1>4, <1>7, <1>8, FieldsOfRun DEF Shaped, Formed
<1>10. Ids(begun) = Ids(run) \cup {row.id}
  <2>1. Ids(begun) = {records[i].id : i \in DOMAIN records}
    BY <1>7 DEF Ids
  <2>2. \A x : x \in Ids(run) <=> \E i \in DOMAIN run.records : x = run.records[i].id
    BY DEF Ids
  <2>3. \A x : x \in Ids(begun) <=> \E i \in DOMAIN records : x = records[i].id
    BY <2>1
  <2>4. records[N + 1].id = row.id
    BY <1>2, <1>6
  <2>5. \A x : x \in Ids(begun) => x \in Ids(run) \cup {row.id}
    BY <1>6, <2>2, <2>3, <2>4
  <2>6. \A x : x \in Ids(run) \cup {row.id} => x \in Ids(begun)
    BY <1>6, <2>2, <2>3, <2>4
  <2>7. QED
    BY <2>5, <2>6
<1>11. Apart(begun.records)
  <2>1. \A i \in DOMAIN run.records : run.records[i].id # row.id
    BY DEF Ids
  <2>2. QED
    BY <1>2, <1>6, <1>7, <2>1 DEF Sound, Apart
<1>12. Filed(begun)
  BY <1>7 DEF Sound, Filed, NotesKept
<1>13. \A i \in DOMAIN begun.records : Counted(begun.cases, begun.records[i])
  BY <1>2, <1>6, <1>7 DEF Sound
<1>14. Owned(begun)
  BY <1>7, <1>10 DEF Owned
<1>15. begun.records # <<>>
  <2>1. DOMAIN <<>> = {}
    OBVIOUS
  <2>2. QED
    BY <1>6, <1>7, <2>1
<1>16. QED
  BY <1>7, <1>9, <1>10, <1>11, <1>12, <1>13, <1>14, <1>15 DEF Sound, NotesKept, begun, records, record

\* The records of more rows.
Grows(base, run) ==
  Formed(base, run) /\ Sound(run) /\ Owned(run) /\ run.mergedInto = base.mergedInto

\* One row of _build.
LEMMA RowGrows ==
  ASSUME NEW run, Sound(run), Owned(run), Columns(run), NEW overrides, IsSeq(overrides.constants),
         NEW source, NEW row, row.id \notin Ids(run)
  PROVE  LET after == BuildRow(run, overrides, source, row)
         IN  Grows(run, after) /\ Ids(after) = Ids(run) \cup {row.id}
<1> DEFINE file    == source.name
           headers == HeadersOf(run, file)
           begun   == [run EXCEPT !.records = Append(@, NewRecord(row, file))]
           place   == [file |-> file, row |-> row]
           filled  == CellsFilled!Over(overrides, place, begun, headers)
           record  == WithConstants(overrides.constants, file, Current(filled))
           after   == SetCurrent(filled, record)
<1>1. BuildRow(run, overrides, source, row) = after
  <2>1. FoldLeft(LAMBDA d, h : ApplyValue(d, overrides, source.name, row, h), begun, headers) = filled
    BY DEF CellsFilled!Over, CellStep, CellsFilled!Unfolding, FoldLeft, MapThenFoldSet,
           CellsFilled!Last, Max
  <2> DEFINE cells == FoldLeft(LAMBDA d, h : ApplyValue(d, overrides, source.name, row, h), begun, headers)
  <2>2. BuildRow(run, overrides, source, row) =
          SetCurrent(cells, FoldLeft(LAMBDA r, c : ApplyConstant(r, source.name, c),
                                     Current(cells), overrides.constants))
    BY DEF BuildRow, HeadersOf
  <2>5. BuildRow(run, overrides, source, row) =
          SetCurrent(cells, WithConstants(overrides.constants, file, Current(cells)))
    BY <2>2 DEF WithConstants
  <2> HIDE DEF filled, cells
  <2>3. cells = filled
    BY <2>1 DEF cells
  <2>4. QED
    BY <2>3, <2>5
<1>2. /\ Sound(begun) /\ Owned(begun) /\ begun.records # <<>>
      /\ Ids(begun) = Ids(run) \cup {row.id} /\ begun.mergedInto = run.mergedInto
      /\ Formed(run, begun)
  BY BegunSound
<1>3. IsSeq(headers) /\ \A i \in DOMAIN headers : <<file, headers[i]>> \in DOMAIN run.applied
  BY HeadersAre
<1> HIDE DEF headers, begun
<1>4. Fills(begun, filled) /\ Formed(begun, filled)
  <2>1. CellsFilled!Sequence(headers) /\ DOMAIN headers = 1..Len(headers)
    BY <1>3, SeqReached DEF CellsFilled!Sequence, CellsFilled!Reached
  <2>2. ASSUME NEW n \in 1..Len(headers), NEW d, FillsLoop(overrides, place, begun, n - 1, d)
        PROVE  FillsLoop(overrides, place, begun, n, CellStep(overrides, place, d, headers[n]))
    <3> DEFINE next == CellStep(overrides, place, d, headers[n])
    <3>1. Fills(begun, d) /\ Formed(begun, d)
      BY <2>2 DEF FillsLoop
    <3>2. Sound(d) /\ DOMAIN d.records = DOMAIN begun.records
      BY <3>1, FillsSound
    <3>3. d.records # <<>>
      <4>1. Len(begun.records) \in DOMAIN begun.records
        BY <1>2, CurrentIs
      <4>2. DOMAIN <<>> = {}
        OBVIOUS
      <4>3. QED
        BY <3>2, <4>1, <4>2
    <3>4. d.applied = run.applied
      BY <1>2, <3>1 DEF Formed
    <3>5. d.applied[<<file, headers[n]>>] \in FieldNames
      BY <1>3, <2>1, <3>4 DEF Columns
    <3>6. next = ApplyValue(d, overrides, file, row, headers[n])
      BY DEF CellStep
    <3> HIDE DEF next, place
    <3>7. Fills(d, next)
      BY <3>2, <3>3, <3>5, <3>6, ValueGoes
    <3>8. Fills(begun, next) /\ Formed(begun, next)
      BY <3>1, <3>6, <3>7, FillsOn, ValueFormed
    <3>9. QED
      BY <3>8 DEF FillsLoop, next
  <2>3. FillsLoop(overrides, place, begun, 0, begun)
    BY <1>2, GoesItself DEF FillsLoop, Fills, Formed, Sound
  <2>4. FillsLoop(overrides, place, begun, Len(headers), filled)
    BY <2>1, <2>2, <2>3, CellsFilled!FoldKeeps
  <2>5. QED
    BY <2>4 DEF FillsLoop
<1> HIDE DEF filled, place
<1>5. /\ Sound(filled) /\ Ids(filled) = Ids(begun) /\ filled.mergedInto = begun.mergedInto
      /\ DOMAIN filled.records = DOMAIN begun.records /\ Owned(filled)
  BY <1>2, <1>4, FillsSound
<1>6. filled.records # <<>>
  <2>1. Len(begun.records) \in DOMAIN begun.records
    BY <1>2, CurrentIs
  <2>2. DOMAIN <<>> = {}
    OBVIOUS
  <2>3. QED
    BY <1>5, <2>1, <2>2
<1>7. Counted(filled.cases, Current(filled))
  BY <1>5, <1>6, CurrentIs
<1>8. /\ Counted(filled.cases, record) /\ record.id = Current(filled).id
      /\ record.issues = Current(filled).issues
  BY <1>7, ConstantsCounted
<1> HIDE DEF record
<1>9. Goes(filled, after) /\ after.cases = filled.cases
  BY <1>5, <1>6, <1>8, CurrentGoes
<1>10. Formed(filled, filled)
  BY <1>5 DEF Formed, Sound
<1>11. Formed(filled, after)
  BY <1>10, CurrentFormed
<1> HIDE DEF after
<1>12. Fills(filled, after)
  BY <1>9, GoesFills
<1>13. Sound(after) /\ Ids(after) = Ids(filled) /\ after.mergedInto = filled.mergedInto /\ Owned(after)
  BY <1>5, <1>12, FillsSound
<1>14. Formed(run, after)
  BY <1>2, <1>4, <1>11, FormedAfter
<1>15. QED
  BY <1>1, <1>2, <1>5, <1>13, <1>14 DEF Grows

\* The rows of a file, by their ids.
RowIds(source) == {source.rows[i].id : i \in DOMAIN source.rows}

\* A file as it is read, each of its rows with an id of its own.
RowsApart(source) ==
  /\ Sheet(source)
  /\ \A i, j \in DOMAIN source.rows : source.rows[i].id = source.rows[j].id => i = j

\* A loop that begins the records of the rows it went through,
RowsLoop(overrides, source, base, n, run) ==
  Grows(base, run) /\ Ids(run) = Ids(base) \cup {source.rows[i].id : i \in 1..n}
RowsGrown == INSTANCE FoldInduction WITH Step <- RowStep, Inv <- RowsLoop

\* and one that does for the rows of several files.
SheetsLoop(overrides, sources, base, n, run) ==
  Grows(base, run) /\ Ids(run) \subseteq Ids(base) \cup UNION {RowIds(sources[i]) : i \in 1..n}
SheetsGrown == INSTANCE FoldInduction WITH Step <- SheetStep, Inv <- SheetsLoop

\* Records go on being those of more rows.
LEMMA GrowsOn ==
  ASSUME NEW base, NEW run, Grows(base, run), NEW after, Grows(run, after)
  PROVE  Grows(base, after)
<1>1. Formed(base, after)
  BY FormedAfter DEF Grows
<1>2. QED
  BY <1>1 DEF Grows

\* A run has the records it has.
LEMMA GrowsItself ==
  ASSUME NEW run, Sound(run), Owned(run)
  PROVE  Grows(run, run)
<1>1. Formed(run, run)
  BY DEF Formed, Sound
<1>2. QED
  BY <1>1 DEF Grows

\* The columns stay where they are.
LEMMA ColumnsStay ==
  ASSUME NEW base, Columns(base), NEW run, Grows(base, run)
  PROVE  Columns(run)
BY DEF Columns, Grows, Formed

\* One file of _build.
LEMMA BuildFileGrows ==
  ASSUME NEW run, Sound(run), Owned(run), Columns(run), NEW overrides, IsSeq(overrides.constants),
         NEW source, RowsApart(source), RowIds(source) \cap Ids(run) = {}
  PROVE  LET after == BuildFile(run, overrides, source)
         IN  Grows(run, after) /\ Ids(after) \subseteq Ids(run) \cup RowIds(source)
<1> DEFINE done == RowsGrown!Over(overrides, source, run, source.rows)
           N == Len(source.rows)
<1>1. BuildFile(run, overrides, source) = IF Supplied(run, source.name) = {} THEN run ELSE done
  BY DEF BuildFile, RowsGrown!Over, RowStep, RowsGrown!Unfolding, FoldLeft, MapThenFoldSet,
         RowsGrown!Last, Max
<1>2. RowsGrown!Sequence(source.rows) /\ N \in Nat /\ DOMAIN source.rows = 1..N
  BY SeqReached, SeqIs DEF RowsGrown!Sequence, RowsGrown!Reached, RowsApart, Sheet
<1> HIDE DEF N
<1>3. ASSUME NEW n \in 1..N, NEW d, RowsLoop(overrides, source, run, n - 1, d)
      PROVE  RowsLoop(overrides, source, run, n, RowStep(overrides, source, d, source.rows[n]))
  <2> DEFINE row == source.rows[n]
             after == BuildRow(d, overrides, source, row)
  <2>1. Grows(run, d) /\ Ids(d) = Ids(run) \cup {source.rows[i].id : i \in 1..(n - 1)}
    BY <1>3 DEF RowsLoop
  <2>2. row.id \notin Ids(d)
    <3>1. row.id \in RowIds(source)
      BY <1>2 DEF RowIds
    <3>2. \A i \in 1..(n - 1) : source.rows[i].id # row.id
      <4>1. \A i \in 1..(n - 1) : i \in 1..N /\ i # n
        BY <1>2
      <4>2. QED
        BY <1>2, <4>1 DEF RowsApart
    <3>3. QED
      BY <2>1, <3>1, <3>2
  <2>3. Sound(d) /\ Owned(d) /\ Columns(d)
    BY <2>1, ColumnsStay DEF Grows
  <2> HIDE DEF row
  <2>4. Grows(d, after) /\ Ids(after) = Ids(d) \cup {row.id}
    BY <2>2, <2>3, RowGrows
  <2> HIDE DEF after
  <2>5. Grows(run, after)
    BY <2>1, <2>4, GrowsOn
  <2>6. {source.rows[i].id : i \in 1..n} = {source.rows[i].id : i \in 1..(n - 1)} \cup {row.id}
    <3>1. 1..n = (1..(n - 1)) \cup {n}
      BY <1>2
    <3>2. QED
      BY <3>1 DEF row
  <2>7. RowsLoop(overrides, source, run, n, after)
    BY <2>1, <2>4, <2>5, <2>6 DEF RowsLoop
  <2>8. QED
    BY <2>7 DEF after, row, RowStep
<1>4. RowsLoop(overrides, source, run, 0, run)
  <2>1. {source.rows[i].id : i \in 1..0} = {}
    OBVIOUS
  <2>2. QED
    BY <2>1, GrowsItself DEF RowsLoop
<1>5. RowsLoop(overrides, source, run, N, done)
  BY <1>2, <1>3, <1>4, RowsGrown!FoldKeeps DEF N
<1>6. Grows(run, done) /\ Ids(done) = Ids(run) \cup RowIds(source)
  BY <1>2, <1>5 DEF RowsLoop, RowIds
<1> HIDE DEF done
<1>7. QED
  BY <1>1, <1>6, GrowsItself

\* _build: a record for every row, and nobody waits for a question that does
\* not count him.
LEMMA BuildSound ==
  ASSUME NEW run, Sound(run), Owned(run), Columns(run), Ids(run) = {},
         NEW overrides, IsSeq(overrides.constants),
         NEW sources, IsSeq(sources), \A i \in DOMAIN sources : RowsApart(sources[i]),
         \A i, j \in DOMAIN sources : RowIds(sources[i]) \cap RowIds(sources[j]) # {} => i = j
  PROVE  LET after == Build(run, overrides, sources)
         IN  /\ Sound(after) /\ after.mergedInto = run.mergedInto
             /\ Ids(after) \subseteq UNION {RowIds(sources[i]) : i \in DOMAIN sources}
<1> DEFINE done == SheetsGrown!Over(overrides, sources, run, sources)
           after == [done EXCEPT !["built"] = done.records]
           N == Len(sources)
<1>1. Build(run, overrides, sources) = after
  BY DEF Build, SheetsGrown!Over, SheetStep, SheetsGrown!Unfolding, FoldLeft, MapThenFoldSet,
         SheetsGrown!Last, Max
<1>2. SheetsGrown!Sequence(sources) /\ N \in Nat /\ DOMAIN sources = 1..N
  BY SeqReached, SeqIs DEF SheetsGrown!Sequence, SheetsGrown!Reached
<1> HIDE DEF N
<1>3. ASSUME NEW n \in 1..N, NEW d, SheetsLoop(overrides, sources, run, n - 1, d)
      PROVE  SheetsLoop(overrides, sources, run, n, SheetStep(overrides, sources, d, sources[n]))
  <2> DEFINE source == sources[n]
             grown == BuildFile(d, overrides, source)
             before == UNION {RowIds(sources[i]) : i \in 1..(n - 1)}
  <2>1. Grows(run, d) /\ Ids(d) \subseteq before
    BY <1>3 DEF SheetsLoop
  <2>2. RowIds(source) \cap before = {}
    <3>1. \A i \in 1..(n - 1) : i \in 1..N /\ i # n
      BY <1>2
    <3>2. \A i \in 1..(n - 1) : RowIds(sources[i]) \cap RowIds(sources[n]) = {}
      BY <1>2, <3>1
    <3>3. QED
      BY <3>2
  <2>3. Sound(d) /\ Owned(d) /\ Columns(d) /\ RowsApart(source)
    BY <1>2, <2>1, ColumnsStay DEF Grows
  <2>4. before \cup RowIds(source) \subseteq UNION {RowIds(sources[i]) : i \in 1..n}
    <3>1. n \in 1..n /\ \A i \in 1..(n - 1) : i \in 1..n
      BY <1>2
    <3>2. QED
      BY <3>1
  <2> HIDE DEF source, before
  <2>5. Grows(d, grown) /\ Ids(grown) \subseteq Ids(d) \cup RowIds(source)
    BY <2>1, <2>2, <2>3, BuildFileGrows
  <2> HIDE DEF grown
  <2>6. Grows(run, grown)
    BY <2>1, <2>5, GrowsOn
  <2>7. SheetsLoop(overrides, sources, run, n, grown)
    BY <2>1, <2>4, <2>5, <2>6 DEF SheetsLoop
  <2>8. QED
    BY <2>7 DEF grown, source, SheetStep
<1>4. SheetsLoop(overrides, sources, run, 0, run)
  BY GrowsItself DEF SheetsLoop
<1>5. SheetsLoop(overrides, sources, run, N, done)
  BY <1>2, <1>3, <1>4, SheetsGrown!FoldKeeps DEF N
<1>6. Grows(run, done) /\ Ids(done) \subseteq UNION {RowIds(sources[i]) : i \in DOMAIN sources}
  BY <1>2, <1>5 DEF SheetsLoop
<1> HIDE DEF done
<1>7. Still(done, after)
  <2>1. Sound(done) /\ Shaped(done)
    BY <1>6 DEF Grows, Sound
  <2>2. Shaped(after)
    BY <2>1, ShapedNote DEF RunFields
  <2>3. "built" \in RunFields \ {"cases", "records", "fieldCase", "sharedCase", "valueCase", "mergedInto"}
    BY DEF RunFields
  <2>4. QED
    BY <2>1, <2>2, <2>3, NoteStill
<1>8. Sound(after) /\ Ids(after) = Ids(done) /\ after.mergedInto = done.mergedInto
  BY <1>7, StillFills, FillsSound
<1> HIDE DEF after
<1>9. QED
  BY <1>1, <1>6, <1>8 DEF Grows

(********************* the pairs that may be one ***************************)

\* Rows sort apart by their ids.
SortApart(ids) == \A a, b \in ids : Place(a) \in Int /\ (Place(a) = Place(b) => a = b)

\* The blocking keys, one after another.
LEMMA BlockingKeysAreSeq == IsSeq(BlockingKeys)
<1> DEFINE unique == Those(FieldOrder, {f \in FieldNames : FieldSpec[f].unique})
           each == [i \in DOMAIN unique |-> <<unique[i]>>]
<1>1. BlockingKeys = DeclaredBlocking \/ BlockingKeys = each
  BY DEF BlockingKeys
<1>2. IsSeq(DeclaredBlocking)
  BY SchemaAssumption DEF SchemaAssumption, IsSeq
<1>3. IsSeq(unique)
  BY FieldsAreSeq, ThoseIs
<1> HIDE DEF unique
<1>4. each = [i \in DOMAIN unique |-> each[i]]
  OBVIOUS
<1> HIDE DEF each
<1>5. IsSeq(each)
  BY <1>3, <1>4, SeqChanged
<1>6. QED
  BY <1>1, <1>2, <1>5

\* How alike two records are.
LEMMA MatchScoreIsNat ==
  ASSUME NEW left, NEW right
  PROVE  MatchScore(left, right) \in Nat
<1> DEFINE shared == Shared(left, right)
           agreed == Agreed(left, right)
<1>1. IsFiniteSet(shared) /\ IsFiniteSet(agreed)
  BY FieldsFinite, FS_Subset DEF Shared, Agreed
<1>2. MatchScore(left, right) = IF shared = {} THEN 0 ELSE (Whole * WeightOf(agreed)) \div WeightOf(shared)
  BY DEF MatchScore, Whole
<1> HIDE DEF shared, agreed
<1>3. WeightOf(agreed) \in Nat /\ WeightOf(shared) \in Nat /\ (shared # {} => WeightOf(shared) # 0)
  BY <1>1, WeightOfIs
<1>4. Whole * WeightOf(agreed) \in Nat
  BY <1>3, WholeIsNat
<1>5. shared # {} => (Whole * WeightOf(agreed)) \div WeightOf(shared) \in Nat
  BY <1>3, <1>4, QuotientIsNat
<1>6. QED
  BY <1>2, <1>5

\* What two records have in common, and the first record of their bucket.
BlocksOf(records, i, j) ==
  {k \in DOMAIN BlockingKeys : SameBucket(BlockingKeys[k], records[i].values, records[j].values)}
BucketOf(records, block, i) ==
  {b \in DOMAIN records : SameBucket(BlockingKeys[block], records[b].values, records[i].values)}
PairAt(records, i, j) ==
  LET block == Min(BlocksOf(records, i, j))
  IN  [left |-> records[i].id, right |-> records[j].id, block |-> block,
       bucket |-> Min(BucketOf(records, block, i)),
       score |-> MatchScore(records[i].values, records[j].values),
       decision |-> DecidePair(records[i].values, records[j].values)]

\* A pair is of two records, and sorts by numbers.
LEMMA PairIs ==
  ASSUME NEW records, IsSeq(records), NEW p \in CandidatePairs(records)
  PROVE  \E i, j \in DOMAIN records :
           /\ p = PairAt(records, i, j) /\ p.left = records[i].id /\ p.right = records[j].id
           /\ p.score \in Int /\ p.block \in Int /\ p.bucket \in Int
<1>1. \E i, j \in DOMAIN records : BlocksOf(records, i, j) # {} /\ p = PairAt(records, i, j)
  <2> DEFINE pairs == {q \in (DOMAIN records) \X (DOMAIN records) :
                          /\ Place(records[q[1]].id) < Place(records[q[2]].id)
                          /\ BlocksOf(records, q[1], q[2]) # {}}
  <2>1. CandidatePairs(records) = {PairAt(records, q[1], q[2]) : q \in pairs}
    BY DEF CandidatePairs, PairAt, BlocksOf, BucketOf
  <2>2. PICK q \in pairs : p = PairAt(records, q[1], q[2])
    BY <2>1
  <2>3. QED
    BY <2>2
<1>2. PICK i \in DOMAIN records : \E j \in DOMAIN records : BlocksOf(records, i, j) # {} /\ p = PairAt(records, i, j)
  BY <1>1
<1>3. PICK j \in DOMAIN records : BlocksOf(records, i, j) # {} /\ p = PairAt(records, i, j)
  BY <1>2
<1> DEFINE blocks == BlocksOf(records, i, j)
           block  == Min(blocks)
           bucket == BucketOf(records, block, i)
<1>4. blocks \subseteq DOMAIN BlockingKeys /\ bucket \subseteq DOMAIN records
  BY DEF BlocksOf, BucketOf
<1>5. IsFiniteSet(blocks) /\ IsFiniteSet(bucket) /\ blocks \subseteq Int /\ bucket \subseteq Int
  <2>1. IsFiniteSet(DOMAIN BlockingKeys) /\ IsFiniteSet(DOMAIN records)
    BY BlockingKeysAreSeq, PlacesFinite
  <2>2. DOMAIN BlockingKeys \subseteq Int /\ DOMAIN records \subseteq Int
    BY BlockingKeysAreSeq, SeqIs
  <2> HIDE DEF blocks, bucket
  <2>3. QED
    BY <1>4, <2>1, <2>2, FS_Subset
<1>6. block \in blocks
  <2>1. blocks # {}
    BY <1>3
  <2> HIDE DEF blocks
  <2>2. QED
    BY <1>5, <2>1, LeastAndGreatest
<1>7. i \in bucket
  <2>1. SameBucket(BlockingKeys[block], records[i].values, records[j].values)
    BY <1>6 DEF BlocksOf
  <2> HIDE DEF block
  <2>2. SameBucket(BlockingKeys[block], records[i].values, records[i].values)
    BY <2>1 DEF SameBucket, Shared, Alike
  <2>3. QED
    BY <2>2 DEF BucketOf
<1> HIDE DEF blocks, block, bucket
<1>8. Min(bucket) \in bucket
  BY <1>5, <1>7, LeastAndGreatest
<1>9. /\ p.left = records[i].id /\ p.right = records[j].id /\ p.block = block /\ p.bucket = Min(bucket)
      /\ p.score = MatchScore(records[i].values, records[j].values)
  BY <1>3 DEF PairAt, block, blocks, bucket
<1>10. p.score \in Int /\ p.block \in Int /\ p.bucket \in Int
  <2>1. p.score \in Nat
    BY <1>9, MatchScoreIsNat
  <2>2. block \in Int /\ Min(bucket) \in Int
    BY <1>5, <1>6, <1>8
  <2>3. p.block \in Int /\ p.bucket \in Int
    BY <1>9, <2>2
  <2>4. QED
    BY <2>1, <2>3
<1>11. QED
  BY <1>3, <1>9, <1>10

\* Five measures, one after the other, sort what the last two tell apart.
FiveSort(S, a, b, c, d, e, R) ==
  /\ \A x \in S : a[x] \in Int /\ b[x] \in Int /\ c[x] \in Int /\ d[x] \in Int /\ e[x] \in Int
  /\ \A x, y \in S : d[x] = d[y] /\ e[x] = e[y] => x = y
  /\ \A x, y \in S : <<x, y>> \in R <=>
       \/ a[x] < a[y]
       \/ a[x] = a[y] /\ b[x] < b[y]
       \/ a[x] = a[y] /\ b[x] = b[y] /\ c[x] < c[y]
       \/ a[x] = a[y] /\ b[x] = b[y] /\ c[x] = c[y] /\ d[x] < d[y]
       \/ a[x] = a[y] /\ b[x] = b[y] /\ c[x] = c[y] /\ d[x] = d[y] /\ e[x] < e[y]

\* What they sort is in order.
LEMMA FiveOrder ==
  ASSUME NEW S, NEW a, NEW b, NEW c, NEW d, NEW e, NEW R, FiveSort(S, a, b, c, d, e, R)
  PROVE  Orders(R, S)
<1>1. \A x \in S : <<x, x>> \notin R
  BY DEF FiveSort
<1>2. ASSUME NEW x \in S, NEW y \in S, NEW z \in S, <<x, y>> \in R, <<y, z>> \in R
      PROVE  <<x, z>> \in R
  BY <1>2 DEF FiveSort
<1>3. \A x, y \in S : x # y => <<x, y>> \in R \/ <<y, x>> \in R
  BY DEF FiveSort
<1>4. QED
  BY <1>1, <1>2, <1>3 DEF Orders

\* The pairs match_records gives are of the records it is given.
LEMMA MatchesAre ==
  ASSUME NEW records, IsSeq(records), Apart(records),
         SortApart({records[i].id : i \in DOMAIN records})
  PROVE  \A i \in DOMAIN MatchRecords(records) :
           /\ MatchRecords(records)[i].left \in {records[j].id : j \in DOMAIN records}
           /\ MatchRecords(records)[i].right \in {records[j].id : j \in DOMAIN records}
<1> DEFINE pairs == CandidatePairs(records)
           ids == {records[j].id : j \in DOMAIN records}
           rank(p) == <<-p.score, p.block, p.bucket, Place(p.left), Place(p.right)>>
           before(p, q) == \E i \in 1..5 : /\ rank(p)[i] < rank(q)[i]
                                           /\ \A j \in 1..(i - 1) : rank(p)[j] = rank(q)[j]
           at(i) == CHOOSE p \in pairs : Cardinality({q \in pairs : before(q, p)}) = i - 1
           R == {p \in pairs \X pairs : before(p[1], p[2])}
           matches == MatchRecords(records)
<1>1. IsFiniteSet(pairs)
  BY PairsFinite
<1>2. matches = [i \in 1..Cardinality(pairs) |-> at(i)]
  BY Zenon DEF MatchRecords, InOrder
<1>3. \A p, q \in pairs : <<p, q>> \in R <=> before(p, q)
  OBVIOUS
<1>4. \A p \in pairs : \E i, j \in DOMAIN records :
           /\ p = PairAt(records, i, j) /\ p.left = records[i].id /\ p.right = records[j].id
           /\ p.score \in Int /\ p.block \in Int /\ p.bucket \in Int
  BY PairIs
<1>5. \A p \in pairs : p.left \in ids /\ p.right \in ids /\ p.score \in Int /\ p.block \in Int /\ p.bucket \in Int
  BY <1>4
<1>6. \A p, q \in pairs : p.left = q.left /\ p.right = q.right => p = q
  <2> SUFFICES ASSUME NEW p \in pairs, NEW q \in pairs, p.left = q.left, p.right = q.right PROVE p = q
    OBVIOUS
  <2>1. PICK i \in DOMAIN records : \E j \in DOMAIN records :
           p = PairAt(records, i, j) /\ p.left = records[i].id /\ p.right = records[j].id
    BY <1>4
  <2>2. PICK j \in DOMAIN records : p = PairAt(records, i, j) /\ p.left = records[i].id /\ p.right = records[j].id
    BY <2>1
  <2>3. PICK k \in DOMAIN records : \E l \in DOMAIN records :
           q = PairAt(records, k, l) /\ q.left = records[k].id /\ q.right = records[l].id
    BY <1>4
  <2>4. PICK l \in DOMAIN records : q = PairAt(records, k, l) /\ q.left = records[k].id /\ q.right = records[l].id
    BY <2>3
  <2>5. i = k /\ j = l
    BY <2>2, <2>4 DEF Apart
  <2>6. QED
    BY <2>2, <2>4, <2>5
<1> DEFINE a == [p \in pairs |-> -p.score]
           b == [p \in pairs |-> p.block]
           c == [p \in pairs |-> p.bucket]
           d == [p \in pairs |-> Place(p.left)]
           e == [p \in pairs |-> Place(p.right)]
<1>7. ASSUME NEW p \in pairs
      PROVE  a[p] \in Int /\ b[p] \in Int /\ c[p] \in Int /\ d[p] \in Int /\ e[p] \in Int
  <2>1. a[p] \in Int
    BY <1>5
  <2>2. b[p] \in Int /\ c[p] \in Int
    BY <1>5
  <2>3. d[p] \in Int /\ e[p] \in Int
    <3>1. p.left \in ids /\ p.right \in ids
      BY <1>5
    <3>2. d[p] = Place(p.left) /\ e[p] = Place(p.right)
      OBVIOUS
    <3> HIDE DEF ids, d, e
    <3>3. SortApart(ids)
      BY DEF ids
    <3>4. QED
      BY <3>1, <3>2, <3>3 DEF SortApart
  <2>4. QED
    BY <2>1, <2>2, <2>3
<1>8. ASSUME NEW p \in pairs, NEW q \in pairs, d[p] = d[q], e[p] = e[q]
      PROVE  p = q
  <2>1. Place(p.left) = Place(q.left) /\ Place(p.right) = Place(q.right)
    BY <1>8
  <2>2. p.left \in ids /\ p.right \in ids /\ q.left \in ids /\ q.right \in ids
    BY <1>5
  <2>3. SortApart(ids)
    OBVIOUS
  <2> HIDE DEF ids, d, e
  <2>4. p.left = q.left /\ p.right = q.right
    BY <2>1, <2>2, <2>3 DEF SortApart
  <2>5. QED
    BY <1>6, <2>4
<1>9. ASSUME NEW p \in pairs, NEW q \in pairs
      PROVE  <<p, q>> \in R <=>
           \/ a[p] < a[q]
           \/ a[p] = a[q] /\ b[p] < b[q]
           \/ a[p] = a[q] /\ b[p] = b[q] /\ c[p] < c[q]
           \/ a[p] = a[q] /\ b[p] = b[q] /\ c[p] = c[q] /\ d[p] < d[q]
           \/ a[p] = a[q] /\ b[p] = b[q] /\ c[p] = c[q] /\ d[p] = d[q] /\ e[p] < e[q]
  <2> DEFINE r(x) == <<a[x], b[x], c[x], d[x], e[x]>>
  <2>1. rank(p) = r(p) /\ rank(q) = r(q)
    OBVIOUS
  <2>2. before(p, q) <=> \E i \in 1..5 : r(p)[i] < r(q)[i] /\ \A j \in 1..(i - 1) : r(p)[j] = r(q)[j]
    BY <2>1
  <2> HIDE DEF a, b, c, d, e, R, before, pairs
  <2>3. /\ 1..5 = {1, 2, 3, 4, 5} /\ 1..(1 - 1) = {} /\ 1..(2 - 1) = {1} /\ 1..(3 - 1) = {1, 2}
        /\ 1..(4 - 1) = {1, 2, 3} /\ 1..(5 - 1) = {1, 2, 3, 4}
    OBVIOUS
  <2>4. \A x : r(x)[1] = a[x] /\ r(x)[2] = b[x] /\ r(x)[3] = c[x] /\ r(x)[4] = d[x] /\ r(x)[5] = e[x]
    OBVIOUS
  <2> HIDE DEF r
  <2>5. before(p, q) <=>
           \/ r(p)[1] < r(q)[1]
           \/ r(p)[1] = r(q)[1] /\ r(p)[2] < r(q)[2]
           \/ r(p)[1] = r(q)[1] /\ r(p)[2] = r(q)[2] /\ r(p)[3] < r(q)[3]
           \/ r(p)[1] = r(q)[1] /\ r(p)[2] = r(q)[2] /\ r(p)[3] = r(q)[3] /\ r(p)[4] < r(q)[4]
           \/ r(p)[1] = r(q)[1] /\ r(p)[2] = r(q)[2] /\ r(p)[3] = r(q)[3] /\ r(p)[4] = r(q)[4] /\ r(p)[5] < r(q)[5]
    BY <2>2, <2>3
  <2>6. QED
    BY <1>3, <2>4, <2>5
<1> HIDE DEF a, b, c, d, e, R, before
<1>10. Orders(R, pairs)
  <2> HIDE DEF pairs
  <2>1. \A x \in pairs : a[x] \in Int /\ b[x] \in Int /\ c[x] \in Int /\ d[x] \in Int /\ e[x] \in Int
    BY <1>7
  <2>2. \A x, y \in pairs : d[x] = d[y] /\ e[x] = e[y] => x = y
    BY <1>8
  <2>3. \A x, y \in pairs : <<x, y>> \in R <=>
           \/ a[x] < a[y]
           \/ a[x] = a[y] /\ b[x] < b[y]
           \/ a[x] = a[y] /\ b[x] = b[y] /\ c[x] < c[y]
           \/ a[x] = a[y] /\ b[x] = b[y] /\ c[x] = c[y] /\ d[x] < d[y]
           \/ a[x] = a[y] /\ b[x] = b[y] /\ c[x] = c[y] /\ d[x] = d[y] /\ e[x] < e[y]
    BY <1>9, Zenon
  <2>4. FiveSort(pairs, a, b, c, d, e, R)
    BY <2>1, <2>2, <2>3, Zenon DEF FiveSort
  <2>5. QED
    BY <2>4, FiveOrder
<1>11. \A i \in 1..Cardinality(pairs) : at(i) \in pairs
  <2> SUFFICES ASSUME NEW i \in 1..Cardinality(pairs) PROVE at(i) \in pairs
    OBVIOUS
  <2> HIDE DEF pairs
  <2>1. PICK x \in pairs : Cardinality(Before(R, pairs, x)) = i - 1
    BY <1>1, <1>10, OrderRanks
  <2>2. Before(R, pairs, x) = {g \in pairs : before(g, x)}
    BY <1>3 DEF Before
  <2>3. QED
    BY <2>1, <2>2
<1> HIDE DEF at, matches, pairs, ids
<1>12. \A i \in DOMAIN matches : matches[i] \in pairs
  BY <1>2, <1>11
<1>13. \A i \in DOMAIN matches : matches[i].left \in ids /\ matches[i].right \in ids
  BY <1>5, <1>12
<1>14. QED
  BY <1>13 DEF matches, ids

(*********************** where the merges end ******************************)

\* Every chain of merges among these rows ends, and only one way.
Rooted(m, I, E) ==
  /\ DOMAIN m \subseteq I /\ \A x \in DOMAIN m : m[x] \in I
  /\ \A x \in I : E[x] \in I \ DOMAIN m /\ E[x] = IF x \in DOMAIN m THEN E[m[x]] ELSE x
  /\ \A D \in SUBSET I : \A F :
       /\ \A x \in D : x \in DOMAIN m => m[x] \in D
       /\ \A x \in D : F[x] = IF x \in DOMAIN m THEN F[m[x]] ELSE x
       => \A x \in D : F[x] = E[x]

\* Rows nobody merged are their own ends.
LEMMA RootedFirst ==
  ASSUME NEW m, DOMAIN m = {}, NEW I
  PROVE  Rooted(m, I, [x \in I |-> x])
BY DEF Rooted

\* _root finds the end.
LEMMA RootIs ==
  ASSUME NEW m, NEW I, NEW E, Rooted(m, I, E), NEW id \in I
  PROVE  Root(m, id) = E[id] /\ E[id] \in I \ DOMAIN m
<1> DEFINE ids == {id} \cup DOMAIN m \cup Range(m)
           is(f) == f = [x \in ids |-> IF x \in DOMAIN m THEN f[m[x]] ELSE x]
           end == CHOOSE f : is(f)
<1>1. Root(m, id) = end[id]
  BY DEF Root
<1>2. ids \in SUBSET I /\ \A x \in ids : x \in DOMAIN m => m[x] \in ids
  BY DEF Rooted, Range
<1>3. id \in ids
  OBVIOUS
<1> HIDE DEF ids
<1>4. \E f : is(f)
  <2> DEFINE f == [x \in ids |-> E[x]]
  <2>1. f = [x \in ids |-> IF x \in DOMAIN m THEN f[m[x]] ELSE x]
    <3>1. \A x \in ids : f[x] = IF x \in DOMAIN m THEN f[m[x]] ELSE x
      BY <1>2 DEF Rooted
    <3>2. f = [x \in ids |-> f[x]]
      OBVIOUS
    <3> HIDE DEF f
    <3>3. QED
      BY <3>1, <3>2
  <2>2. QED
    BY <2>1
<1>5. is(end)
  BY <1>4
<1> HIDE DEF end
<1>6. \A x \in ids : end[x] = IF x \in DOMAIN m THEN end[m[x]] ELSE x
  BY <1>5
<1> HIDE DEF is
<1>7. end[id] = E[id]
  BY <1>2, <1>3, <1>6 DEF Rooted
<1>8. QED
  BY <1>1, <1>7 DEF Rooted

\* Two ends become one.
LEMMA RootedMerge ==
  ASSUME NEW m, NEW I, NEW E, Rooted(m, I, E), NEW k \in I \ DOMAIN m, NEW o \in I \ DOMAIN m, o # k
  PROVE  Rooted(Put(m, o, k), I, [x \in I |-> IF E[x] = o THEN k ELSE E[x]])
<1> DEFINE into == Put(m, o, k)
           ends == [x \in I |-> IF E[x] = o THEN k ELSE E[x]]
<1>1. DOMAIN into = DOMAIN m \cup {o} /\ into[o] = k /\ \A x \in DOMAIN m : into[x] = m[x]
  BY DEF Put
<1>2. \A x \in I : ends[x] = IF E[x] = o THEN k ELSE E[x]
  OBVIOUS
<1> HIDE DEF into, ends
<1>3. E[o] = o /\ E[k] = k
  BY DEF Rooted
<1>4. DOMAIN into \subseteq I /\ \A x \in DOMAIN into : into[x] \in I
  BY <1>1 DEF Rooted
<1>5. \A x \in I : ends[x] \in I \ DOMAIN into
  BY <1>1, <1>2 DEF Rooted
<1>6. \A x \in I : ends[x] = IF x \in DOMAIN into THEN ends[into[x]] ELSE x
  <2> SUFFICES ASSUME NEW x \in I PROVE ends[x] = IF x \in DOMAIN into THEN ends[into[x]] ELSE x
    OBVIOUS
  <2>1. CASE x = o
    BY <1>1, <1>2, <1>3, <2>1
  <2>2. CASE x # o /\ x \in DOMAIN m
    <3>1. m[x] \in I /\ E[x] = E[m[x]] /\ into[x] = m[x]
      BY <1>1, <2>2 DEF Rooted
    <3>2. QED
      BY <1>1, <1>2, <2>2, <3>1
  <2>3. CASE x # o /\ x \notin DOMAIN m
    <3>1. E[x] = x
      BY <2>3 DEF Rooted
    <3>2. QED
      BY <1>1, <1>2, <2>3, <3>1
  <2>4. QED
    BY <2>1, <2>2, <2>3
<1>7. ASSUME NEW D \in SUBSET I, NEW F,
             \A x \in D : x \in DOMAIN into => into[x] \in D,
             \A x \in D : F[x] = IF x \in DOMAIN into THEN F[into[x]] ELSE x
      PROVE  \A x \in D : F[x] = ends[x]
  <2> DEFINE H == [x \in D |-> IF E[x] = o THEN (IF F[x] = k THEN o ELSE k) ELSE F[x]]
  <2>1. \A x \in D : H[x] = IF E[x] = o THEN (IF F[x] = k THEN o ELSE k) ELSE F[x]
    OBVIOUS
  <2> HIDE DEF H
  <2>2. \A x \in D : x \in DOMAIN m => m[x] \in D
    BY <1>1, <1>7
  <2>3. \A x \in D : H[x] = IF x \in DOMAIN m THEN H[m[x]] ELSE x
    <3> SUFFICES ASSUME NEW x \in D PROVE H[x] = IF x \in DOMAIN m THEN H[m[x]] ELSE x
      OBVIOUS
    <3>1. CASE x \in DOMAIN m
      <4>1. x \in DOMAIN into /\ into[x] = m[x] /\ m[x] \in D
        BY <1>1, <2>2, <3>1
      <4>2. E[x] = E[m[x]]
        BY <3>1 DEF Rooted
      <4>3. F[x] = F[m[x]]
        BY <1>7, <4>1
      <4>4. QED
        BY <2>1, <3>1, <4>1, <4>2, <4>3
    <3>2. CASE x = o
      <4>1. k \in D /\ k \notin DOMAIN into
        BY <1>1, <1>7, <3>2
      <4>2. F[k] = k /\ F[o] = F[k]
        BY <1>1, <1>7, <3>2, <4>1
      <4>3. QED
        BY <1>3, <2>1, <3>2, <4>2
    <3>3. CASE x # o /\ x \notin DOMAIN m
      <4>1. E[x] = x /\ x \notin DOMAIN into
        BY <1>1, <3>3 DEF Rooted
      <4>2. F[x] = x
        BY <1>7, <4>1
      <4>3. QED
        BY <2>1, <3>3, <4>1, <4>2
    <3>4. QED
      BY <3>1, <3>2, <3>3
  <2>4. \A x \in D : H[x] = E[x]
    BY <2>2, <2>3 DEF Rooted
  <2>5. QED
    BY <1>2, <2>1, <2>4
<1>8. Rooted(into, I, ends)
  <2>1. \A D \in SUBSET I : \A F :
       /\ \A x \in D : x \in DOMAIN into => into[x] \in D
       /\ \A x \in D : F[x] = IF x \in DOMAIN into THEN F[into[x]] ELSE x
       => \A x \in D : F[x] = ends[x]
    BY <1>7
  <2>2. QED
    BY <1>4, <1>5, <1>6, <2>1 DEF Rooted
<1>9. QED
  BY <1>8 DEF into, ends

(********************** a record and its likes *****************************)

\* The record of a row.
LEMMA RecordIs ==
  ASSUME NEW run, Sound(run), NEW id \in Ids(run)
  PROVE  /\ RecordOf(run, id) \in Range(run.records) /\ RecordOf(run, id).id = id
         /\ Counted(run.cases, RecordOf(run, id))
         /\ \A i \in DOMAIN run.records : run.records[i].id = id => run.records[i] = RecordOf(run, id)
<1> DEFINE record == RecordOf(run, id)
<1>1. \E r \in Range(run.records) : r.id = id
  BY DEF Ids, Range
<1>2. record \in Range(run.records) /\ record.id = id
  BY <1>1 DEF RecordOf
<1> HIDE DEF record
<1>3. PICK j \in DOMAIN run.records : record = run.records[j]
  BY <1>2 DEF Range
<1>4. \A i \in DOMAIN run.records : run.records[i].id = id => i = j
  BY <1>2, <1>3 DEF Sound, Apart
<1>5. Counted(run.cases, record)
  BY <1>3 DEF Sound
<1>6. QED
  BY <1>2, <1>3, <1>4, <1>5 DEF record

\* A run goes with the rows it has.
LEMMA GoesIds ==
  ASSUME NEW base, NEW run, Goes(base, run)
  PROVE  Ids(run) = Ids(base) /\ Sound(run) /\ run.mergedInto = base.mergedInto
BY DEF Goes, SameRows, Ids

\* The record of a row is replaced.
LEMMA SetRecordGoes ==
  ASSUME NEW run, Sound(run), NEW record, Counted(run.cases, record),
         \A i \in DOMAIN run.records : run.records[i].id = record.id => run.records[i].issues = record.issues
  PROVE  Goes(run, SetRecord(run, record)) /\ SetRecord(run, record).cases = run.cases
<1> DEFINE records == [i \in DOMAIN run.records |->
                         IF run.records[i].id = record.id THEN record ELSE run.records[i]]
<1>1. records = [i \in DOMAIN run.records |-> records[i]]
  OBVIOUS
<1>2. SetRecord(run, record) = [run EXCEPT !.records = records]
  BY DEF SetRecord
<1>3. \A i \in DOMAIN run.records : /\ Counted(run.cases, records[i])
                                    /\ records[i].id = run.records[i].id
                                    /\ records[i].issues = run.records[i].issues
  BY DEF Sound
<1> HIDE DEF records
<1>4. QED
  BY <1>1, <1>2, <1>3, RecordsGoes

\* The record kept has what the other one had.
LEMMA FilledCounted ==
  ASSUME NEW cases, NEW keep, Counted(cases, keep), NEW other, IsRecord(other)
  PROVE  LET filled == Filled(keep, other)
         IN  Counted(cases, filled) /\ filled.id = keep.id /\ filled.issues = keep.issues
<1> DEFINE gaps == {f \in DOMAIN other.values : Get(keep.values, f) = None}
           take(mine, theirs) == [f \in DOMAIN mine \cup gaps |-> IF f \in gaps THEN theirs[f] ELSE mine[f]]
           values == take(keep.values, other.values)
           origin == take(keep.origin, other.origin)
           files  == keep.files \o other.files
           filled == Filled(keep, other)
<1>1. DOMAIN keep = RecordFields
  BY DEF Counted, IsRecord
<1>2. filled = [keep EXCEPT !.values = values, !.origin = origin, !.files = files]
  <2>1. "values" \in DOMAIN keep /\ "origin" \in DOMAIN keep /\ "files" \in DOMAIN keep
    BY <1>1 DEF RecordFields
  <2>2. QED
    BY <2>1 DEF Filled
<1>3. DOMAIN values = DOMAIN keep.values \cup gaps /\ DOMAIN origin = DOMAIN keep.origin \cup gaps
  OBVIOUS
<1>4. gaps \subseteq FieldNames
  BY DEF IsRecord
<1> HIDE DEF gaps, values, origin, files, filled
<1>5. /\ DOMAIN filled = RecordFields /\ filled.id = keep.id /\ filled.values = values
      /\ filled.origin = origin /\ filled.issues = keep.issues /\ filled.state = keep.state
      /\ filled.open = keep.open
  BY <1>1, <1>2 DEF RecordFields
<1>6. Counted(cases, filled)
  BY <1>3, <1>4, <1>5 DEF Counted, IsRecord
<1>7. QED
  BY <1>5, <1>6 DEF filled

\* A field on which two records disagree is settled, or asked about.
LEMMA SettleGoes ==
  ASSUME NEW run, Sound(run), NEW overrides, NEW id \in Ids(run), NEW other, NEW theirs, NEW field
  PROVE  Goes(run, SettleField(run, overrides, id, other, theirs, field))
<1> DEFINE keep   == RecordOf(run, id)
           mine   == keep.values[field]
           files  == <<keep.files[1], other.files[1]>>
           winner == Prefer(overrides.authority, files[1], files[2])
           case   == [NoCase EXCEPT !.klass = "CONFLICTING_FACTS", !.recordKey = ShownKey(keep),
                        !.field = field, !.file = files[1], !.blocks = {id},
                        !.options = {<<"value", mine>>, <<"value", theirs>>,
                                     <<"authority", files[1]>>, <<"authority", files[2]>>}]
           record == [keep EXCEPT !.values[field] = theirs]
           after  == SettleField(run, overrides, id, other, theirs, field)
<1>1. after = IF winner = None THEN RaiseAgainst(run, case)
            ELSE IF winner = files[1] THEN run
            ELSE SetRecord(run, record)
  BY DEF SettleField
<1>2. DOMAIN case = DOMAIN NoCase /\ case.children = {}
  BY DEF NoCase
<1>3. Counted(run.cases, keep) /\ keep.id = id
      /\ \A i \in DOMAIN run.records : run.records[i].id = id => run.records[i] = keep
  BY RecordIs
<1> HIDE DEF case, winner, files, keep
<1>4. Counted(run.cases, record) /\ record.id = keep.id /\ record.issues = keep.issues
  <2>1. DOMAIN keep = RecordFields
    BY <1>3 DEF Counted, IsRecord
  <2>2. /\ DOMAIN record = RecordFields /\ record.id = keep.id /\ DOMAIN record.values = DOMAIN keep.values
        /\ record.origin = keep.origin /\ record.issues = keep.issues /\ record.state = keep.state
        /\ record.open = keep.open
    BY <2>1 DEF RecordFields
  <2> HIDE DEF record
  <2>3. QED
    BY <1>3, <2>2 DEF Counted, IsRecord
<1> HIDE DEF record, after
<1>5. Goes(run, RaiseAgainst(run, case))
  BY <1>2, AgainstGoes
<1>6. Goes(run, SetRecord(run, record))
  BY <1>3, <1>4, SetRecordGoes
<1>7. Goes(run, after)
  BY <1>1, <1>5, <1>6, GoesItself
<1>8. QED
  BY <1>7 DEF after

GoesLoop(p, q, base, n, run) == Goes(base, run)
ConflictsSettled == INSTANCE FoldInduction WITH Step <- SettlingStep, Inv <- GoesLoop

\* _merge.
LEMMA MergeSound ==
  ASSUME NEW run, Sound(run), NEW overrides, NEW keep \in Range(run.records), NEW other, IsRecord(other)
  PROVE  LET after == Merge(run, overrides, keep, other)
         IN  /\ Sound(after) /\ Ids(after) = Ids(run)
             /\ after.mergedInto = Put(run.mergedInto, other.id, keep.id)
<1> DEFINE fields == ConflictingFields(keep.values, other.values)
           filled == Filled(keep, other)
           begun  == SetRecord(run, filled)
           pair   == [keep |-> keep, other |-> other]
           done   == ConflictsSettled!Over(overrides, pair, begun, fields)
           into   == Put(done.mergedInto, other.id, keep.id)
           after  == [done EXCEPT !.mergedInto = into]
<1>1. Merge(run, overrides, keep, other) = after
  <2>1. FoldLeft(LAMBDA d, f : SettleField(d, overrides, keep.id, other, other.values[f], f), begun, fields)
          = done
    BY DEF ConflictsSettled!Over, SettlingStep, ConflictsSettled!Unfolding, FoldLeft,
           MapThenFoldSet, ConflictsSettled!Last, Max
  <2> HIDE DEF done, begun, fields
  <2>2. Merge(run, overrides, keep, other) =
          [FoldLeft(LAMBDA d, f : SettleField(d, overrides, keep.id, other, other.values[f], f),
                    begun, fields)
             EXCEPT !.mergedInto = Put(@, other.id, keep.id)]
    BY DEF Merge, begun, fields
  <2>3. QED
    BY <2>1, <2>2
<1>2. PICK j \in DOMAIN run.records : keep = run.records[j]
  BY DEF Range
<1>3. Counted(run.cases, keep) /\ keep.id \in Ids(run)
      /\ \A i \in DOMAIN run.records : run.records[i].id = keep.id => run.records[i] = keep
  BY <1>2 DEF Sound, Ids, Apart
<1>4. Counted(run.cases, filled) /\ filled.id = keep.id /\ filled.issues = keep.issues
  BY <1>3, FilledCounted
<1>5. IsSeq(fields)
  BY FieldsAreSeq, ThoseIs DEF ConflictingFields
<1> HIDE DEF filled, fields
<1>6. Goes(run, begun)
  BY <1>3, <1>4, SetRecordGoes
<1> HIDE DEF begun
<1>7. Sound(begun) /\ Ids(begun) = Ids(run) /\ begun.mergedInto = run.mergedInto
  BY <1>6, GoesIds
<1>8. Goes(begun, done)
  <2>1. ConflictsSettled!Sequence(fields)
    BY <1>5, SeqReached DEF ConflictsSettled!Sequence, ConflictsSettled!Reached
  <2>2. ASSUME NEW d, NEW field, Goes(begun, d)
        PROVE  Goes(begun, SettlingStep(overrides, pair, d, field))
    <3>1. Sound(d) /\ keep.id \in Ids(d)
      BY <1>3, <1>7, <2>2, GoesIds
    <3>2. pair.keep.id = keep.id /\ pair.other = other
      OBVIOUS
    <3> HIDE DEF pair
    <3>3. Goes(d, SettleField(d, overrides, keep.id, other, other.values[field], field))
      BY <3>1, SettleGoes
    <3>4. QED
      BY <2>2, <3>2, <3>3, GoesOn DEF SettlingStep
  <2>3. GoesLoop(overrides, pair, begun, 0, begun)
    BY <1>7, GoesItself DEF GoesLoop
  <2> HIDE DEF done, pair
  <2>4. \A n \in 1..Len(fields) : \A d :
          GoesLoop(overrides, pair, begun, n - 1, d)
            => GoesLoop(overrides, pair, begun, n, SettlingStep(overrides, pair, d, fields[n]))
    BY <2>2 DEF GoesLoop
  <2>5. GoesLoop(overrides, pair, begun, Len(fields), done)
    BY <2>1, <2>3, <2>4, ConflictsSettled!FoldKeeps DEF done
  <2>6. QED
    BY <2>5 DEF GoesLoop
<1>9. Sound(done) /\ Ids(done) = Ids(run) /\ done.mergedInto = run.mergedInto
  BY <1>7, <1>8, GoesIds
<1> HIDE DEF done
<1>10. Shaped(done) /\ DOMAIN done = RunFields
  BY <1>9, FieldsOfRun DEF Sound, Shaped
<1>11. /\ after.cases = done.cases /\ after.records = done.records /\ after.fieldCase = done.fieldCase
       /\ after.sharedCase = done.sharedCase /\ after.valueCase = done.valueCase /\ after.mergedInto = into
  BY <1>10 DEF RunFields
<1>12. Shaped(after)
  <2>1. Shaped([done EXCEPT !["mergedInto"] = into])
    BY <1>10, ShapedNote DEF RunFields
  <2>2. QED
    BY <2>1
<1> HIDE DEF after
<1>13. Sound(after) /\ Ids(after) = Ids(done)
  BY <1>9, <1>11, <1>12 DEF Sound, Filed, Ids
<1>14. QED
  BY <1>1, <1>9, <1>11, <1>13 DEF into

\* The question whether two rows are one.
LEMMA IdentityGoes ==
  ASSUME NEW run, Sound(run), NEW left, NEW right
  PROVE  Goes(run, AskIdentity(run, left, right))
<1> DEFINE case == [NoCase EXCEPT !.klass = "UNCERTAIN_IDENTITY", !.recordKey = ShownKey(left),
             !.file = left.files[1], !.pair = <<RowKey(left), RowKey(right)>>, !.blocks = {left.id, right.id},
             !.options = {<<"identity", "merge">>, <<"identity", "separate">>},
             !.recommended = <<"identity", "separate">>]
<1>1. DOMAIN case = DOMAIN NoCase /\ case.children = {}
  BY DEF NoCase
<1>2. AskIdentity(run, left, right) = RaiseAgainst(run, case)
  BY DEF AskIdentity
<1> HIDE DEF case
<1>3. QED
  BY <1>1, <1>2, AgainstGoes

\* The rows stay, and every merge has its end among them.
Merged(ids, run) == Sound(run) /\ Ids(run) = ids /\ \E E : Rooted(run.mergedInto, ids, E)

\* One pair of _reconcile.
LEMMA PairMerged ==
  ASSUME NEW ids, NEW run, Merged(ids, run), NEW overrides, NEW pair, pair.left \in ids, pair.right \in ids
  PROVE  Merged(ids, ReconcilePair(run, overrides, pair))
<1> DEFINE m     == run.mergedInto
           left  == RecordOf(run, Root(m, pair.left))
           right == RecordOf(run, Root(m, pair.right))
           after == ReconcilePair(run, overrides, pair)
<1>1. \/ after = run
      \/ left.id # right.id /\ after = Merge(run, overrides, left, right)
      \/ after = AskIdentity(run, left, right)
  BY DEF ReconcilePair
<1>2. PICK E : Rooted(m, ids, E)
  BY DEF Merged
<1>3. /\ Root(m, pair.left) \in ids \ DOMAIN m
      /\ Root(m, pair.right) \in ids \ DOMAIN m
  <2>1. Root(m, pair.left) = E[pair.left] /\ E[pair.left] \in ids \ DOMAIN m
    BY <1>2, RootIs
  <2>2. Root(m, pair.right) = E[pair.right] /\ E[pair.right] \in ids \ DOMAIN m
    BY <1>2, RootIs
  <2>3. QED
    BY <2>1, <2>2
<1>4. Sound(run) /\ Ids(run) = ids
  BY DEF Merged
<1>5. /\ left \in Range(run.records) /\ left.id \in ids \ DOMAIN m
      /\ right.id \in ids \ DOMAIN m /\ IsRecord(right)
  BY <1>3, <1>4, RecordIs DEF Counted
<1> HIDE DEF left, right, after
<1>6. CASE after = run
  BY <1>6 DEF after
<1>7. CASE left.id # right.id /\ after = Merge(run, overrides, left, right)
  <2>1. Sound(after) /\ Ids(after) = ids /\ after.mergedInto = Put(m, right.id, left.id)
    BY <1>4, <1>5, <1>7, MergeSound
  <2>2. Rooted(Put(m, right.id, left.id), ids, [x \in ids |-> IF E[x] = right.id THEN left.id ELSE E[x]])
    <3> DEFINE o == right.id
               k == left.id
    <3>1. o \in ids \ DOMAIN m /\ k \in ids \ DOMAIN m /\ o # k
      BY <1>5, <1>7
    <3> HIDE DEF o, k, m
    <3>2. Rooted(Put(m, o, k), ids, [x \in ids |-> IF E[x] = o THEN k ELSE E[x]])
      BY <1>2, <3>1, RootedMerge
    <3>3. QED
      BY <3>2 DEF o, k
  <2>3. Merged(ids, after)
    BY <2>1, <2>2 DEF Merged
  <2>4. QED
    BY <2>3 DEF after
<1>8. CASE after = AskIdentity(run, left, right)
  <2>1. Goes(run, after)
    BY <1>4, <1>8, IdentityGoes
  <2>2. Sound(after) /\ Ids(after) = ids /\ after.mergedInto = m
    BY <1>4, <2>1, GoesIds
  <2>3. Merged(ids, after)
    BY <1>2, <2>2 DEF Merged
  <2>4. QED
    BY <2>3 DEF after
<1>9. QED
  BY <1>1, <1>6, <1>7, <1>8

MergedLoop(p, q, base, n, run) == Merged(Ids(base), run)
PairsMerged == INSTANCE FoldInduction WITH Step <- PairStep, Inv <- MergedLoop

\* The records that are left are as sound as all of them.
LEMMA LeftSound ==
  ASSUME NEW run, Sound(run), NEW S
  PROVE  Sound([run EXCEPT !.records = Those(run.records, S)])
<1> DEFINE left  == Those(run.records, S)
           after == [run EXCEPT !.records = left]
<1>1. DOMAIN run = RunFields /\ Shaped(run) /\ IsSeq(run.records)
  BY FieldsOfRun DEF Sound, Shaped
<1>2. \A i, j \in DOMAIN run.records : run.records[i] = run.records[j] => i = j
  BY DEF Sound, Apart
<1>3. /\ IsSeq(left)
      /\ \A i, j \in DOMAIN left : left[i] = left[j] => i = j
      /\ \A x : (\E i \in DOMAIN left : left[i] = x) <=> x \in S /\ \E i \in DOMAIN run.records : run.records[i] = x
  BY <1>1, <1>2, ThoseOnce
<1> HIDE DEF left
<1>4. \A i \in DOMAIN left : \E k \in DOMAIN run.records : left[i] = run.records[k]
  BY <1>3
<1>5. /\ after.cases = run.cases /\ after.records = left /\ NotesKept(run, after)
      /\ after.applied = run.applied /\ DOMAIN after = RunFields
  BY <1>1 DEF RunFields, NotesKept
<1> HIDE DEF after
<1>6. Shaped(after)
  BY <1>1, <1>3, <1>5, FieldsOfRun DEF Shaped
<1>7. Apart(after.records)
  <2> SUFFICES ASSUME NEW i \in DOMAIN left, NEW j \in DOMAIN left, left[i].id = left[j].id
               PROVE  i = j
    BY <1>5 DEF Apart
  <2>1. PICK k \in DOMAIN run.records : left[i] = run.records[k]
    BY <1>4
  <2>2. PICK l \in DOMAIN run.records : left[j] = run.records[l]
    BY <1>4
  <2>3. k = l
    BY <2>1, <2>2 DEF Sound, Apart
  <2>4. QED
    BY <1>3, <2>1, <2>2, <2>3
<1>8. Filed(after)
  BY <1>5 DEF Sound, Filed, NotesKept
<1>9. \A i \in DOMAIN after.records : Counted(after.cases, after.records[i])
  BY <1>4, <1>5 DEF Sound
<1>10. Sound(after)
  BY <1>6, <1>7, <1>8, <1>9 DEF Sound
<1>11. QED
  BY <1>10 DEF after, left

\* _reconcile.
LEMMA ReconcileSound ==
  ASSUME NEW run, Sound(run), DOMAIN run.mergedInto = {}, SortApart(Ids(run)), NEW overrides
  PROVE  Sound(Reconcile(run, overrides))
<1> DEFINE matches == MatchRecords(run.records)
           done == PairsMerged!Over(overrides, None, run, matches)
           alone == {r \in Range(done.records) : r.id \notin DOMAIN done.mergedInto}
           ids == Ids(run)
<1>1. Reconcile(run, overrides) = [done EXCEPT !.records = Those(done.records, alone)]
  <2>1. Reconcile(run, overrides) = [done EXCEPT !.records = Those(@, alone)]
    BY DEF Reconcile, PairsMerged!Over, PairStep, PairsMerged!Unfolding, FoldLeft, MapThenFoldSet,
           PairsMerged!Last, Max
  <2> HIDE DEF done, alone
  <2>2. QED
    BY <2>1
<1>2. IsSeq(run.records) /\ Apart(run.records)
  BY DEF Sound, Shaped
<1>3. IsSeq(matches)
  BY <1>2, MatchesAreSeq
<1>4. \A i \in DOMAIN matches : matches[i].left \in ids /\ matches[i].right \in ids
  BY <1>2, MatchesAre DEF Ids
<1> HIDE DEF matches, ids
<1>5. PairsMerged!Sequence(matches) /\ DOMAIN matches = 1..Len(matches)
  BY <1>3, SeqReached DEF PairsMerged!Sequence, PairsMerged!Reached
<1>6. Merged(ids, run)
  <2>1. Rooted(run.mergedInto, ids, [x \in ids |-> x])
    BY RootedFirst
  <2>2. QED
    BY <2>1 DEF Merged, ids
<1>7. \A n \in 1..Len(matches) : \A d :
        MergedLoop(overrides, None, run, n - 1, d)
          => MergedLoop(overrides, None, run, n, PairStep(overrides, None, d, matches[n]))
  BY <1>4, <1>5, PairMerged DEF MergedLoop, PairStep, ids
<1>8. MergedLoop(overrides, None, run, 0, run)
  BY <1>6 DEF MergedLoop, ids
<1>9. MergedLoop(overrides, None, run, Len(matches), done)
  BY <1>5, <1>7, <1>8, PairsMerged!FoldKeeps
<1> HIDE DEF done
<1>10. Sound(done)
  BY <1>9 DEF MergedLoop, Merged
<1> HIDE DEF alone
<1>11. Sound([done EXCEPT !.records = Those(done.records, alone)])
  BY <1>10, LeftSound
<1>12. QED
  BY <1>1, <1>11

(************************ the same dates elsewhere *************************)

\* Questions may change in what they recommend.
LEMMA CasesGoes ==
  ASSUME NEW run, Sound(run), NEW cases, Asked(cases), DOMAIN cases = DOMAIN run.cases,
         \A n \in DOMAIN cases : /\ cases[n].blocks = run.cases[n].blocks
                                 /\ cases[n].children = run.cases[n].children
  PROVE  Sound([run EXCEPT !.cases = cases])
<1> DEFINE after == [run EXCEPT !.cases = cases]
<1>1. DOMAIN run = RunFields /\ Shaped(run)
  BY FieldsOfRun DEF Sound, Shaped
<1>2. /\ after.cases = cases /\ after.records = run.records /\ NotesKept(run, after)
      /\ after.applied = run.applied /\ DOMAIN after = RunFields
  BY <1>1 DEF RunFields, NotesKept
<1> HIDE DEF after
<1>3. \A id : Waits(after.cases, id) = Waits(run.cases, id)
  BY <1>2, WaitsSame
<1>4. Shaped(after)
  BY <1>1, <1>2, FieldsOfRun DEF Shaped
<1>5. Filed(after)
  BY <1>2, <1>3 DEF Sound, Filed, NotesKept
<1>6. \A i \in DOMAIN after.records : Counted(after.cases, after.records[i])
  BY <1>2, <1>3 DEF Sound, Counted
<1>7. Apart(after.records)
  BY <1>2 DEF Sound
<1>8. Sound(after)
  BY <1>4, <1>5, <1>6, <1>7 DEF Sound
<1>9. QED
  BY <1>8 DEF after

\* Whatever is found elsewhere, a question counts whom it counted.
LEMMA CrossCheckCounts ==
  ASSUME NEW run, Sound(run), NEW n \in DOMAIN run.cases
  PROVE  /\ DOMAIN CrossCheckCase(run, n) = DOMAIN run.cases[n]
         /\ CrossCheckCase(run, n).blocks = run.cases[n].blocks
         /\ CrossCheckCase(run, n).children = run.cases[n].children
<1>1. CrossCheckCase(run, n) = run.cases[n] \/ \E a, b : CrossCheckCase(run, n) =
               [run.cases[n] EXCEPT !.recommended = a, !.cautioned = b]
  BY DEF CrossCheckCase
<1>2. DOMAIN run.cases[n] = DOMAIN NoCase
  BY DEF Sound, Shaped, Asked
<1>3. {"recommended", "cautioned", "blocks", "children"} \subseteq DOMAIN run.cases[n]
  BY <1>2 DEF NoCase
<1>4. ASSUME NEW a, NEW b, CrossCheckCase(run, n) = [run.cases[n] EXCEPT !.recommended = a, !.cautioned = b]
      PROVE  /\ DOMAIN CrossCheckCase(run, n) = DOMAIN run.cases[n]
             /\ CrossCheckCase(run, n).blocks = run.cases[n].blocks
             /\ CrossCheckCase(run, n).children = run.cases[n].children
  BY <1>3, <1>4
<1>5. QED
  BY <1>1, <1>4

\* _cross_check_formats.
LEMMA CrossCheckSound ==
  ASSUME NEW run, Sound(run)
  PROVE  Sound(CrossCheckFormats(run))
<1> DEFINE cases == [n \in DOMAIN run.cases |-> IF n \in DOMAIN run.formatRows THEN CrossCheckCase(run, n)
                                                                                ELSE run.cases[n]]
<1>1. \A n \in DOMAIN run.cases :
         /\ DOMAIN CrossCheckCase(run, n) = DOMAIN run.cases[n]
         /\ CrossCheckCase(run, n).blocks = run.cases[n].blocks
         /\ CrossCheckCase(run, n).children = run.cases[n].children
  BY CrossCheckCounts
<1>2. \A n \in DOMAIN run.cases : /\ DOMAIN cases[n] = DOMAIN run.cases[n]
                                  /\ cases[n].blocks = run.cases[n].blocks
                                  /\ cases[n].children = run.cases[n].children
  BY <1>1
<1>3. cases = [n \in DOMAIN run.cases |-> cases[n]] /\ DOMAIN cases = DOMAIN run.cases
  OBVIOUS
<1>4. CrossCheckFormats(run) = [run EXCEPT !.cases = cases]
  BY DEF CrossCheckFormats
<1> HIDE DEF cases
<1>5. Asked(cases)
  <2>1. \A n \in DOMAIN run.cases : DOMAIN cases[n] = DOMAIN NoCase
    BY <1>2 DEF Sound, Shaped, Asked
  <2>2. QED
    BY <1>3, <2>1, AskedChanged DEF Sound, Shaped
<1>6. QED
  BY <1>2, <1>3, <1>4, <1>5, CasesGoes

(************************ checking the records *****************************)

\* _attach: a record joins a question.
LEMMA AttachGoes ==
  ASSUME NEW run, Sound(run), NEW id, NEW n \in DOMAIN run.cases
  PROVE  Goes(run, Attach(run, id, n)) /\ Waits(Attach(run, id, n).cases, id) # {}
<1> DEFINE held  == Hold(run, {id}, n)
           case  == [run.cases[n] EXCEPT !.blocks = @ \cup {id}]
           cases == [run.cases EXCEPT ![n] = case]
           after == [held EXCEPT !.cases = cases]
<1>1. DOMAIN run = RunFields /\ Asked(run.cases)
  BY FieldsOfRun DEF Sound, Shaped
<1>2. held.cases = run.cases /\ DOMAIN held = RunFields
  BY <1>1 DEF Hold, RunFields
<1>3. Attach(run, id, n) = after
  <2>1. Attach(run, id, n) = [held EXCEPT !.cases[n].blocks = @ \cup {id}]
    BY DEF Attach
  <2> HIDE DEF held
  <2>2. QED
    BY <1>2, <2>1 DEF RunFields
<1>4. DOMAIN run.cases[n] = DOMAIN NoCase
  BY <1>1 DEF Asked
<1>5. /\ DOMAIN case = DOMAIN NoCase /\ case.blocks = run.cases[n].blocks \cup {id}
      /\ case.children = run.cases[n].children
  BY <1>4 DEF NoCase
<1> HIDE DEF case
<1>6. DOMAIN cases = DOMAIN run.cases /\ cases = [m \in DOMAIN run.cases |-> cases[m]]
      /\ cases[n] = case /\ \A m \in DOMAIN run.cases : m # n => cases[m] = run.cases[m]
  OBVIOUS
<1> HIDE DEF cases, held
<1>7. Asked(cases)
  <2>1. \A m \in DOMAIN run.cases : DOMAIN cases[m] = DOMAIN NoCase
    BY <1>1, <1>5, <1>6 DEF Asked
  <2>2. QED
    BY <1>1, <1>6, <2>1, AskedChanged
<1>8. \A x : Waits(cases, x) = IF x = id THEN Waits(run.cases, x) \cup {n} ELSE Waits(run.cases, x)
  <2> DEFINE before == run.cases
  <2>1. /\ n \in DOMAIN before /\ DOMAIN cases = DOMAIN before
        /\ cases[n].blocks = before[n].blocks \cup {id} /\ cases[n].children = before[n].children
        /\ \A m \in DOMAIN before : m # n => cases[m] = before[m]
    BY <1>5, <1>6
  <2> HIDE DEF before
  <2>2. \A x : Waits(cases, x) = IF x = id THEN Waits(before, x) \cup {n} ELSE Waits(before, x)
    BY <2>1, WaitsBlocks
  <2>3. QED
    BY <2>2 DEF before
<1>9. \A x : Waits(cases, x) = IF x \in {id} THEN Waits(run.cases, x) \cup {n} ELSE Waits(run.cases, x)
  BY <1>8
<1>10. Goes(run, after)
  <2> DEFINE ids == {id}
  <2>1. \A x : Waits(cases, x) = IF x \in ids THEN Waits(run.cases, x) \cup {n} ELSE Waits(run.cases, x)
    BY <1>9
  <2>2. after = [Hold(run, ids, n) EXCEPT !.cases = cases]
    BY DEF held
  <2> HIDE DEF ids, after
  <2>3. QED
    BY <1>6, <1>7, <2>1, <2>2, HoldGoes
<1>11. after.cases = cases
  BY <1>2 DEF RunFields
<1>12. QED
  BY <1>3, <1>8, <1>10, <1>11

\* One issue of one record: the record waits for some question by then.
LEMMA IssueGoes ==
  ASSUME NEW run, Sound(run), NEW id, NEW issue
  PROVE  /\ Goes(run, AskAboutIssue(run, id, issue))
         /\ Waits(AskAboutIssue(run, id, issue).cases, id) # {}
<1> DEFINE record == RecordOf(run, id)
           field  == issue.field
           asked  == IF <<record.files[1], field>> \in DOMAIN run.fieldCase
                       THEN run.fieldCase[<<record.files[1], field>>] ELSE Get(run.fieldCase, <<None, field>>)
           klass  == ClassOf(issue.rule)
           case   == [NoCase EXCEPT !.klass = klass, !.recordKey = ShownKey(record), !.field = field,
                        !.file = record.files[1], !.blocks = {id},
                        !.options = IF klass = "UNRESOLVED_REFERENCE" THEN LookupOptions(field) ELSE {}]
           after  == AskAboutIssue(run, id, issue)
<1>1. after =
        CASE issue.rule = "required" /\ <<id, field>> \in DOMAIN run.valueCase -> run
          [] issue.rule = "required" /\ <<id, field>> \notin DOMAIN run.valueCase /\ asked # None ->
               Attach(run, id, asked)
          [] OTHER -> RaiseAgainst(run, case)
  BY DEF AskAboutIssue
<1>2. DOMAIN case = DOMAIN NoCase /\ case.children = {} /\ case.blocks = {id}
  BY DEF NoCase
<1>3. asked # None => asked \in DOMAIN run.cases
  BY DEF Get, Sound, Filed
<1>4. <<id, field>> \in DOMAIN run.valueCase => Waits(run.cases, id) # {}
  <2> DEFINE k == <<id, field>>
  <2>1. k[1] = id
    OBVIOUS
  <2> HIDE DEF k
  <2>2. k \in DOMAIN run.valueCase => Waits(run.cases, k[1]) # {}
    BY DEF Sound, Filed
  <2>3. QED
    BY <2>1, <2>2 DEF k
<1> HIDE DEF case, asked, after, record, field
<1>5. Goes(run, RaiseAgainst(run, case)) /\ Waits(RaiseAgainst(run, case).cases, id) # {}
  BY <1>2, AgainstGoes
<1>6. asked # None => Goes(run, Attach(run, id, asked)) /\ Waits(Attach(run, id, asked).cases, id) # {}
  BY <1>3, AttachGoes
<1>7. Goes(run, run)
  BY GoesItself
<1>8. Goes(run, after) /\ Waits(after.cases, id) # {}
  BY <1>1, <1>4, <1>5, <1>6, <1>7
<1>9. QED
  BY <1>8 DEF after

\* After one issue the record waits.
IssuesLoop(id, q, base, n, run) == Goes(base, run) /\ (n # 0 => Waits(run.cases, id) # {})
AskingIssuesGoes == INSTANCE FoldInduction WITH Step <- AskIssueStep, Inv <- IssuesLoop

\* The issues of one record in _validate.
LEMMA AskRecordGoes ==
  ASSUME NEW before, NEW run, Sound(run), NEW r
  PROVE  LET after == AskRecordStep(before, None, run, r)
         IN  Goes(run, after) /\ (IssuesOf(before, r) # <<>> => Waits(after.cases, r.id) # {})
<1> DEFINE issues == IssuesOf(before, r)
           id == r.id
           asked == AskingIssuesGoes!Over(id, None, run, issues)
<1>1. AskRecordStep(before, None, run, r) = asked
  BY DEF AskRecordStep, AskingIssuesGoes!Over, AskIssueStep, AskingIssuesGoes!Unfolding, FoldLeft,
         MapThenFoldSet, AskingIssuesGoes!Last, Max
<1>2. IsSeq(issues)
  BY IssuesAreSeq DEF IssuesOf
<1> HIDE DEF issues, id
<1>3. AskingIssuesGoes!Sequence(issues) /\ Len(issues) \in Nat /\ (issues # <<>> => Len(issues) # 0)
  <2>1. AskingIssuesGoes!Sequence(issues)
    BY <1>2, SeqReached DEF AskingIssuesGoes!Sequence, AskingIssuesGoes!Reached
  <2>2. Len(issues) \in Nat /\ (issues # <<>> => Len(issues) # 0)
    BY <1>2 DEF IsSeq
  <2>3. QED
    BY <2>1, <2>2
<1>4. ASSUME NEW n \in 1..Len(issues), NEW d, IssuesLoop(id, None, run, n - 1, d)
      PROVE  IssuesLoop(id, None, run, n, AskIssueStep(id, None, d, issues[n]))
  <2> DEFINE issue == issues[n]
  <2>1. Goes(run, d)
    BY <1>4 DEF IssuesLoop
  <2>2. Sound(d)
    BY <2>1 DEF Goes
  <2> HIDE DEF issue
  <2>3. Goes(d, AskAboutIssue(d, id, issue)) /\ Waits(AskAboutIssue(d, id, issue).cases, id) # {}
    BY <2>2, IssueGoes
  <2>4. Goes(run, AskAboutIssue(d, id, issue))
    BY <2>1, <2>3, GoesOn
  <2>5. IssuesLoop(id, None, run, n, AskAboutIssue(d, id, issue))
    BY <2>3, <2>4 DEF IssuesLoop
  <2>6. QED
    BY <2>5 DEF issue, AskIssueStep
<1>5. IssuesLoop(id, None, run, 0, run)
  BY GoesItself DEF IssuesLoop
<1>6. IssuesLoop(id, None, run, Len(issues), asked)
  BY <1>3, <1>4, <1>5, AskingIssuesGoes!FoldKeeps
<1> HIDE DEF asked
<1>7. Goes(run, asked) /\ (issues # <<>> => Waits(asked.cases, id) # {})
  BY <1>3, <1>6 DEF IssuesLoop
<1>8. QED
  BY <1>1, <1>7 DEF issues, id

\* The records gone through wait if there is anything wrong with them.
RecordsLoop(before, q, base, n, run) ==
  /\ Goes(base, run)
  /\ \A i \in 1..n : IssuesOf(before, before.records[i]) # <<>> => Waits(run.cases, before.records[i].id) # {}
AskingRecordsGoes == INSTANCE FoldInduction WITH Step <- AskRecordStep, Inv <- RecordsLoop

\* A run whose records were checked: what is wrong with one, it waits for.
Checked(run) ==
  Sound(run) /\ \A i \in DOMAIN run.records : run.records[i].issues # <<>> => run.records[i].open # {}

\* The records of a run with the issues found in them.
Found(run) ==
  [run EXCEPT !.records = [i \in DOMAIN run.records |->
                             [run.records[i] EXCEPT !.issues = IssuesOf(run, run.records[i])]]]

\* Finding issues changes nothing else.
LEMMA FoundSound ==
  ASSUME NEW run, Sound(run)
  PROVE  /\ Sound(Found(run)) /\ Found(run).cases = run.cases
         /\ DOMAIN Found(run).records = DOMAIN run.records
         /\ \A i \in DOMAIN run.records : /\ Found(run).records[i].id = run.records[i].id
                                          /\ Found(run).records[i].issues = IssuesOf(run, run.records[i])
<1> DEFINE found(r) == [r EXCEPT !.issues = IssuesOf(run, r)]
           records == [i \in DOMAIN run.records |-> found(run.records[i])]
           checked == [run EXCEPT !.records = records]
<1>1. Found(run) = checked
  BY DEF Found
<1>2. DOMAIN run = RunFields /\ Shaped(run) /\ IsSeq(run.records)
  BY FieldsOfRun DEF Sound, Shaped
<1>4. ASSUME NEW i \in DOMAIN run.records
      PROVE  /\ Counted(run.cases, records[i]) /\ records[i].id = run.records[i].id
             /\ records[i].issues = IssuesOf(run, run.records[i])
  <2> DEFINE r == run.records[i]
             new == found(r)
  <2>1. Counted(run.cases, r) /\ DOMAIN r = RecordFields
    BY DEF Sound, Counted, IsRecord
  <2>2. records[i] = new
    OBVIOUS
  <2> HIDE DEF r, records
  <2>3. /\ DOMAIN new = RecordFields /\ new.id = r.id /\ new.values = r.values /\ new.origin = r.origin
        /\ new.issues = IssuesOf(run, r) /\ new.state = r.state /\ new.open = r.open
    BY <2>1 DEF RecordFields
  <2> HIDE DEF new
  <2>4. Counted(run.cases, new)
    BY <2>1, <2>3 DEF Counted, IsRecord
  <2>5. QED
    BY <2>2, <2>3, <2>4 DEF r
<1>5. records = [i \in DOMAIN run.records |-> records[i]] /\ DOMAIN records = DOMAIN run.records
  OBVIOUS
<1> HIDE DEF records, found
<1>6. /\ checked.cases = run.cases /\ checked.records = records /\ NotesKept(run, checked)
      /\ DOMAIN checked = RunFields
  BY <1>2, RecordsSet
<1>7. Shaped(checked)
  BY <1>2, <1>5, ShapedRecords
<1> HIDE DEF checked
<1>8. Sound(checked)
  <2>1. Apart(checked.records)
    BY <1>4, <1>5, <1>6 DEF Sound, Apart
  <2>2. Filed(checked)
    BY <1>6 DEF Sound, Filed, NotesKept
  <2>3. \A i \in DOMAIN checked.records : Counted(checked.cases, checked.records[i])
    BY <1>4, <1>5, <1>6
  <2>4. QED
    BY <1>7, <2>1, <2>2, <2>3 DEF Sound
<1>9. QED
  BY <1>1, <1>4, <1>5, <1>6, <1>8

\* _validate.
LEMMA ValidateChecked ==
  ASSUME NEW run, Sound(run)
  PROVE  Checked(Validate(run))
<1> DEFINE checked == Found(run)
           asked == AskingRecordsGoes!Over(run, None, checked, run.records)
           N == Len(run.records)
<1>1. Validate(run) = asked
  BY DEF Validate, Found, IssuesOf, AskRecordStep, AskingRecordsGoes!Over, AskingRecordsGoes!Unfolding, FoldLeft,
         MapThenFoldSet, AskingRecordsGoes!Last, Max
<1>2. IsSeq(run.records)
  BY DEF Sound, Shaped
<1>3. AskingRecordsGoes!Sequence(run.records) /\ DOMAIN run.records = 1..N /\ N \in Nat
  BY <1>2, SeqReached, SeqIs DEF AskingRecordsGoes!Sequence, AskingRecordsGoes!Reached
<1>4. /\ Sound(checked) /\ DOMAIN checked.records = DOMAIN run.records
      /\ \A i \in DOMAIN run.records : /\ checked.records[i].id = run.records[i].id
                                       /\ checked.records[i].issues = IssuesOf(run, run.records[i])
  BY FoundSound
<1> HIDE DEF checked, N
<1>5. ASSUME NEW n \in 1..N, NEW d, RecordsLoop(run, None, checked, n - 1, d)
      PROVE  RecordsLoop(run, None, checked, n, AskRecordStep(run, None, d, run.records[n]))
  <2> DEFINE r == run.records[n]
             after == AskRecordStep(run, None, d, r)
  <2>1. Goes(checked, d) /\ Sound(d)
    BY <1>5 DEF RecordsLoop, Goes
  <2> HIDE DEF r
  <2>2. Goes(d, after) /\ (IssuesOf(run, r) # <<>> => Waits(after.cases, r.id) # {})
    BY <2>1, AskRecordGoes
  <2> HIDE DEF after
  <2>3. Goes(checked, after)
    BY <2>1, <2>2, GoesOn
  <2>4. \A id : Waits(d.cases, id) # {} => Waits(after.cases, id) # {}
    BY <2>2 DEF Goes, Grown
  <2>5. ASSUME NEW i \in 1..n, IssuesOf(run, run.records[i]) # <<>>
        PROVE  Waits(after.cases, run.records[i].id) # {}
    <3>1. CASE i = n
      BY <2>2, <2>5, <3>1 DEF r
    <3>2. CASE i # n
      <4>1. i \in 1..(n - 1)
        BY <1>3, <3>2
      <4>2. Waits(d.cases, run.records[i].id) # {}
        BY <1>5, <2>5, <4>1 DEF RecordsLoop
      <4>3. QED
        BY <2>4, <4>2
    <3>3. QED
      BY <3>1, <3>2
  <2>6. RecordsLoop(run, None, checked, n, after)
    BY <2>3, <2>5 DEF RecordsLoop
  <2>7. QED
    BY <2>6 DEF after, r
<1>6. RecordsLoop(run, None, checked, 0, checked)
  BY <1>4, GoesItself DEF RecordsLoop
<1>7. RecordsLoop(run, None, checked, N, asked)
  BY <1>3, <1>5, <1>6, AskingRecordsGoes!FoldKeeps DEF N
<1> HIDE DEF asked
<1>8. Goes(checked, asked) /\ Sound(asked)
  BY <1>7 DEF RecordsLoop, Goes
<1>9. ASSUME NEW i \in DOMAIN asked.records, asked.records[i].issues # <<>>
       PROVE  asked.records[i].open # {}
  <2>1. /\ i \in 1..N /\ asked.records[i].id = run.records[i].id
        /\ asked.records[i].issues = IssuesOf(run, run.records[i])
    BY <1>3, <1>4, <1>8 DEF Goes, SameRows
  <2>2. Waits(asked.cases, run.records[i].id) # {}
    BY <1>7, <1>9, <2>1 DEF RecordsLoop
  <2>3. QED
    BY <1>8, <2>1, <2>2 DEF Sound, Counted
<1>10. Checked(asked)
  BY <1>8, <1>9 DEF Checked
<1>11. QED
  BY <1>1, <1>10

(********************* the rows behind a record ****************************)

\* What a record has of what a row said: all of it; all of it, or something
\* that counts as the same.
Keeps(values, said) == \A f \in FieldNames : Get(said, f) # None => Get(values, f) = Get(said, f)
Follows(values, said) ==
  \A f \in FieldNames : Get(said, f) # None => /\ Get(values, f) # None
                                               /\ Alike(f, Get(values, f), Get(said, f))

\* A record has what its own row said, and agrees with the rows merged into it
\* unless there is a question that it waits for.
SpeaksFor(rows, cases, into, r) ==
  /\ \A b \in rows : b.id = r.id => Keeps(r.values, b.values)
  /\ \/ Waits(cases, r.id) # {}
     \/ \A b \in rows : b.id \in DOMAIN into /\ into[b.id] = r.id => Follows(r.values, b.values)
Upheld(rows, run) ==
  \A i \in DOMAIN run.records : SpeaksFor(rows, run.cases, run.mergedInto, run.records[i])

\* The records say what they said, of the same rows.
Unmoved(base, run) ==
  /\ run.built = base.built /\ DOMAIN run.records = DOMAIN base.records
  /\ \A i \in DOMAIN run.records : /\ run.records[i].id = base.records[i].id
                                   /\ run.records[i].values = base.records[i].values

\* They do, whatever is asked besides.
Carries(base, run) == Unmoved(base, run) /\ Grown(base, run) /\ run.mergedInto = base.mergedInto

\* What is kept stays kept, and agrees.
LEMMA KeptValues ==
  ASSUME NEW u, NEW v, NEW w
  PROVE  /\ Keeps(v, v) /\ (Keeps(v, w) => Follows(v, w))
         /\ Keeps(u, v) /\ Keeps(v, w) => Keeps(u, w)
         /\ Keeps(u, v) /\ Follows(v, w) => Follows(u, w)
BY DEF Keeps, Follows, Alike

\* Records carried over once are carried over again.
LEMMA CarriesOn ==
  ASSUME NEW base, NEW run, Carries(base, run), NEW after, Carries(run, after)
  PROVE  Carries(base, after)
<1>1. Unmoved(base, after)
  BY DEF Carries, Unmoved
<1>2. Grown(base, after)
  BY DEF Carries, Grown
<1>3. QED
  BY <1>1, <1>2 DEF Carries

\* Nothing changes in a run that stays.
LEMMA CarriesItself ==
  ASSUME NEW run
  PROVE  Carries(run, run)
BY DEF Carries, Unmoved, Grown

\* Whom a record speaks for stays so.
LEMMA CarriesUpheld ==
  ASSUME NEW base, NEW run, Carries(base, run), NEW rows, Upheld(rows, base)
  PROVE  Upheld(rows, run)
<1> SUFFICES ASSUME NEW i \in DOMAIN run.records
             PROVE  SpeaksFor(rows, run.cases, run.mergedInto, run.records[i])
  BY DEF Upheld
<1> DEFINE r == run.records[i]
           s == base.records[i]
<1>1. r.id = s.id /\ r.values = s.values /\ run.mergedInto = base.mergedInto
  BY DEF Carries, Unmoved
<1>2. SpeaksFor(rows, base.cases, base.mergedInto, s)
  BY DEF Carries, Unmoved, Upheld
<1> HIDE DEF r, s
<1>3. Waits(base.cases, s.id) \subseteq Waits(run.cases, s.id)
  BY DEF Carries, Grown
<1>4. SpeaksFor(rows, run.cases, run.mergedInto, r)
  BY <1>1, <1>2, <1>3 DEF SpeaksFor
<1>5. QED
  BY <1>4 DEF r

\* A sound run that says what it said carries its records over.
LEMMA GoesCarries ==
  ASSUME NEW base, NEW run, Goes(base, run), Unmoved(base, run)
  PROVE  Carries(base, run)
BY DEF Goes, Carries

\* While nobody named a file to believe, none is.
LEMMA NobodyPreferred ==
  ASSUME NEW left, NEW right
  PROVE  Prefer(<<>>, left, right) = None
<1>1. Len(<<>>) = 0
  BY SeqEmpty
<1>2. ~Contains(<<>>, left) /\ ~Contains(<<>>, right)
  BY <1>1 DEF Contains
<1>3. QED
  BY <1>1, <1>2 DEF Prefer

\* The fields on which two records disagree, one after another.
LEMMA ConflictsAre ==
  ASSUME NEW left, NEW right
  PROVE  /\ IsSeq(ConflictingFields(left, right))
         /\ ConflictingFields(left, right) = <<>> => Conflicted(left, right) = {}
<1> DEFINE there == Conflicted(left, right)
           fields == Those(FieldOrder, there)
<1>1. \A i, j \in DOMAIN FieldOrder : FieldOrder[i] = FieldOrder[j] => i = j
  BY SchemaAssumption DEF SchemaAssumption, IsInjective
<1>2. there \subseteq FieldNames
  BY DEF Conflicted, Shared
<1>3. \A f \in FieldNames : \E i \in DOMAIN FieldOrder : FieldOrder[i] = f
  BY DEF FieldNames, Range
<1> HIDE DEF there
<1>4. /\ IsSeq(fields)
      /\ \A f : (\E i \in DOMAIN fields : fields[i] = f) <=> f \in there /\ \E i \in DOMAIN FieldOrder : FieldOrder[i] = f
  BY <1>1, FieldsAreSeq, ThoseOnce
<1>5. ConflictingFields(left, right) = fields
  BY DEF ConflictingFields, there
<1> HIDE DEF fields
<1>6. ASSUME fields = <<>> PROVE there = {}
  <2>1. DOMAIN fields = {}
    BY <1>6, SeqEmpty
  <2>2. QED
    BY <1>2, <1>3, <1>4, <2>1
<1>7. QED
  BY <1>4, <1>5, <1>6 DEF there

\* What the record kept makes of what both said.
LEMMA FilledFollows ==
  ASSUME NEW keep, IsRecord(keep), NEW other
  PROVE  LET values == Filled(keep, other).values
         IN  /\ Keeps(values, keep.values)
             /\ Conflicted(keep.values, other.values) = {} => Follows(values, other.values)
<1> DEFINE gaps == {f \in DOMAIN other.values : Get(keep.values, f) = None}
           take(mine, theirs) == [f \in DOMAIN mine \cup gaps |-> IF f \in gaps THEN theirs[f] ELSE mine[f]]
           mine == keep.values
           theirs == other.values
           values == take(mine, theirs)
<1>1. Filled(keep, other).values = values
  <2>1. DOMAIN keep = RecordFields
    BY DEF IsRecord
  <2>2. "values" \in DOMAIN keep /\ "origin" \in DOMAIN keep /\ "files" \in DOMAIN keep
    BY <2>1 DEF RecordFields
  <2>3. \A a, b, c : [keep EXCEPT !.values = a, !.origin = b, !.files = c].values = a
    BY <2>2
  <2>4. \E b, c : Filled(keep, other) = [keep EXCEPT !.values = values, !.origin = b, !.files = c]
    BY <2>2 DEF Filled
  <2> HIDE DEF values
  <2>5. QED
    BY <2>3, <2>4
<1>2. \A f : f \in gaps <=> f \in DOMAIN theirs /\ Get(mine, f) = None
  OBVIOUS
<1>3. DOMAIN values = DOMAIN mine \cup gaps
      /\ \A f \in DOMAIN values : values[f] = IF f \in gaps THEN theirs[f] ELSE mine[f]
  OBVIOUS
<1> HIDE DEF gaps, take, values, mine, theirs
<1>4. \A f : Get(values, f) = IF f \in gaps THEN Get(theirs, f) ELSE Get(mine, f)
  BY <1>2, <1>3 DEF Get
<1>5. Keeps(values, mine)
  BY <1>2, <1>4 DEF Keeps
<1>6. ASSUME Conflicted(mine, theirs) = {}, NEW f \in FieldNames, Get(theirs, f) # None
      PROVE  Get(values, f) # None /\ Alike(f, Get(values, f), Get(theirs, f))
  <2>1. CASE f \in gaps
    BY <1>4, <1>6, <2>1 DEF Alike
  <2>2. CASE f \notin gaps
    <3>1. Get(mine, f) # None /\ Get(values, f) = Get(mine, f)
      BY <1>2, <1>4, <1>6, <2>2 DEF Get
    <3>2. f \in Shared(mine, theirs) /\ Get(mine, f) = mine[f] /\ Get(theirs, f) = theirs[f]
      BY <1>6, <3>1 DEF Shared, Get
    <3>3. Alike(f, mine[f], theirs[f])
      BY <1>6, <3>2 DEF Conflicted, Agreed
    <3>4. QED
      BY <3>1, <3>2, <3>3
  <2>3. QED
    BY <2>1, <2>2
<1>7. Conflicted(mine, theirs) = {} => Follows(values, theirs)
  BY <1>6 DEF Follows
<1>8. QED
  BY <1>1, <1>5, <1>7 DEF mine, theirs

\* What agrees with what a row had agrees with the row.
LEMMA FollowsBack ==
  ASSUME NEW u, NEW v, NEW w, Follows(u, v), Keeps(v, w)
  PROVE  Follows(u, w)
BY DEF Follows, Keeps

\* Two rows that one record agrees with do not disagree.
LEMMA FollowedAgree ==
  ASSUME NEW values, NEW a, NEW b, Follows(values, a), Follows(values, b)
  PROVE  Conflicted(a, b) = {}
<1> SUFFICES ASSUME NEW f \in Conflicted(a, b) PROVE FALSE
  OBVIOUS
<1>1. f \in FieldNames /\ Get(a, f) # None /\ Get(b, f) # None /\ ~Alike(f, a[f], b[f])
  BY DEF Conflicted, Shared, Agreed
<1>2. Get(a, f) = a[f] /\ Get(b, f) = b[f]
  BY <1>1 DEF Get
<1>3. Alike(f, Get(values, f), a[f]) /\ Alike(f, Get(values, f), b[f])
  BY <1>1, <1>2 DEF Follows
<1>4. QED
  BY <1>1, <1>3 DEF Alike

(***************** a disagreement that somebody is asked about *************)

\* Records that are the same but for what they wait for.
SameSaid(r, s) == r.id = s.id /\ r.values = s.values

\* Records change in what they wait for at most.
LEMMA RecordsUnmoved ==
  ASSUME NEW run, DOMAIN run = RunFields, NEW records, DOMAIN records = DOMAIN run.records,
         \A i \in DOMAIN run.records : SameSaid(records[i], run.records[i])
  PROVE  Unmoved(run, [run EXCEPT !.records = records])
<1> DEFINE after == [run EXCEPT !.records = records]
<1>1. after.records = records /\ after.built = run.built
  BY DEF RunFields
<1> HIDE DEF after
<1>2. Unmoved(run, after)
  BY <1>1 DEF Unmoved, SameSaid
<1>3. QED
  BY <1>2 DEF after

\* A run that has the same records and rows.
LEMMA SameUnmoved ==
  ASSUME NEW run, NEW after, after.records = run.records, after.built = run.built
  PROVE  Unmoved(run, after)
BY DEF Unmoved

\* One after the other.
LEMMA UnmovedOn ==
  ASSUME NEW base, NEW run, Unmoved(base, run), NEW after, Unmoved(run, after)
  PROVE  Unmoved(base, after)
BY DEF Unmoved

\* Waiting for one question more.
LEMMA HoldUnmoved ==
  ASSUME NEW run, DOMAIN run = RunFields, \A i \in DOMAIN run.records : IsRecord(run.records[i]), NEW ids, NEW n
  PROVE  Unmoved(run, Hold(run, ids, n)) /\ DOMAIN Hold(run, ids, n) = RunFields
<1> DEFINE held(r) == [r EXCEPT !.open = @ \cup {n}]
           records == [i \in DOMAIN run.records |-> IF run.records[i].id \in ids THEN held(run.records[i])
                                                                                 ELSE run.records[i]]
<1>1. Hold(run, ids, n) = [run EXCEPT !.records = records]
  <2>1. "records" \in DOMAIN run
    BY DEF RunFields
  <2>2. QED
    BY <2>1 DEF Hold
<1>2. \A r : IsRecord(r) => SameSaid(held(r), r)
  BY DEF IsRecord, RecordFields, SameSaid
<1>3. \A i \in DOMAIN run.records : records[i] = held(run.records[i]) \/ records[i] = run.records[i]
  OBVIOUS
<1>4. DOMAIN records = DOMAIN run.records
  OBVIOUS
<1> HIDE DEF records, held
<1>5. \A i \in DOMAIN run.records : SameSaid(records[i], run.records[i])
  BY <1>2, <1>3 DEF SameSaid
<1>6. Unmoved(run, [run EXCEPT !.records = records])
  BY <1>4, <1>5, RecordsUnmoved
<1>7. QED
  BY <1>1, <1>6

\* The records of a sound run.
LEMMA SoundRecords ==
  ASSUME NEW run, Sound(run)
  PROVE  DOMAIN run = RunFields /\ \A i \in DOMAIN run.records : IsRecord(run.records[i])
BY FieldsOfRun DEF Sound, Shaped, Counted

\* A question about some records.
LEMMA AgainstUnmoved ==
  ASSUME NEW run, Sound(run), NEW case
  PROVE  Unmoved(run, RaiseAgainst(run, case))
<1> DEFINE raised == Raise(run, case)
           n == Len(run.cases) + 1
<1>1. DOMAIN run = RunFields /\ \A i \in DOMAIN run.records : IsRecord(run.records[i])
  BY SoundRecords
<1>2. DOMAIN raised = RunFields /\ raised.records = run.records /\ raised.built = run.built
  BY <1>1 DEF Raise, RunFields
<1>3. RaiseAgainst(run, case) = Hold(raised, case.blocks, n)
  BY DEF RaiseAgainst
<1> HIDE DEF raised, n
<1>4. Unmoved(raised, Hold(raised, case.blocks, n))
  BY <1>1, <1>2, HoldUnmoved
<1>5. Unmoved(run, raised)
  BY <1>2, SameUnmoved
<1>6. QED
  BY <1>3, <1>4, <1>5, UnmovedOn

\* Where nobody named a file, a field two records disagree on is asked about.
LEMMA SettleAsks ==
  ASSUME NEW run, Sound(run), NEW overrides, overrides.authority = <<>>, NEW id, NEW other, NEW theirs, NEW field
  PROVE  LET after == SettleField(run, overrides, id, other, theirs, field)
         IN  Goes(run, after) /\ Unmoved(run, after) /\ Waits(after.cases, id) # {}
<1> DEFINE keep   == RecordOf(run, id)
           mine   == keep.values[field]
           files  == <<keep.files[1], other.files[1]>>
           winner == Prefer(overrides.authority, files[1], files[2])
           case   == [NoCase EXCEPT !.klass = "CONFLICTING_FACTS", !.recordKey = ShownKey(keep),
                        !.field = field, !.file = files[1], !.blocks = {id},
                        !.options = {<<"value", mine>>, <<"value", theirs>>,
                                     <<"authority", files[1]>>, <<"authority", files[2]>>}]
           record == [keep EXCEPT !.values[field] = theirs]
           after  == SettleField(run, overrides, id, other, theirs, field)
<1>1. after = IF winner = None THEN RaiseAgainst(run, case)
            ELSE IF winner = files[1] THEN run
            ELSE SetRecord(run, record)
  BY DEF SettleField
<1>2. after = RaiseAgainst(run, case)
  <2>1. winner = None
    BY NobodyPreferred
  <2> HIDE DEF winner, case, record, after, files
  <2>2. QED
    BY <1>1, <2>1
<1>3. DOMAIN case = DOMAIN NoCase /\ case.children = {} /\ case.blocks = {id}
  BY DEF NoCase
<1> HIDE DEF case, after, winner, record
<1>4. Goes(run, after) /\ Waits(after.cases, id) # {}
  BY <1>2, <1>3, AgainstGoes
<1>5. Unmoved(run, after)
  BY <1>2, AgainstUnmoved
<1>6. QED
  BY <1>4, <1>5 DEF after

\* After one field the record kept waits.
AsksLoop(overrides, pair, base, n, run) ==
  Goes(base, run) /\ Unmoved(base, run) /\ (n # 0 => Waits(run.cases, pair.keep.id) # {})
ConflictsAsked == INSTANCE FoldInduction WITH Step <- SettlingStep, Inv <- AsksLoop

\* A row behind the record kept agrees with it once the two are one, unless
\* the two disagree.
LEMMA MergeUpheld ==
  ASSUME NEW run, Sound(run), NEW overrides, overrides.authority = <<>>,
         NEW keep \in Range(run.records), NEW other \in Range(run.records), keep.id # other.id,
         NEW rows, Upheld(rows, run)
  PROVE  LET after == Merge(run, overrides, keep, other)
         IN  Upheld(rows, after) /\ after.built = run.built
<1> DEFINE fields == ConflictingFields(keep.values, other.values)
           filled == Filled(keep, other)
           begun  == SetRecord(run, filled)
           pair   == [keep |-> keep, other |-> other]
           done   == ConflictsAsked!Over(overrides, pair, begun, fields)
           into   == Put(done.mergedInto, other.id, keep.id)
           after  == [done EXCEPT !.mergedInto = into]
<1>1. Merge(run, overrides, keep, other) = after
  <2>1. FoldLeft(LAMBDA d, f : SettleField(d, overrides, keep.id, other, other.values[f], f), begun, fields)
          = done
    BY DEF ConflictsAsked!Over, SettlingStep, ConflictsAsked!Unfolding, FoldLeft,
           MapThenFoldSet, ConflictsAsked!Last, Max
  <2> HIDE DEF done, begun, fields
  <2>2. Merge(run, overrides, keep, other) =
          [FoldLeft(LAMBDA d, f : SettleField(d, overrides, keep.id, other, other.values[f], f),
                    begun, fields)
             EXCEPT !.mergedInto = Put(@, other.id, keep.id)]
    BY DEF Merge, begun, fields
  <2>3. QED
    BY <2>1, <2>2
<1>2. PICK j \in DOMAIN run.records : keep = run.records[j]
  BY DEF Range
<1>3. PICK k \in DOMAIN run.records : other = run.records[k]
  BY DEF Range
<1>4. Counted(run.cases, keep) /\ \A i \in DOMAIN run.records : run.records[i].id = keep.id => run.records[i] = keep
  BY <1>2 DEF Sound, Apart
<1>5. IsRecord(keep) /\ IsRecord(other)
  BY <1>2, <1>3, SoundRecords
<1>6. Counted(run.cases, filled) /\ filled.id = keep.id /\ filled.issues = keep.issues
  BY <1>4, <1>5, FilledCounted
<1>7. /\ Keeps(filled.values, keep.values)
      /\ Conflicted(keep.values, other.values) = {} => Follows(filled.values, other.values)
  BY <1>5, FilledFollows
<1>8. IsSeq(fields) /\ (fields = <<>> => Conflicted(keep.values, other.values) = {})
  BY ConflictsAre
<1> HIDE DEF filled, fields
<1>9. Goes(run, begun) /\ begun.cases = run.cases
  BY <1>4, <1>6, SetRecordGoes
<1>10. /\ begun.built = run.built /\ DOMAIN begun.records = DOMAIN run.records
       /\ \A i \in DOMAIN run.records :
            begun.records[i] = IF run.records[i].id = keep.id THEN filled ELSE run.records[i]
  <2>1. DOMAIN run = RunFields
    BY SoundRecords
  <2>2. QED
    BY <1>6, <2>1 DEF SetRecord, RunFields
<1> HIDE DEF begun
<1>11. Goes(begun, done) /\ Unmoved(begun, done) /\ (fields # <<>> => Waits(done.cases, keep.id) # {})
  <2>1. ConflictsAsked!Sequence(fields) /\ Len(fields) \in Nat /\ (fields # <<>> => Len(fields) # 0)
    BY <1>8, SeqReached DEF ConflictsAsked!Sequence, ConflictsAsked!Reached, IsSeq
  <2>2. ASSUME NEW d, Goes(begun, d), Unmoved(begun, d), NEW field
        PROVE  LET next == SettlingStep(overrides, pair, d, field)
               IN  Goes(begun, next) /\ Unmoved(begun, next) /\ Waits(next.cases, pair.keep.id) # {}
    <3> DEFINE next == SettleField(d, overrides, keep.id, other, other.values[field], field)
    <3>1. Sound(d)
      BY <2>2 DEF Goes
    <3>2. Goes(d, next) /\ Unmoved(d, next) /\ Waits(next.cases, keep.id) # {}
      BY <3>1, SettleAsks
    <3>3. SettlingStep(overrides, pair, d, field) = next /\ pair.keep.id = keep.id
      BY DEF SettlingStep
    <3> HIDE DEF next, pair
    <3>4. QED
      BY <2>2, <3>2, <3>3, GoesOn, UnmovedOn
  <2>3. AsksLoop(overrides, pair, begun, 0, begun)
    BY <1>9, GoesItself, SameUnmoved DEF AsksLoop, Goes
  <2>4. pair.keep.id = keep.id
    OBVIOUS
  <2> HIDE DEF done, pair
  <2>5. \A n \in 1..Len(fields) : \A d :
          AsksLoop(overrides, pair, begun, n - 1, d)
            => AsksLoop(overrides, pair, begun, n, SettlingStep(overrides, pair, d, fields[n]))
    BY <2>2 DEF AsksLoop
  <2>6. AsksLoop(overrides, pair, begun, Len(fields), done)
    BY <2>1, <2>3, <2>5, ConflictsAsked!FoldKeeps DEF done
  <2>7. QED
    BY <2>1, <2>4, <2>6 DEF AsksLoop
<1> HIDE DEF done
<1>12. done.mergedInto = run.mergedInto /\ DOMAIN done = RunFields
  <2>1. Sound(done) /\ done.mergedInto = run.mergedInto
    BY <1>9, <1>11 DEF Goes
  <2>2. QED
    BY <2>1, SoundRecords
<1>13. /\ after.cases = done.cases /\ after.records = done.records /\ after.built = done.built
       /\ after.mergedInto = into
  BY <1>12 DEF RunFields
<1>14. /\ DOMAIN into = DOMAIN run.mergedInto \cup {other.id} /\ into[other.id] = keep.id
       /\ \A b \in DOMAIN run.mergedInto : b # other.id => into[b] = run.mergedInto[b]
  BY <1>12 DEF Put
<1> HIDE DEF after, into
<1>15. \A id : Waits(run.cases, id) \subseteq Waits(after.cases, id)
  BY <1>9, <1>11, <1>13 DEF Goes, Grown
<1>16. ASSUME NEW i \in DOMAIN run.records
       PROVE  SpeaksFor(rows, after.cases, after.mergedInto, after.records[i])
  <2> DEFINE r == after.records[i]
             s == run.records[i]
  <2>1. SpeaksFor(rows, run.cases, run.mergedInto, s)
    BY DEF Upheld
  <2>2. r.id = begun.records[i].id /\ r.values = begun.records[i].values
    BY <1>10, <1>11, <1>13 DEF Unmoved
  <2>3. CASE s.id # keep.id
    <3>1. r.id = s.id /\ r.values = s.values
      BY <1>10, <2>2, <2>3
    <3> HIDE DEF r, s
    <3>2. \A b \in rows : b.id \in DOMAIN into /\ into[b.id] = s.id =>
             b.id \in DOMAIN run.mergedInto /\ run.mergedInto[b.id] = s.id
      BY <1>14, <2>3
    <3>3. Waits(run.cases, s.id) \subseteq Waits(after.cases, s.id)
      BY <1>15
    <3>4. SpeaksFor(rows, after.cases, into, r)
      BY <2>1, <3>1, <3>2, <3>3 DEF SpeaksFor
    <3>5. QED
      BY <1>13, <3>4 DEF r
  <2>4. CASE s.id = keep.id
    <3>1. s = keep
      BY <1>4, <2>4
    <3>2. r.id = keep.id /\ r.values = filled.values
      BY <1>6, <1>10, <2>2, <2>4
    <3>3. SpeaksFor(rows, run.cases, run.mergedInto, keep) /\ SpeaksFor(rows, run.cases, run.mergedInto, other)
      BY <1>3, <2>1, <3>1 DEF Upheld
    <3> HIDE DEF r, s
    <3>4. \A b \in rows : b.id = keep.id => Keeps(filled.values, b.values)
      BY <1>7, <3>3, KeptValues DEF SpeaksFor
    <3>5. ASSUME Waits(after.cases, keep.id) = {}, NEW b \in rows, b.id \in DOMAIN into, into[b.id] = keep.id
          PROVE  Follows(filled.values, b.values)
      <4>1. Waits(run.cases, keep.id) = {}
        BY <1>15, <3>5
      <4>2. Conflicted(keep.values, other.values) = {}
        BY <1>8, <1>11, <1>13, <3>5
      <4>3. CASE b.id = other.id
        <5>1. Keeps(other.values, b.values)
          BY <3>3, <4>3 DEF SpeaksFor
        <5>2. QED
          BY <1>7, <4>2, <5>1, FollowsBack
      <4>4. CASE b.id # other.id
        <5>1. b.id \in DOMAIN run.mergedInto /\ run.mergedInto[b.id] = keep.id
          BY <1>14, <3>5, <4>4
        <5>2. Follows(keep.values, b.values)
          BY <3>3, <4>1, <5>1 DEF SpeaksFor
        <5>3. QED
          BY <1>7, <5>2, KeptValues
      <4>5. QED
        BY <4>3, <4>4
    <3>6. SpeaksFor(rows, after.cases, into, r)
      BY <3>2, <3>4, <3>5 DEF SpeaksFor
    <3>7. QED
      BY <1>13, <3>6 DEF r
  <2>5. QED
    BY <2>3, <2>4
<1>17. DOMAIN after.records = DOMAIN run.records /\ after.built = run.built
  BY <1>10, <1>11, <1>13 DEF Unmoved
<1>18. Upheld(rows, after)
  BY <1>16, <1>17 DEF Upheld
<1>19. QED
  BY <1>1, <1>17, <1>18

\* One pair of _reconcile.
LEMMA PairUpheld ==
  ASSUME NEW ids, NEW run, Merged(ids, run), NEW overrides, overrides.authority = <<>>,
         NEW pair, pair.left \in ids, pair.right \in ids, NEW rows, Upheld(rows, run)
  PROVE  LET after == ReconcilePair(run, overrides, pair)
         IN  Upheld(rows, after) /\ after.built = run.built
<1> DEFINE m     == run.mergedInto
           left  == RecordOf(run, Root(m, pair.left))
           right == RecordOf(run, Root(m, pair.right))
           after == ReconcilePair(run, overrides, pair)
<1>1. \/ after = run
      \/ left.id # right.id /\ after = Merge(run, overrides, left, right)
      \/ after = AskIdentity(run, left, right)
  BY DEF ReconcilePair
<1>2. PICK E : Rooted(m, ids, E)
  BY DEF Merged
<1>3. Root(m, pair.left) \in ids /\ Root(m, pair.right) \in ids
  <2>1. Root(m, pair.left) = E[pair.left] /\ E[pair.left] \in ids \ DOMAIN m
    BY <1>2, RootIs
  <2>2. Root(m, pair.right) = E[pair.right] /\ E[pair.right] \in ids \ DOMAIN m
    BY <1>2, RootIs
  <2>3. QED
    BY <2>1, <2>2
<1>4. Sound(run) /\ Ids(run) = ids
  BY DEF Merged
<1>5. left \in Range(run.records) /\ right \in Range(run.records)
  BY <1>3, <1>4, RecordIs
<1> HIDE DEF left, right, after, m
<1>6. CASE after = run
  BY <1>6 DEF after
<1>7. CASE left.id # right.id /\ after = Merge(run, overrides, left, right)
  <2>1. Upheld(rows, after) /\ after.built = run.built
    BY <1>4, <1>5, <1>7, MergeUpheld
  <2>2. QED
    BY <2>1 DEF after
<1>8. CASE after = AskIdentity(run, left, right)
  <2>1. Goes(run, after)
    BY <1>4, <1>8, IdentityGoes
  <2>2. \E case : after = RaiseAgainst(run, case)
    BY <1>8 DEF AskIdentity
  <2>3. Unmoved(run, after)
    BY <1>4, <2>2, AgainstUnmoved
  <2>4. Carries(run, after)
    BY <2>1, <2>3, GoesCarries
  <2>5. Upheld(rows, after) /\ after.built = run.built
    BY <2>3, <2>4, CarriesUpheld DEF Unmoved
  <2>6. QED
    BY <2>5 DEF after
<1>9. QED
  BY <1>1, <1>6, <1>7, <1>8

UpheldLoop(p, rows, base, n, run) ==
  Merged(Ids(base), run) /\ Upheld(rows, run) /\ run.built = base.built
PairStepOf(overrides, rows, run, pair) == ReconcilePair(run, overrides, pair)
PairsUpheld == INSTANCE FoldInduction WITH Step <- PairStepOf, Inv <- UpheldLoop

\* _reconcile, where nobody named a file: whoever a record was merged from, it
\* agrees with them or waits.
LEMMA ReconcileUpheld ==
  ASSUME NEW run, Sound(run), DOMAIN run.mergedInto = {}, SortApart(Ids(run)), run.built = run.records,
         NEW overrides, overrides.authority = <<>>
  PROVE  LET after == Reconcile(run, overrides)
         IN  Upheld(Range(after.built), after)
<1> DEFINE rows == Range(run.built)
           matches == MatchRecords(run.records)
           done == PairsUpheld!Over(overrides, rows, run, matches)
           alone == {r \in Range(done.records) : r.id \notin DOMAIN done.mergedInto}
           ids == Ids(run)
           left == Those(done.records, alone)
           after == [done EXCEPT !.records = left]
<1>1. Reconcile(run, overrides) = after
  <2>1. Reconcile(run, overrides) = [done EXCEPT !.records = Those(@, alone)]
    BY DEF Reconcile, PairsUpheld!Over, PairStepOf, PairsUpheld!Unfolding, FoldLeft, MapThenFoldSet,
           PairsUpheld!Last, Max
  <2> HIDE DEF done, alone
  <2>2. QED
    BY <2>1
<1>2. IsSeq(run.records) /\ Apart(run.records)
  BY DEF Sound, Shaped
<1>3. IsSeq(matches)
  BY <1>2, MatchesAreSeq
<1>4. \A i \in DOMAIN matches : matches[i].left \in ids /\ matches[i].right \in ids
  BY <1>2, MatchesAre DEF Ids
<1>5. Upheld(rows, run)
  <2> SUFFICES ASSUME NEW i \in DOMAIN run.records
               PROVE  SpeaksFor(rows, run.cases, run.mergedInto, run.records[i])
    BY DEF Upheld
  <2>1. \A b \in rows : b.id = run.records[i].id => b = run.records[i]
    BY <1>2 DEF Apart, Range
  <2> HIDE DEF rows
  <2>2. \A b \in rows : b.id = run.records[i].id => Keeps(run.records[i].values, b.values)
    BY <2>1, KeptValues
  <2>3. QED
    BY <2>2 DEF SpeaksFor
<1> HIDE DEF matches, ids, rows
<1>6. PairsUpheld!Sequence(matches) /\ DOMAIN matches = 1..Len(matches)
  BY <1>3, SeqReached DEF PairsUpheld!Sequence, PairsUpheld!Reached
<1>7. Merged(ids, run)
  <2>1. Rooted(run.mergedInto, ids, [x \in ids |-> x])
    BY RootedFirst
  <2>2. QED
    BY <2>1 DEF Merged, ids
<1>8. \A n \in 1..Len(matches) : \A d :
        UpheldLoop(overrides, rows, run, n - 1, d)
          => UpheldLoop(overrides, rows, run, n, PairStepOf(overrides, rows, d, matches[n]))
  <2> SUFFICES ASSUME NEW n \in 1..Len(matches), NEW d, UpheldLoop(overrides, rows, run, n - 1, d)
               PROVE  UpheldLoop(overrides, rows, run, n, PairStepOf(overrides, rows, d, matches[n]))
    OBVIOUS
  <2> DEFINE pair == matches[n]
             next == ReconcilePair(d, overrides, pair)
  <2>1. pair.left \in ids /\ pair.right \in ids
    BY <1>4, <1>6
  <2>2. Merged(ids, d) /\ Upheld(rows, d) /\ d.built = run.built
    BY DEF UpheldLoop, ids
  <2> HIDE DEF pair
  <2>3. Merged(ids, next)
    BY <2>1, <2>2, PairMerged
  <2>4. Upheld(rows, next) /\ next.built = d.built
    BY <2>1, <2>2, PairUpheld
  <2> HIDE DEF next
  <2>5. UpheldLoop(overrides, rows, run, n, next)
    BY <2>2, <2>3, <2>4 DEF UpheldLoop, ids
  <2>6. QED
    BY <2>5 DEF next, pair, PairStepOf
<1>9. UpheldLoop(overrides, rows, run, 0, run)
  BY <1>5, <1>7 DEF UpheldLoop, ids
<1>10. UpheldLoop(overrides, rows, run, Len(matches), done)
  BY <1>6, <1>8, <1>9, PairsUpheld!FoldKeeps
<1> HIDE DEF done, alone
<1>11. Sound(done) /\ Upheld(rows, done) /\ done.built = run.built
  BY <1>10 DEF UpheldLoop, Merged
<1>12. DOMAIN done = RunFields /\ IsSeq(done.records)
  BY <1>11, FieldsOfRun DEF Sound, Shaped
<1>13. \A i \in DOMAIN left : \E k \in DOMAIN done.records : left[i] = done.records[k]
  <2>1. \A i, j \in DOMAIN done.records : done.records[i] = done.records[j] => i = j
    BY <1>11 DEF Sound, Apart
  <2>2. \A x : (\E i \in DOMAIN left : left[i] = x) <=> x \in alone /\ \E i \in DOMAIN done.records : done.records[i] = x
    BY <1>12, <2>1, ThoseOnce
  <2> HIDE DEF left
  <2>3. QED
    BY <2>2
<1> HIDE DEF left
<1>14. /\ after.records = left /\ after.cases = done.cases /\ after.mergedInto = done.mergedInto
       /\ after.built = done.built
  BY <1>12 DEF RunFields
<1> HIDE DEF after
<1>15. Upheld(rows, after)
  BY <1>11, <1>13, <1>14 DEF Upheld
<1>16. Upheld(Range(after.built), after)
  BY <1>11, <1>14, <1>15 DEF rows
<1>17. QED
  BY <1>1, <1>16

(*************** the records say the same in the stages after **************)

\* _build keeps the records as built.
LEMMA BuildKeeps ==
  ASSUME NEW run, NEW overrides, NEW sources, Sound(Build(run, overrides, sources))
  PROVE  Build(run, overrides, sources).built = Build(run, overrides, sources).records
<1> DEFINE after == Build(run, overrides, sources)
<1>1. \E done : after = [done EXCEPT !.built = done.records]
  BY DEF Build
<1>2. DOMAIN after = RunFields
  BY SoundRecords
<1> HIDE DEF after
<1>3. PICK done : after = [done EXCEPT !.built = done.records]
  BY <1>1
<1>4. DOMAIN done = RunFields
  BY <1>2, <1>3
<1>5. after.built = after.records
  BY <1>3, <1>4 DEF RunFields
<1>6. QED
  BY <1>5 DEF after

\* Questions change in nothing that counts.
LEMMA CasesCarry ==
  ASSUME NEW run, DOMAIN run = RunFields, NEW cases, DOMAIN cases = DOMAIN run.cases,
         \A n \in DOMAIN run.cases : /\ cases[n].blocks = run.cases[n].blocks
                                     /\ cases[n].children = run.cases[n].children
  PROVE  Carries(run, [run EXCEPT !.cases = cases])
<1> DEFINE after == [run EXCEPT !.cases = cases]
<1>1. /\ after.cases = cases /\ after.records = run.records /\ after.built = run.built
      /\ after.mergedInto = run.mergedInto
  BY DEF RunFields
<1> HIDE DEF after
<1>2. \A id : Waits(cases, id) = Waits(run.cases, id)
  BY WaitsSame
<1>3. Unmoved(run, after)
  BY <1>1, SameUnmoved
<1>4. Carries(run, after)
  BY <1>1, <1>2, <1>3 DEF Carries, Grown
<1>5. QED
  BY <1>4 DEF after

\* The records change in nothing that was said.
LEMMA RecordsCarry ==
  ASSUME NEW run, DOMAIN run = RunFields, NEW records, DOMAIN records = DOMAIN run.records,
         \A i \in DOMAIN run.records : SameSaid(records[i], run.records[i])
  PROVE  Carries(run, [run EXCEPT !.records = records])
<1> DEFINE after == [run EXCEPT !.records = records]
<1>1. after.cases = run.cases /\ after.mergedInto = run.mergedInto
  BY DEF RunFields
<1>2. Unmoved(run, after)
  BY RecordsUnmoved
<1> HIDE DEF after
<1>3. Carries(run, after)
  BY <1>1, <1>2 DEF Carries, Grown
<1>4. QED
  BY <1>3 DEF after

\* _cross_check_formats.
LEMMA CrossCheckCarries ==
  ASSUME NEW run, Sound(run)
  PROVE  Carries(run, CrossCheckFormats(run))
<1> DEFINE cases == [n \in DOMAIN run.cases |-> IF n \in DOMAIN run.formatRows THEN CrossCheckCase(run, n)
                                                                                ELSE run.cases[n]]
<1>1. DOMAIN run = RunFields
  BY SoundRecords
<1>2. CrossCheckFormats(run) = [run EXCEPT !.cases = cases]
  BY DEF CrossCheckFormats
<1>3. \A n \in DOMAIN run.cases : /\ cases[n].blocks = run.cases[n].blocks
                                  /\ cases[n].children = run.cases[n].children
  BY CrossCheckCounts
<1>4. DOMAIN cases = DOMAIN run.cases
  OBVIOUS
<1> HIDE DEF cases
<1>5. QED
  BY <1>1, <1>2, <1>3, <1>4, CasesCarry

\* A record that joins a question.
LEMMA AttachUnmoved ==
  ASSUME NEW run, Sound(run), NEW id, NEW n
  PROVE  Unmoved(run, Attach(run, id, n))
<1> DEFINE held == Hold(run, {id}, n)
<1>1. Unmoved(run, held) /\ DOMAIN held = RunFields
  BY SoundRecords, HoldUnmoved
<1>2. \E cases : Attach(run, id, n) = [held EXCEPT !.cases = cases]
  BY <1>1 DEF Attach, RunFields
<1> HIDE DEF held
<1>3. PICK cases : Attach(run, id, n) = [held EXCEPT !.cases = cases]
  BY <1>2
<1>4. Attach(run, id, n).records = held.records /\ Attach(run, id, n).built = held.built
  BY <1>1, <1>3 DEF RunFields
<1>5. QED
  BY <1>1, <1>4, SameUnmoved, UnmovedOn

\* One issue of one record.
LEMMA IssueCarries ==
  ASSUME NEW run, Sound(run), NEW id, NEW issue
  PROVE  LET after == AskAboutIssue(run, id, issue)
         IN  Goes(run, after) /\ Unmoved(run, after)
<1> DEFINE after == AskAboutIssue(run, id, issue)
<1>1. \/ after = run
      \/ \E n : after = Attach(run, id, n)
      \/ \E case : after = RaiseAgainst(run, case)
  BY DEF AskAboutIssue
<1>2. Goes(run, after)
  BY IssueGoes
<1> HIDE DEF after
<1>3. Unmoved(run, after)
  BY <1>1, AttachUnmoved, AgainstUnmoved, SameUnmoved
<1>4. QED
  BY <1>2, <1>3 DEF after

GoesUnmoved(p, q, base, n, run) == Goes(base, run) /\ Unmoved(base, run)
AskingIssuesCarry == INSTANCE FoldInduction WITH Step <- AskIssueStep, Inv <- GoesUnmoved
AskingRecordsCarry == INSTANCE FoldInduction WITH Step <- AskRecordStep, Inv <- GoesUnmoved

\* The issues of one record.
LEMMA AskRecordCarries ==
  ASSUME NEW before, NEW run, Sound(run), NEW r
  PROVE  LET after == AskRecordStep(before, None, run, r)
         IN  Goes(run, after) /\ Unmoved(run, after)
<1> DEFINE issues == IssuesOf(before, r)
           id == r.id
           asked == AskingIssuesCarry!Over(id, None, run, issues)
<1>1. AskRecordStep(before, None, run, r) = asked
  BY DEF AskRecordStep, AskingIssuesCarry!Over, AskIssueStep, AskingIssuesCarry!Unfolding, FoldLeft,
         MapThenFoldSet, AskingIssuesCarry!Last, Max
<1>2. IsSeq(issues)
  BY IssuesAreSeq DEF IssuesOf
<1> HIDE DEF issues, id
<1>3. AskingIssuesCarry!Sequence(issues)
  BY <1>2, SeqReached DEF AskingIssuesCarry!Sequence, AskingIssuesCarry!Reached
<1>4. ASSUME NEW d, Goes(run, d), Unmoved(run, d), NEW issue
      PROVE  LET next == AskIssueStep(id, None, d, issue) IN Goes(run, next) /\ Unmoved(run, next)
  <2> DEFINE next == AskAboutIssue(d, id, issue)
  <2>1. Sound(d)
    BY <1>4 DEF Goes
  <2>2. Goes(d, next) /\ Unmoved(d, next)
    BY <2>1, IssueCarries
  <2> HIDE DEF next
  <2>3. Goes(run, next) /\ Unmoved(run, next)
    BY <1>4, <2>2, GoesOn, UnmovedOn
  <2>4. QED
    BY <2>3 DEF next, AskIssueStep
<1>5. \A n \in 1..Len(issues) : \A d :
        GoesUnmoved(id, None, run, n - 1, d) =>
          GoesUnmoved(id, None, run, n, AskIssueStep(id, None, d, issues[n]))
  BY <1>4 DEF GoesUnmoved
<1>6. GoesUnmoved(id, None, run, 0, run)
  BY GoesItself, SameUnmoved DEF GoesUnmoved
<1>7. GoesUnmoved(id, None, run, Len(issues), asked)
  BY <1>3, <1>5, <1>6, AskingIssuesCarry!FoldKeeps
<1>8. QED
  BY <1>1, <1>7 DEF GoesUnmoved

\* _validate.
LEMMA ValidateCarries ==
  ASSUME NEW run, Sound(run)
  PROVE  Carries(run, Validate(run))
<1> DEFINE checked == Found(run)
           asked == AskingRecordsCarry!Over(run, None, checked, run.records)
<1>1. Validate(run) = asked
  BY DEF Validate, Found, IssuesOf, AskRecordStep, AskingRecordsCarry!Over, AskingRecordsCarry!Unfolding, FoldLeft,
         MapThenFoldSet, AskingRecordsCarry!Last, Max
<1>2. Sound(checked)
  BY FoundSound
<1>3. Carries(run, checked)
  <2> DEFINE found(r) == [r EXCEPT !.issues = IssuesOf(run, r)]
             records == [i \in DOMAIN run.records |-> found(run.records[i])]
  <2>1. DOMAIN run = RunFields /\ \A i \in DOMAIN run.records : IsRecord(run.records[i])
    BY SoundRecords
  <2>2. \A r : IsRecord(r) => SameSaid(found(r), r)
    BY DEF IsRecord, RecordFields, SameSaid
  <2>3. DOMAIN records = DOMAIN run.records /\ \A i \in DOMAIN run.records : records[i] = found(run.records[i])
    OBVIOUS
  <2>4. checked = [run EXCEPT !.records = records]
    BY DEF Found
  <2> HIDE DEF records, found, checked
  <2>5. QED
    BY <2>1, <2>2, <2>3, <2>4, RecordsCarry
<1> HIDE DEF checked
<1>4. AskingRecordsCarry!Sequence(run.records)
  BY SeqReached DEF Sound, Shaped, AskingRecordsCarry!Sequence, AskingRecordsCarry!Reached
<1>5. ASSUME NEW d, Goes(checked, d), Unmoved(checked, d), NEW r
      PROVE  LET next == AskRecordStep(run, None, d, r) IN Goes(checked, next) /\ Unmoved(checked, next)
  <2> DEFINE next == AskRecordStep(run, None, d, r)
  <2>1. Sound(d)
    BY <1>5 DEF Goes
  <2>2. Goes(d, next) /\ Unmoved(d, next)
    BY <2>1, AskRecordCarries
  <2> HIDE DEF next
  <2>3. Goes(checked, next) /\ Unmoved(checked, next)
    BY <1>5, <2>2, GoesOn, UnmovedOn
  <2>4. QED
    BY <2>3 DEF next
<1>6. \A n \in 1..Len(run.records) : \A d :
        GoesUnmoved(run, None, checked, n - 1, d) =>
          GoesUnmoved(run, None, checked, n, AskRecordStep(run, None, d, run.records[n]))
  BY <1>5 DEF GoesUnmoved
<1>7. GoesUnmoved(run, None, checked, 0, checked)
  BY <1>2, GoesItself, SameUnmoved DEF GoesUnmoved
<1>8. GoesUnmoved(run, None, checked, Len(run.records), asked)
  BY <1>4, <1>6, <1>7, AskingRecordsCarry!FoldKeeps
<1> HIDE DEF asked
<1>9. Carries(checked, asked)
  BY <1>8, GoesCarries DEF GoesUnmoved
<1>10. QED
  BY <1>1, <1>3, <1>9, CarriesOn

(********************** the records when they are done **********************)

\* A record with its state: what it waits for is what counts it unless it is
\* left out, and it waits for something just if it is blocked.
Stated(cases, r) ==
  /\ IsRecord(r) /\ r.state \in {"READY", "BLOCKED", "EXCLUDED"}
  /\ r.state # "EXCLUDED" => r.open = Waits(cases, r.id)
  /\ r.state = "BLOCKED" <=> r.open # {}

\* A run whose records have their states.
Final(run) ==
  /\ Shaped(run) /\ Apart(run.records)
  /\ \A i \in DOMAIN run.records : Stated(run.cases, run.records[i])

\* What a record is when it is done.
LEMMA FinishedStated ==
  ASSUME NEW cases, NEW r, Counted(cases, r), r.issues # <<>> => r.open # {}, NEW excluded
  PROVE  Stated(cases, Finished(r, excluded)) /\ SameSaid(Finished(r, excluded), r)
<1> DEFINE state == StateOf(r, excluded)
           open == IF state = "EXCLUDED" THEN {} ELSE r.open
           done == Finished(r, excluded)
<1>1. DOMAIN r = RecordFields
  BY DEF Counted, IsRecord
<1>2. done = [r EXCEPT !.state = state, !.open = open]
  BY <1>1 DEF Finished, RecordFields
<1>3. state = "EXCLUDED" \/ (state = "BLOCKED" /\ r.open # {}) \/ (state = "READY" /\ r.open = {})
  BY DEF StateOf
<1>4. open = IF state = "EXCLUDED" THEN {} ELSE r.open
  OBVIOUS
<1> HIDE DEF state, open, done
<1>5. /\ DOMAIN done = RecordFields /\ done.id = r.id /\ done.values = r.values /\ done.origin = r.origin
      /\ done.state = state /\ done.open = open
  BY <1>1, <1>2 DEF RecordFields
<1>6. Stated(cases, done)
  BY <1>3, <1>4, <1>5 DEF Stated, Counted, IsRecord
<1>7. QED
  BY <1>5, <1>6 DEF done, SameSaid

\* The records whose state is set.
LEMMA StatedFinal ==
  ASSUME NEW run, Checked(run), NEW excluded
  PROVE  LET stated == [run EXCEPT !.records = [i \in DOMAIN run.records |-> Finished(run.records[i], excluded)]]
         IN  Final(stated) /\ Carries(run, stated)
<1> DEFINE records == [i \in DOMAIN run.records |-> Finished(run.records[i], excluded)]
           stated == [run EXCEPT !.records = records]
<1>1. DOMAIN run = RunFields /\ Shaped(run)
  BY FieldsOfRun DEF Checked, Sound, Shaped
<1>2. ASSUME NEW i \in DOMAIN run.records
      PROVE  Stated(run.cases, records[i]) /\ SameSaid(records[i], run.records[i])
  <2> DEFINE r == run.records[i]
  <2>1. Counted(run.cases, r) /\ (r.issues # <<>> => r.open # {})
    BY DEF Checked, Sound
  <2>2. records[i] = Finished(r, excluded)
    OBVIOUS
  <2> HIDE DEF r, records
  <2>3. QED
    BY <2>1, <2>2, FinishedStated DEF r
<1>3. records = [i \in DOMAIN run.records |-> records[i]] /\ DOMAIN records = DOMAIN run.records
  OBVIOUS
<1> HIDE DEF records
<1>4. stated.cases = run.cases /\ stated.records = records
  BY <1>1, RecordsSet
<1>5. Shaped(stated)
  BY <1>1, <1>3, ShapedRecords
<1>6. Carries(run, stated)
  BY <1>1, <1>2, <1>3, RecordsCarry
<1> HIDE DEF stated
<1>7. Apart(stated.records)
  BY <1>2, <1>3, <1>4 DEF Checked, Sound, Apart, SameSaid
<1>8. Final(stated)
  BY <1>2, <1>3, <1>4, <1>5, <1>7 DEF Final
<1>9. QED
  BY <1>6, <1>8 DEF stated, records

\* The record of a row, when it is done.
LEMMA FinalRecordIs ==
  ASSUME NEW run, Final(run), NEW id \in Ids(run)
  PROVE  /\ RecordOf(run, id).id = id /\ Stated(run.cases, RecordOf(run, id))
         /\ \A i \in DOMAIN run.records : run.records[i].id = id => run.records[i] = RecordOf(run, id)
<1> DEFINE record == RecordOf(run, id)
<1>1. \E r \in Range(run.records) : r.id = id
  BY DEF Ids, Range
<1>2. record \in Range(run.records) /\ record.id = id
  BY <1>1 DEF RecordOf
<1> HIDE DEF record
<1>3. PICK j \in DOMAIN run.records : record = run.records[j]
  BY <1>2 DEF Range
<1>4. \A i \in DOMAIN run.records : run.records[i].id = id => i = j
  BY <1>2, <1>3 DEF Final, Apart
<1>5. Stated(run.cases, record)
  BY <1>3 DEF Final
<1>6. QED
  BY <1>2, <1>3, <1>4, <1>5 DEF record

\* The places of a list are finitely many numbers.
LEMMA PlacesAre ==
  ASSUME NEW s, IsSeq(s)
  PROVE  IsFiniteSet(DOMAIN s) /\ DOMAIN s \subseteq Int
<1>1. Len(s) \in Nat /\ DOMAIN s = 1..Len(s)
  BY SeqIs
<1>2. DOMAIN s \subseteq Int
  BY <1>1
<1>3. IsFiniteSet(DOMAIN s)
  BY PlacesFinite
<1>4. QED
  BY <1>2, <1>3

\* A record that is referred to is one of them.
LEMMA NamedIs ==
  ASSUME NEW run, IsSeq(run.records), NEW value, Named(run, value) # None
  PROVE  \E i \in DOMAIN run.records : Named(run, value) = run.records[i]
<1> DEFINE places == {i \in DOMAIN run.records : KeyFor(run.records[i]) = value}
<1>1. places # {} /\ Named(run, value) = run.records[Max(places)]
  BY DEF Named
<1>2. IsFiniteSet(places) /\ places \subseteq Int
  <2>1. IsFiniteSet(DOMAIN run.records) /\ DOMAIN run.records \subseteq Int
    BY PlacesAre
  <2>2. QED
    BY <2>1, FS_Subset
<1>3. places \subseteq DOMAIN run.records
  OBVIOUS
<1> HIDE DEF places
<1>4. Max(places) \in places
  BY <1>1, <1>2, LeastAndGreatest
<1>5. QED
  BY <1>1, <1>3, <1>4

\* The records that may not be sent.
NotReady(run) == {i \in DOMAIN run.records : run.records[i].state # "READY"}

\* The references of a record that hold it.
Unready(run, id) ==
  {i \in DOMAIN SelfReferences :
     LET other == Named(run, Get(RecordOf(run, id).values, SelfReferences[i]))
     IN  other # None /\ other.id # id /\ other.state # "READY"}
Holder(run, id) == Named(run, Get(RecordOf(run, id).values, SelfReferences[Min(Unready(run, id))]))

\* A record that is referred to and not ready holds the one that refers to it.
LEMMA HolderIs ==
  ASSUME NEW run, Final(run), NEW id, Unready(run, id) # {}
  PROVE  \E j \in DOMAIN run.records :
           Holder(run, id) = run.records[j] /\ run.records[j].id # id /\ run.records[j].state # "READY"
<1> DEFINE unready == Unready(run, id)
           first == Min(unready)
<1>1. IsFiniteSet(unready) /\ unready \subseteq Int
  <2>1. IsSeq(SelfReferences)
    BY FieldsAreSeq, ThoseIs DEF SelfReferences
  <2>2. IsFiniteSet(DOMAIN SelfReferences) /\ DOMAIN SelfReferences \subseteq Int
    BY <2>1, PlacesAre
  <2>3. unready \subseteq DOMAIN SelfReferences
    BY DEF Unready
  <2>4. QED
    BY <2>2, <2>3, FS_Subset
<1>2. first \in unready
  <2>1. unready # {}
    OBVIOUS
  <2> HIDE DEF unready
  <2>2. QED
    BY <1>1, <2>1, LeastAndGreatest
<1>3. Holder(run, id) # None /\ Holder(run, id).id # id /\ Holder(run, id).state # "READY"
  BY <1>2 DEF Unready, Holder
<1>4. \E j \in DOMAIN run.records : Holder(run, id) = run.records[j]
  BY <1>3, NamedIs DEF Holder, Final, Shaped
<1>5. QED
  BY <1>3, <1>4

\* Some of the questions count one record more.
CountMore(cases, open, id, after) ==
  /\ open \subseteq DOMAIN cases /\ DOMAIN after = DOMAIN cases
  /\ \A n \in open : after[n].blocks = cases[n].blocks /\ after[n].children = cases[n].children \cup {id}
  /\ \A n \in DOMAIN cases \ open : after[n] = cases[n]

\* They are what it waits for besides.
LEMMA WaitsChildren ==
  ASSUME NEW cases, NEW open, NEW id, NEW after, CountMore(cases, open, id, after)
  PROVE  \A x : Waits(after, x) = IF x = id THEN Waits(cases, x) \cup open ELSE Waits(cases, x)
<1>1. \A x : Waits(after, x) \subseteq IF x = id THEN Waits(cases, x) \cup open ELSE Waits(cases, x)
  BY DEF Waits, CountMore
<1>2. \A x : (IF x = id THEN Waits(cases, x) \cup open ELSE Waits(cases, x)) \subseteq Waits(after, x)
  BY DEF Waits, CountMore
<1>3. QED
  BY <1>1, <1>2

\* A ready record waits for what another one waits for.
LEMMA HoldRecordFinal ==
  ASSUME NEW run, Final(run), NEW id \in Ids(run)
  PROVE  LET after == HoldRecord(run, id)
         IN  /\ Final(after) /\ Carries(run, after)
             /\ \/ after = run
                \/ NotReady(run) \subseteq NotReady(after) /\ NotReady(after) # NotReady(run)
             /\ (RecordOf(run, id).state = "READY" /\ Unready(run, id) # {} /\ Holder(run, id).open # {})
                  => after # run
<1> DEFINE record == RecordOf(run, id)
           unready == Unready(run, id)
           open   == Holder(run, id).open
           held   == [record EXCEPT !.open = open, !.state = "BLOCKED"]
           counts(case) == [case EXCEPT !.children = @ \cup {id}]
           before == SetRecord(run, held)
           cases  == [n \in DOMAIN before.cases |-> IF n \in open THEN counts(before.cases[n])
                                                                   ELSE before.cases[n]]
           after  == HoldRecord(run, id)
           there  == record.state = "READY" /\ unready # {} /\ open # {}
<1>1. after = IF there THEN [before EXCEPT !.cases = cases] ELSE run
  BY DEF HoldRecord, Unready, Holder
<1>2. record.id = id /\ Stated(run.cases, record)
      /\ \A i \in DOMAIN run.records : run.records[i].id = id => run.records[i] = record
  BY FinalRecordIs
<1>3. CASE ~there
  <2>1. after = run
    BY <1>1, <1>3
  <2> HIDE DEF after
  <2>2. Carries(run, after)
    BY <2>1, CarriesItself
  <2>3. QED
    BY <1>3, <2>1, <2>2 DEF after
<1>4. CASE there
  <2> DEFINE records == [i \in DOMAIN run.records |->
                           IF run.records[i].id = held.id THEN held ELSE run.records[i]]
             next == [before EXCEPT !.cases = cases]
  <2>1. PICK j \in DOMAIN run.records :
           Holder(run, id) = run.records[j] /\ run.records[j].id # id /\ run.records[j].state # "READY"
    BY <1>4, HolderIs
  <2>2. open # {} /\ open = Waits(run.cases, run.records[j].id) /\ open \subseteq DOMAIN run.cases
    BY <1>4, <2>1 DEF Final, Stated, Waits
  <2>3. Waits(run.cases, id) = {} /\ IsRecord(record)
    BY <1>2, <1>4 DEF Stated
  <2>4. DOMAIN run = RunFields /\ Shaped(run)
    BY FieldsOfRun DEF Final, Shaped
  <2> HIDE DEF open, record
  <2>5. /\ DOMAIN held = RecordFields /\ held.id = id /\ held.values = record.values
        /\ held.origin = record.origin /\ held.state = "BLOCKED" /\ held.open = open
    BY <1>2, <2>3 DEF IsRecord, RecordFields
  <2>6. before = [run EXCEPT !.records = records]
    BY DEF SetRecord
  <2>7. /\ records = [i \in DOMAIN run.records |-> records[i]] /\ DOMAIN records = DOMAIN run.records
        /\ \A i \in DOMAIN run.records : records[i] = IF run.records[i].id = id THEN held ELSE run.records[i]
    BY <2>5
  <2> HIDE DEF held, records, before, there
  <2>8. /\ DOMAIN before = RunFields /\ before.cases = run.cases /\ before.records = records /\ Shaped(before)
        /\ NotesKept(run, before)
    BY <2>4, <2>6, <2>7, RecordsSet, ShapedRecords
  <2>9. before.built = run.built
    BY <2>4, <2>6 DEF RunFields
  <2>10. /\ cases = [n \in DOMAIN run.cases |-> cases[n]] /\ DOMAIN cases = DOMAIN run.cases
        /\ \A n \in DOMAIN run.cases : cases[n] = IF n \in open THEN counts(run.cases[n]) ELSE run.cases[n]
    BY <2>8
  <2>11. ASSUME NEW n \in DOMAIN run.cases
         PROVE  LET case == run.cases[n]
                    more == counts(case)
                IN  /\ DOMAIN case = DOMAIN NoCase /\ DOMAIN more = DOMAIN NoCase
                    /\ more.blocks = case.blocks /\ more.children = case.children \cup {id}
    <3> DEFINE case == run.cases[n]
    <3>1. DOMAIN case = DOMAIN NoCase
      BY <2>4 DEF Shaped, Asked
    <3> HIDE DEF case
    <3>2. /\ DOMAIN counts(case) = DOMAIN NoCase
          /\ counts(case).blocks = case.blocks /\ counts(case).children = case.children \cup {id}
      BY <3>1 DEF NoCase
    <3>3. QED
      BY <3>1, <3>2 DEF case
  <2> HIDE DEF cases, counts
  <2>12. Asked(cases)
    <3>1. \A n \in DOMAIN run.cases : DOMAIN cases[n] = DOMAIN NoCase
      BY <2>10, <2>11
    <3>2. QED
      BY <2>4, <2>10, <3>1, AskedChanged DEF Shaped
  <2>13. \A x : Waits(cases, x) = IF x = id THEN Waits(run.cases, x) \cup open ELSE Waits(run.cases, x)
    <3> DEFINE asked == run.cases
    <3>1. /\ open \subseteq DOMAIN asked /\ DOMAIN cases = DOMAIN asked
          /\ \A n \in open : cases[n].blocks = asked[n].blocks /\ cases[n].children = asked[n].children \cup {id}
          /\ \A n \in DOMAIN asked \ open : cases[n] = asked[n]
      BY <2>2, <2>10, <2>11
    <3> HIDE DEF asked
    <3>2. CountMore(asked, open, id, cases)
      BY <3>1 DEF CountMore
    <3>4. \A x : Waits(cases, x) = IF x = id THEN Waits(asked, x) \cup open ELSE Waits(asked, x)
      BY <3>2, WaitsChildren
    <3>3. QED
      BY <3>4 DEF asked
  <2>14. next.cases = cases /\ next.records = records /\ DOMAIN next = RunFields
         /\ next.applied = before.applied /\ next.built = before.built /\ next.mergedInto = before.mergedInto
    BY <2>8 DEF RunFields
  <2>15. after = next
    BY <1>1, <1>4
  <2> HIDE DEF next, after
  <2>16. Shaped(next)
    BY <2>8, <2>12, <2>14, FieldsOfRun DEF Shaped
  <2>17. Apart(records)
    BY <2>5, <2>7 DEF Final, Apart
  <2>18. ASSUME NEW i \in DOMAIN records
         PROVE  Stated(cases, records[i])
    <3>1. Stated(run.cases, run.records[i])
      BY <2>7 DEF Final
    <3>2. CASE run.records[i].id = id
      <4>1. records[i] = held /\ IsRecord(held)
        BY <2>3, <2>5, <2>7, <3>2 DEF IsRecord
      <4>2. Waits(cases, id) = open
        BY <2>3, <2>13
      <4>3. QED
        BY <2>2, <2>5, <4>1, <4>2 DEF Stated
    <3>3. CASE run.records[i].id # id
      BY <2>7, <2>13, <3>1, <3>3 DEF Stated
    <3>4. QED
      BY <3>2, <3>3
  <2>19. Final(next)
    BY <2>14, <2>16, <2>17, <2>18 DEF Final
  <2>20. Carries(run, next)
    <3>1. Unmoved(run, next)
      BY <1>2, <2>5, <2>7, <2>14, <2>9 DEF Unmoved
    <3>2. Grown(run, next)
      BY <2>10, <2>13, <2>14 DEF Grown
    <3>3. QED
      BY <2>8, <2>14, <3>1, <3>2 DEF Carries, NotesKept
  <2>21. PICK k \in DOMAIN run.records : run.records[k].id = id
    BY DEF Ids
  <2>22. k \in NotReady(next) /\ k \notin NotReady(run)
    BY <1>2, <1>4, <2>5, <2>7, <2>14, <2>21 DEF NotReady, there
  <2>23. NotReady(run) \subseteq NotReady(next)
    BY <2>5, <2>7, <2>14 DEF NotReady
  <2>24. next # run
    BY <2>22
  <2>25. QED
    BY <2>15, <2>19, <2>20, <2>22, <2>23, <2>24 DEF after
<1>5. QED
  BY <1>3, <1>4

(************************** whoever waits for whom *************************)

\* No record would be held any more.
Steady(run) == \A i \in DOMAIN run.records : HoldRecord(run, run.records[i].id) = run

\* A pass either changes nothing or leaves fewer records ready.
PassLoop(records, q, base, n, run) ==
  /\ Final(run) /\ Carries(base, run) /\ NotReady(base) \subseteq NotReady(run)
  /\ Steady(base) => run = base
  /\ NotReady(run) = NotReady(base) => run = base /\ \A i \in 1..n : HoldRecord(base, records[i].id) = base
HoldingOnce == INSTANCE FoldInduction WITH Step <- HoldStep, Inv <- PassLoop

\* One pass of _hold_dependents.
LEMMA PassFinal ==
  ASSUME NEW run, Final(run), NEW records, IsSeq(records), DOMAIN records = DOMAIN run.records,
         \A i \in DOMAIN records : records[i].id = run.records[i].id, NEW x
  PROVE  LET after == HoldPassStep(records, None, run, x)
         IN  /\ Final(after) /\ Carries(run, after)
             /\ \/ Steady(run) /\ after = run
                \/ ~Steady(run) /\ NotReady(run) \subseteq NotReady(after) /\ NotReady(after) # NotReady(run)
<1> DEFINE after == HoldingOnce!Over(records, None, run, records)
<1>1. HoldPassStep(records, None, run, x) = after
  BY DEF HoldPassStep, HoldingOnce!Over, HoldStep, HoldingOnce!Unfolding, FoldLeft,
         MapThenFoldSet, HoldingOnce!Last, Max
<1>2. HoldingOnce!Sequence(records) /\ DOMAIN records = 1..Len(records) /\ Len(records) \in Nat
  BY SeqReached DEF HoldingOnce!Sequence, HoldingOnce!Reached
<1>3. ASSUME NEW n \in 1..Len(records), NEW d, PassLoop(records, None, run, n - 1, d)
      PROVE  PassLoop(records, None, run, n, HoldStep(records, None, d, records[n]))
  <2> DEFINE id == records[n].id
             next == HoldRecord(d, id)
  <2>1. Final(d) /\ Carries(run, d) /\ NotReady(run) \subseteq NotReady(d)
    BY <1>3 DEF PassLoop
  <2>2. n \in DOMAIN run.records /\ run.records[n].id = id
    BY <1>2
  <2>3. id \in Ids(d)
    BY <2>1, <2>2 DEF Carries, Unmoved, Ids
  <2> HIDE DEF id
  <2>4. /\ Final(next) /\ Carries(d, next)
        /\ \/ next = d
           \/ NotReady(d) \subseteq NotReady(next) /\ NotReady(next) # NotReady(d)
    BY <2>1, <2>3, HoldRecordFinal
  <2>5. Carries(run, next)
    BY <2>1, <2>4, CarriesOn
  <2>6. NotReady(run) \subseteq NotReady(next)
    BY <2>1, <2>4
  <2>7. Steady(run) => next = run
    BY <1>3, <2>2 DEF PassLoop, Steady
  <2>8. ASSUME NotReady(next) = NotReady(run)
        PROVE  next = run /\ \A i \in 1..n : HoldRecord(run, records[i].id) = run
    <3>1. next = d /\ NotReady(d) = NotReady(run)
      BY <2>1, <2>4, <2>8
    <3>2. d = run /\ \A i \in 1..(n - 1) : HoldRecord(run, records[i].id) = run
      BY <1>3, <3>1 DEF PassLoop
    <3>3. HoldRecord(run, records[n].id) = run
      BY <3>1, <3>2 DEF id
    <3>4. \A i \in 1..n : i = n \/ i \in 1..(n - 1)
      BY <1>2
    <3> HIDE DEF next
    <3>5. \A i \in 1..n : HoldRecord(run, records[i].id) = run
      BY <3>2, <3>3, <3>4
    <3>6. QED
      BY <3>1, <3>2, <3>5
  <2> HIDE DEF next
  <2>9. PassLoop(records, None, run, n, next)
    BY <2>4, <2>5, <2>6, <2>7, <2>8 DEF PassLoop
  <2>10. QED
    BY <2>9 DEF next, id, HoldStep
<1>4. PassLoop(records, None, run, 0, run)
  BY CarriesItself DEF PassLoop
<1>5. PassLoop(records, None, run, Len(records), after)
  BY <1>2, <1>3, <1>4, HoldingOnce!FoldKeeps
<1> HIDE DEF after
<1>6. NotReady(after) = NotReady(run) => Steady(run)
  BY <1>2, <1>5 DEF PassLoop, Steady
<1>7. QED
  BY <1>1, <1>5, <1>6 DEF PassLoop

\* After so many passes nobody is held any more, or so many are not ready.
PassesLoop(records, q, base, n, run) ==
  Final(run) /\ Carries(base, run) /\ (Steady(run) \/ Cardinality(NotReady(run)) >= n)
HoldingLong == INSTANCE FoldInduction WITH Step <- HoldPassStep, Inv <- PassesLoop

\* What a run is when it is done: each record has its state, and none is ready
\* that would have to wait.
Done(run) == Final(run) /\ (Steady(run) \/ NotReady(run) = DOMAIN run.records)

\* One set is larger.
LEMMA MoreNotReady ==
  ASSUME NEW S, NEW T, IsFiniteSet(T), S \subseteq T, S # T, NEW n \in Nat, Cardinality(S) >= n - 1
  PROVE  Cardinality(T) >= n
<1>1. IsFiniteSet(S) /\ Cardinality(S) <= Cardinality(T) /\ Cardinality(S) # Cardinality(T)
  BY FS_Subset
<1>2. Cardinality(S) \in Nat /\ Cardinality(T) \in Nat
  BY <1>1, FS_CardinalityType
<1>3. QED
  BY <1>1, <1>2

\* _finalise.
LEMMA FinaliseDone ==
  ASSUME NEW run, Checked(run), NEW overrides
  PROVE  Done(Finalise(run, overrides)) /\ Carries(run, Finalise(run, overrides))
<1> DEFINE records == [i \in DOMAIN run.records |-> Finished(run.records[i], overrides.excluded)]
           stated == [run EXCEPT !.records = records]
           places == [i \in DOMAIN stated.records |-> i]
           held == HoldingLong!Over(stated.records, None, stated, places)
           N == Len(places)
<1>1. Finalise(run, overrides) = held
  <2>1. Finalise(run, overrides) = HoldDependents(stated)
    BY DEF Finalise
  <2> HIDE DEF stated
  <2>2. HoldDependents(stated) = held
    BY DEF HoldDependents, HoldPassStep, HoldingLong!Over, HoldingLong!Unfolding, FoldLeft,
           MapThenFoldSet, HoldingLong!Last, Max
  <2>3. QED
    BY <2>1, <2>2
<1>2. Final(stated) /\ Carries(run, stated)
  BY StatedFinal
<1> HIDE DEF stated
<1>3. IsSeq(stated.records)
  BY <1>2 DEF Final, Shaped
<1>4. IsSeq(places) /\ DOMAIN places = DOMAIN stated.records
  <2>1. places = [i \in DOMAIN stated.records |-> places[i]]
    OBVIOUS
  <2> HIDE DEF places
  <2>2. QED
    BY <1>3, <2>1, SeqChanged
<1> HIDE DEF places
<1>5. HoldingLong!Sequence(places) /\ N \in Nat /\ DOMAIN places = 1..N
  BY <1>4, SeqReached, SeqIs DEF HoldingLong!Sequence, HoldingLong!Reached
<1>6. IsFiniteSet(DOMAIN stated.records) /\ Cardinality(DOMAIN stated.records) = N
  BY <1>4, PlacesFinite
<1> HIDE DEF N
<1>7. ASSUME NEW n \in 1..N, NEW d, PassesLoop(stated.records, None, stated, n - 1, d)
      PROVE  PassesLoop(stated.records, None, stated, n, HoldPassStep(stated.records, None, d, places[n]))
  <2> DEFINE after == HoldPassStep(stated.records, None, d, places[n])
  <2>1. Final(d) /\ Carries(stated, d) /\ (Steady(d) \/ Cardinality(NotReady(d)) >= n - 1)
    BY <1>7 DEF PassesLoop
  <2>2. DOMAIN stated.records = DOMAIN d.records
        /\ \A i \in DOMAIN stated.records : stated.records[i].id = d.records[i].id
    BY <2>1 DEF Carries, Unmoved
  <2>3. /\ Final(after) /\ Carries(d, after)
        /\ \/ Steady(d) /\ after = d
           \/ ~Steady(d) /\ NotReady(d) \subseteq NotReady(after) /\ NotReady(after) # NotReady(d)
    BY <1>3, <2>1, <2>2, PassFinal
  <2> HIDE DEF after
  <2>4. Carries(stated, after)
    BY <2>1, <2>3, CarriesOn
  <2>5. Steady(after) \/ Cardinality(NotReady(after)) >= n
    <3>1. CASE Steady(d)
      BY <2>3, <3>1
    <3>2. CASE ~Steady(d)
      <4>1. NotReady(d) \subseteq NotReady(after) /\ NotReady(after) # NotReady(d)
        BY <2>3, <3>2
      <4>2. Cardinality(NotReady(d)) >= n - 1
        BY <2>1, <3>2
      <4>3. IsFiniteSet(NotReady(after))
        <5>1. NotReady(after) \subseteq DOMAIN stated.records
          BY <2>4 DEF NotReady, Carries, Unmoved
        <5>2. QED
          BY <1>6, <5>1, FS_Subset
      <4>4. n \in Nat
        BY <1>5
      <4>5. QED
        BY <4>1, <4>2, <4>3, <4>4, MoreNotReady
    <3>3. QED
      BY <3>1, <3>2
  <2>6. PassesLoop(stated.records, None, stated, n, after)
    BY <2>3, <2>4, <2>5 DEF PassesLoop
  <2>7. QED
    BY <2>6 DEF after
<1>8. PassesLoop(stated.records, None, stated, 0, stated)
  <2>1. IsFiniteSet(NotReady(stated))
    <3>1. NotReady(stated) \subseteq DOMAIN stated.records
      BY DEF NotReady
    <3>2. QED
      BY <1>6, <3>1, FS_Subset
  <2>2. Cardinality(NotReady(stated)) >= 0
    BY <2>1, FS_CardinalityType
  <2>3. Carries(stated, stated)
    BY CarriesItself
  <2>4. QED
    BY <1>2, <2>2, <2>3 DEF PassesLoop
<1>9. PassesLoop(stated.records, None, stated, N, held)
  BY <1>5, <1>7, <1>8, HoldingLong!FoldKeeps DEF N
<1> HIDE DEF held
<1>10. Final(held) /\ Carries(stated, held) /\ (Steady(held) \/ Cardinality(NotReady(held)) >= N)
  BY <1>9 DEF PassesLoop
<1>11. Steady(held) \/ NotReady(held) = DOMAIN held.records
  <2>1. DOMAIN held.records = DOMAIN stated.records
    BY <1>10 DEF Carries, Unmoved
  <2>2. NotReady(held) \subseteq DOMAIN stated.records
    BY <2>1 DEF NotReady
  <2>3. /\ Cardinality(NotReady(held)) <= N /\ IsFiniteSet(NotReady(held))
        /\ Cardinality(NotReady(held)) = N => NotReady(held) = DOMAIN stated.records
    BY <1>6, <2>2, FS_Subset
  <2>4. Cardinality(NotReady(held)) \in Nat
    BY <2>3, FS_CardinalityType
  <2>5. QED
    BY <1>5, <1>10, <2>1, <2>3, <2>4
<1>12. Done(held)
  BY <1>10, <1>11 DEF Done
<1>13. Carries(run, held)
  BY <1>2, <1>10, CarriesOn
<1>14. QED
  BY <1>1, <1>12, <1>13

\* What a ready record refers to is ready as well, or left out.
Chained(run) ==
  \A i \in DOMAIN run.records : run.records[i].state = "READY" =>
    \A f \in Range(SelfReferences) :
      LET other == Named(run, Get(run.records[i].values, f))
      IN  other # None => other.state \in {"READY", "EXCLUDED"}

\* Where a record refers to one other at most, holding goes to the end.
LEMMA DoneChained ==
  ASSUME NEW run, Done(run), Len(SelfReferences) <= 1
  PROVE  Chained(run)
<1> SUFFICES ASSUME NEW i \in DOMAIN run.records, run.records[i].state = "READY",
                    NEW f \in Range(SelfReferences),
                    Named(run, Get(run.records[i].values, f)) # None
             PROVE  Named(run, Get(run.records[i].values, f)).state \in {"READY", "EXCLUDED"}
  BY DEF Chained
<1> DEFINE id == run.records[i].id
           record == RecordOf(run, id)
           other == Named(run, Get(record.values, f))
<1>1. Final(run) /\ id \in Ids(run)
  BY DEF Done, Ids
<1>2. run.records[i] = record
  BY <1>1, FinalRecordIs
<1>3. DOMAIN SelfReferences = {1} /\ f = SelfReferences[1]
  <2>1. IsSeq(SelfReferences)
    BY FieldsAreSeq, ThoseIs DEF SelfReferences
  <2>2. DOMAIN SelfReferences = 1..Len(SelfReferences) /\ Len(SelfReferences) \in Nat
    BY <2>1, SeqIs
  <2>3. PICK k \in DOMAIN SelfReferences : f = SelfReferences[k]
    BY DEF Range
  <2>4. QED
    BY <2>2, <2>3
<1>4. PICK j \in DOMAIN run.records : other = run.records[j]
  <2>1. IsSeq(run.records)
    BY <1>1 DEF Final, Shaped
  <2>2. other # None
    BY <1>2
  <2>3. QED
    BY <2>1, <2>2, NamedIs
<1>5. Stated(run.cases, other)
  BY <1>1, <1>4 DEF Final
<1>6. SUFFICES ASSUME other.state = "BLOCKED" PROVE FALSE
  BY <1>2, <1>5 DEF Stated
<1>7. other.open # {}
  BY <1>5, <1>6 DEF Stated
<1>8. other.id # id
  <2>1. other.id = id => j = i
    BY <1>1, <1>4 DEF Final, Apart
  <2>2. QED
    BY <1>4, <1>6, <2>1
<1>9. Unready(run, id) = {1}
  BY <1>2, <1>3, <1>6, <1>8 DEF Unready
<1>10. Holder(run, id) = other
  <2>1. Min({1}) = 1
    <3>1. IsFiniteSet({1})
      BY FS_Singleton
    <3>2. {1} \subseteq Int
      OBVIOUS
    <3>3. Min({1}) \in {1}
      BY <3>1, <3>2, LeastAndGreatest
    <3>4. QED
      BY <3>3
  <2>2. QED
    BY <1>3, <1>9, <2>1 DEF Holder
<1>11. HoldRecord(run, id) # run
  <2>1. record.state = "READY"
    BY <1>2
  <2> HIDE DEF record, id, other
  <2>2. QED
    BY <1>1, <1>7, <1>9, <1>10, <2>1, HoldRecordFinal DEF record
<1>12. Steady(run)
  <2>1. i \notin NotReady(run)
    BY DEF NotReady
  <2>2. QED
    BY <2>1 DEF Done
<1>13. QED
  BY <1>11, <1>12 DEF Steady

(************************ the answers that were given **********************)

\* The answers for a whole column are a list.
ListsConstants(o) == DOMAIN o = DOMAIN NoOverrides /\ IsSeq(o.constants)

\* There are none at first,
LEMMA NothingListed == ListsConstants(NoOverrides)
<1>1. NoOverrides.constants = <<>>
  BY DEF NoOverrides
<1>2. QED
  BY <1>1, SeqEmpty DEF ListsConstants

\* and one more is put in its place or at the end.
LEMMA ConstantListed ==
  ASSUME NEW constants, IsSeq(constants), NEW scope, NEW field, NEW value
  PROVE  IsSeq(PutConstant(constants, scope, field, value))
<1> DEFINE at == SelectInSeq(constants, LAMBDA c : c.scope = scope /\ c.field = field)
           entry == [scope |-> scope, field |-> field, value |-> value]
           there == [constants EXCEPT ![at] = entry]
<1>1. PutConstant(constants, scope, field, value) = IF at = 0 THEN Append(constants, entry) ELSE there
  BY DEF PutConstant
<1>2. constants = [i \in DOMAIN constants |-> constants[i]]
  BY SeqIs
<1> HIDE DEF at, entry
<1>3. there = [i \in DOMAIN constants |-> there[i]]
  BY <1>2
<1> HIDE DEF there
<1>4. IsSeq(Append(constants, entry)) /\ IsSeq(there)
  BY <1>3, SeqAppend, SeqChanged
<1>5. QED
  BY <1>1, <1>4

\* Any other answer is kept elsewhere.
LEMMA ElsewhereListed ==
  ASSUME NEW o, ListsConstants(o), NEW f, f # "constants", NEW v
  PROVE  ListsConstants([o EXCEPT ![f] = v])
<1>1. "constants" \in DOMAIN o
  BY DEF ListsConstants, NoOverrides
<1>2. QED
  BY <1>1 DEF ListsConstants

\* A decision of the reviewer leaves them a list.
LEMMA ApplyListed ==
  ASSUME NEW o, ListsConstants(o), NEW case, NEW action, NEW answer
  PROVE  ListsConstants(ApplyDecision(o, case, action, answer))
<1>1. \A kind, value : ListsConstants(AnswerUnmapped(o, case, kind, value))
  <2> TAKE kind, value
  <2> DEFINE more == PutConstant(o.constants, case.scope, case.field, value)
  <2>1. IsSeq(more) /\ "constants" \in DOMAIN o
    BY ConstantListed DEF ListsConstants, NoOverrides
  <2>2. \/ AnswerUnmapped(o, case, kind, value) = o
        \/ \E v : AnswerUnmapped(o, case, kind, value) = [o EXCEPT !["columnMap"] = v]
        \/ AnswerUnmapped(o, case, kind, value) = [o EXCEPT !.constants = more]
    BY DEF AnswerUnmapped
  <2> HIDE DEF more
  <2>3. ListsConstants([o EXCEPT !.constants = more])
    BY <2>1 DEF ListsConstants
  <2>4. QED
    BY <2>2, <2>3, ElsewhereListed
<1>2. \A v : /\ ListsConstants([o EXCEPT !.columnMap = v]) /\ ListsConstants([o EXCEPT !.merge = v])
             /\ ListsConstants([o EXCEPT !.valueMap = v]) /\ ListsConstants([o EXCEPT !.formats = v])
             /\ ListsConstants([o EXCEPT !.authority = v]) /\ ListsConstants([o EXCEPT !.values = v])
             /\ ListsConstants([o EXCEPT !.ignored = v]) /\ ListsConstants([o EXCEPT !.excluded = v])
  BY ElsewhereListed
<1>3. ASSUME NEW kind, NEW value PROVE ListsConstants(Answer(o, case, kind, value))
  <2> DEFINE answered == Answer(o, case, kind, value)
  <2>1. CASE case.klass = "AMBIGUOUS_MAPPING"
    BY <1>2, <2>1 DEF Answer
  <2>2. CASE case.klass = "UNMAPPED_REQUIRED"
    BY <1>1, <2>2 DEF Answer
  <2>3. CASE case.klass = "UNCERTAIN_IDENTITY"
    BY <1>2, <2>3 DEF Answer, AnswerIdentity
  <2>4. CASE case.klass = "AMBIGUOUS_VALUE" /\ case.perValue
    BY <1>2, <2>4 DEF Answer
  <2>5. CASE case.klass = "AMBIGUOUS_VALUE" /\ ~case.perValue /\ kind = "format"
    BY <1>2, <2>5 DEF Answer
  <2>6. CASE case.klass = "CONFLICTING_FACTS" /\ kind = "authority"
    BY <1>2, <2>6 DEF Answer, TrustFirst
  <2>7. CASE /\ case.klass \notin {"AMBIGUOUS_MAPPING", "UNMAPPED_REQUIRED", "UNCERTAIN_IDENTITY"}
             /\ case.klass = "AMBIGUOUS_VALUE" => ~case.perValue /\ kind # "format"
             /\ case.klass = "CONFLICTING_FACTS" => kind # "authority"
    <3>1. answered = IF case.recordKey = None \/ case.field = None THEN o
                     ELSE [o EXCEPT !.values = Put(@, <<case.recordKey, case.field>>, value)]
      BY <2>7 DEF Answer
    <3>2. answered = o \/ \E v : answered = [o EXCEPT !.values = v]
      BY <3>1
    <3>3. QED
      BY <1>2, <3>2
  <2>8. QED
    BY <2>1, <2>2, <2>3, <2>4, <2>5, <2>6, <2>7
<1> DEFINE after == ApplyDecision(o, case, action, answer)
<1>4. \/ after = o
      \/ \E kind, value : after = Answer(o, case, kind, value)
      \/ \E v : after = [o EXCEPT !.ignored = v]
      \/ \E v : after = [o EXCEPT !.excluded = v]
  BY DEF ApplyDecision, Reject
<1> HIDE DEF after
<1>5. ASSUME NEW kind, NEW value, after = Answer(o, case, kind, value) PROVE ListsConstants(after)
  BY <1>3, <1>5
<1>6. ASSUME NEW v, after = [o EXCEPT !.ignored = v] \/ after = [o EXCEPT !.excluded = v] PROVE ListsConstants(after)
  BY <1>2, <1>6
<1>7. ListsConstants(after)
  BY <1>4, <1>5, <1>6
<1>8. QED
  BY <1>7 DEF after

(************************* what a run starts with **************************)

\* Nothing is asked and nobody waits.
LEMMA NewRunUnbuilt == Unbuilt(NewRun)
<1>1. /\ NewRun.cases = <<>> /\ NewRun.records = <<>> /\ DOMAIN NewRun.mergedInto = {}
      /\ DOMAIN NewRun.fieldCase = {} /\ DOMAIN NewRun.sharedCase = {} /\ DOMAIN NewRun.valueCase = {}
  BY DEF NewRun, NoFunction
<1>2. DOMAIN <<>> = {}
  OBVIOUS
<1>3. Sound(NewRun)
  BY <1>1, <1>2, NewRunShaped DEF Sound, Apart, Filed
<1>4. QED
  BY <1>1, <1>2, <1>3 DEF Unbuilt, Waits

(************************* questions looked into ***************************)

\* The questions of a run that is done may change in what they offer.
LEMMA CasesFinal ==
  ASSUME NEW run, Final(run), NEW cases, cases = [n \in DOMAIN run.cases |-> cases[n]],
         \A n \in DOMAIN run.cases : /\ DOMAIN cases[n] = DOMAIN run.cases[n]
                                     /\ cases[n].blocks = run.cases[n].blocks
                                     /\ cases[n].children = run.cases[n].children
  PROVE  LET after == [run EXCEPT !.cases = cases]
         IN  Final(after) /\ after.records = run.records
<1> DEFINE after == [run EXCEPT !.cases = cases]
<1>1. DOMAIN run = RunFields /\ Shaped(run)
  BY FieldsOfRun DEF Final, Shaped
<1>2. after.cases = cases /\ after.records = run.records /\ after.applied = run.applied /\ DOMAIN after = RunFields
  BY <1>1 DEF RunFields
<1> HIDE DEF after
<1>3. DOMAIN cases = DOMAIN run.cases
  OBVIOUS
<1>4. \A id : Waits(cases, id) = Waits(run.cases, id)
  BY <1>3, WaitsSame
<1>5. Asked(cases)
  <2>1. \A n \in DOMAIN run.cases : DOMAIN cases[n] = DOMAIN NoCase
    BY <1>1 DEF Shaped, Asked
  <2>2. QED
    BY <1>1, <2>1, AskedChanged DEF Shaped
<1>6. Shaped(after)
  BY <1>1, <1>2, <1>5, FieldsOfRun DEF Shaped
<1>7. \A i \in DOMAIN run.records : Stated(cases, run.records[i])
  BY <1>4 DEF Final, Stated
<1>8. Final(after)
  BY <1>2, <1>6, <1>7 DEF Final
<1>9. QED
  BY <1>2, <1>8 DEF after

\* References are looked up among the records.
LEMMA ChainedSame ==
  ASSUME NEW run, Chained(run), NEW after, after.records = run.records
  PROVE  Chained(after)
<1>1. \A value : Named(after, value) = Named(run, value)
  BY DEF Named
<1>2. QED
  BY <1>1 DEF Chained
=============================================================================
