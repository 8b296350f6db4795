------------------------------ MODULE Scoring -------------------------------
(***************************************************************************)
(* Where a source column belongs (scoring.py, contracts/mapping.py,        *)
(* profiling.py).  A column's profile keeps its header and the texts in it *)
(* that are not null markers; fits and scores are shares of 10,000.        *)
(***************************************************************************)
EXTENDS Cleaning

\* Likeness, confidence, fits and scores are shares of a whole.
Whole == 10000
Shares == 0..Whole

AutoApply == 7000
GapNeeded == 1000
ReviewFloor == 5000
DecisiveGap == 3500
TypeFitFloor == 5000
UniqueRatioFloor == 9000
VoteCap == 25

ProfileColumn(header, cells) ==
  LET texts == [i \in DOMAIN cells |-> IF cells[i] = None THEN None ELSE Trimmed(cells[i])]
  IN  [name |-> header, values |-> Those(texts, Range(texts) \ (NullMarkers \cup {None}))]

Share(n, d) == IF d = 0 THEN 0 ELSE (Whole * n) \div d

\* The share of all values, and of the distinct ones, that pass a test.
ShareOfValues(profile, Test(_)) ==
  Share(Cardinality({i \in DOMAIN profile.values : Test(profile.values[i])}), Len(profile.values))
ShareOfDistinct(profile, Test(_)) ==
  LET distinct == Range(profile.values)
  IN  Share(Cardinality({v \in distinct : Test(v)}), Cardinality(distinct))

IsAllowed(field, v) == EnumKey(v) \in {EnumKey(a) : a \in Range(FieldSpec[field].allowed)}

\* A pattern is tried with punctuation too, since cleanup comes after mapping.
RelaxedMatch(field, v) ==
  FieldSpec[field].pattern # None /\ (Fits(FieldSpec[field].pattern, v) \/ Fits(FieldSpec[field].pattern, Squeezed(v)))

\* The best of the date formats, each by the share of values it reads.
DateFit(profile) ==
  Max({ShareOfValues(profile, LAMBDA v : ReadAs(v, fmt) # None) : fmt \in DateFormats})

TypeFit(profile, field) ==
  CASE FieldSpec[field].type = "enum"   -> ShareOfValues(profile, LAMBDA v : IsAllowed(field, v))
    [] FieldSpec[field].type = "date"   -> DateFit(profile)
    [] FieldSpec[field].type = "string" -> Whole
    [] OTHER -> ShareOfValues(profile, LAMBDA v : Parses(FieldSpec[field].type, v))

ConstraintFit(profile, field) ==
  ShareOfDistinct(profile, LAMBDA v : RelaxedMatch(field, v) \/ IsAllowed(field, v))

UniqueFit(profile) == Share(Cardinality(Range(profile.values)), Len(profile.values))

\* The share of distinct values in the field's form, times the reach of the
\* column's commonest shape.
MaskFit(profile, field) ==
  LET reach == {ShareOfValues(profile, LAMBDA v : Mask(v) = Mask(w)) : w \in Range(profile.values)}
  IN  IF reach = {} THEN 0
      ELSE (ShareOfDistinct(profile, LAMBDA v : RelaxedMatch(field, v)) * Max(reach)) \div Whole

ReferenceFit(profile, field) ==
  ShareOfDistinct(profile, LAMBDA v : v \in Lookups[FieldSpec[field].reference[1]])

\* Only signals that can tell fields apart count.
Signals(profile, field) ==
  LET spec == FieldSpec[field]
  IN  {"name_sim"}
        \cup (IF spec.type # "string" THEN {"type_fit"} ELSE {})
        \cup (IF spec.pattern # None \/ spec.allowed # <<>> THEN {"constraint_fit"} ELSE {})
        \cup (IF spec.unique THEN {"unique_fit"} ELSE {})
        \cup (IF spec.pattern # None THEN {"mask_fit"} ELSE {})
        \cup (IF /\ spec.reference # None /\ profile.values # <<>>
                 /\ spec.reference[1] \in DOMAIN Lookups /\ Lookups[spec.reference[1]] # {}
                THEN {"reference_fit"} ELSE {})

SignalWeight(signal) ==
  CASE signal \in {"reference_fit", "type_fit"}      -> 25
    [] signal \in {"name_sim", "constraint_fit"}     -> 20
    [] signal = "mask_fit"                           -> 15
    [] signal = "unique_fit"                         -> 5

SignalValue(signal, profile, field) ==
  CASE signal = "name_sim"       -> NameSim(profile.name, field)
    [] signal = "type_fit"       -> TypeFit(profile, field)
    [] signal = "constraint_fit" -> ConstraintFit(profile, field)
    [] signal = "unique_fit"     -> UniqueFit(profile)
    [] signal = "mask_fit"       -> MaskFit(profile, field)
    [] signal = "reference_fit"  -> ReferenceFit(profile, field)

\* Evidence.deterministic_score: the weighted mean of what was measured.
MeasuredScore(profile, field) ==
  LET signals == Signals(profile, field)
      weighed(s) == SignalWeight(s) * SignalValue(s, profile, field)
  IN  MapThenSumSet(weighed, signals) \div MapThenSumSet(SignalWeight, signals)

Vetoed(profile, field) ==
  \/ FieldSpec[field].type # "string" /\ TypeFit(profile, field) < TypeFitFloor
  \/ FieldSpec[field].unique /\ UniqueFit(profile) < UniqueRatioFloor

\* Mutant: the vote counts as much as a signal, so it grows where few apply.
Score_VoteAsSignal(profile, field, votes) ==
  LET weight   == MapThenSumSet(SignalWeight, Signals(profile, field))
      measured == MeasuredScore(profile, field)
  IN  IF Vetoed(profile, field) THEN 0
      ELSE IF field \notin DOMAIN votes THEN measured
      ELSE (weight * measured + VoteCap * votes[field]) \div (weight + VoteCap)

\* Evidence.score: the model's vote enters at a fixed share of the whole scale.
Score(profile, field, votes) ==
  LET measured == MeasuredScore(profile, field)
  IN  IF Vetoed(profile, field)       THEN 0
      ELSE IF field \notin DOMAIN votes THEN measured
      ELSE ((100 - VoteCap) * measured + VoteCap * votes[field]) \div 100

\* The fields a column may belong to with their scores, and their ranking:
\* the best score first, equal ones in the schema's order.
Candidates(profile, votes) ==
  {c \in {[field |-> f, score |-> Score(profile, f, votes)] : f \in FieldNames} : c.score > 0}

Ranked(candidates) ==
  InOrder(candidates, LAMBDA c, d : \/ c.score > d.score
                                    \/ c.score = d.score /\ Position(c.field) < Position(d.field))

\* decide: applied when the best is good and clear of the next, or clear of
\* it by far; asked about when it is above the floor; unmapped otherwise.
Decided(mapping) ==
  LET ranked == Ranked(mapping.candidates)
      best   == ranked[1].score
      gap    == best - (IF Len(ranked) > 1 THEN ranked[2].score ELSE 0)
      with(decision, field) == [mapping EXCEPT !.decision = decision, !.field = field]
  IN  IF ranked = <<>> \/ best < ReviewFloor THEN with("unmapped", None)
      ELSE IF (best >= AutoApply /\ gap >= GapNeeded) \/ gap >= DecisiveGap
                                             THEN with("auto_apply", ranked[1].field)
      ELSE with("review", None)

RankColumn(file, profile, votes) ==
  Decided([file |-> file, column |-> profile.name, candidates |-> Candidates(profile, votes),
           decision |-> "unmapped", field |-> None])
=============================================================================
