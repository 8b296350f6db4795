------------------------------ MODULE Cleaning ------------------------------
(***************************************************************************)
(* What may be done to a value without asking (cleanup.py), and the one    *)
(* decision a whole column takes first: how its dates are read.            *)
(***************************************************************************)
EXTENDS TargetSchema

NoPlan == [format |-> None, between |-> {}]

\* How many of the values a format reads, and whether one of them can only
\* be read that way (a day above 12).
ReadCount(values, format) == Cardinality({v \in values : ReadAs(v, format) # None})
Decidable(values, format) == \E v \in values : LateDay(v, format)

\* The formats that read the most values; a single one, or the single one of
\* them that some value settles, is the column's.  Otherwise nothing in the
\* column says which it is.
PlanColumn(values, field) ==
  LET counts  == [fmt \in DateFormats |-> ReadCount(values, fmt)]
      winners == {fmt \in DateFormats :
                    counts[fmt] > 0 /\ \A g \in DateFormats : counts[g] <= counts[fmt]}
      settled == {fmt \in winners : Decidable(values, fmt)}
  IN  CASE FieldSpec[field].type # "date" \/ winners = {} -> NoPlan
        [] Cardinality(winners) = 1 -> [NoPlan EXCEPT !.format = CHOOSE fmt \in winners : TRUE]
        [] Cardinality(winners) > 1 /\ Cardinality(settled) = 1 ->
             [NoPlan EXCEPT !.format = CHOOSE fmt \in settled : TRUE]
        [] OTHER -> [NoPlan EXCEPT !.between = winners]

\* What clean returns, or the UnsafeValue it raises.
Safe(value) == [safe |-> TRUE, value |-> value, alternatives |-> {}]
Unsafe(alternatives) == [safe |-> FALSE, value |-> None, alternatives |-> alternatives]

\* Spacing and punctuation may go to satisfy a pattern, nothing else.
FitPattern(text, field) ==
  LET pattern == FieldSpec[field].pattern
  IN  IF pattern = None \/ Fits(pattern, text) THEN Safe(text)
      ELSE IF Fits(pattern, Squeezed(text))    THEN Safe(Squeezed(text))
      ELSE Unsafe({})

\* An identifier is taken as it stands or not at all.
RequirePattern(text, field) ==
  IF FieldSpec[field].pattern = None \/ Fits(FieldSpec[field].pattern, text) THEN Safe(text) ELSE Unsafe({})

\* The allowed value that differs only in case and punctuation, if there is one.
CleanEnum(text, field) ==
  LET same == SelectSeq(FieldSpec[field].allowed, LAMBDA a : EnumKey(a) = EnumKey(text))
  IN  IF same # <<>> THEN FitPattern(Head(same), field) ELSE Unsafe(Range(FieldSpec[field].allowed))

\* Readings that differ are refused with the dates they are; else the first
\* format that reads the text, the column's before the field's own.
CleanDate(text, plan) ==
  LET readings == {ReadAs(text, fmt) : fmt \in plan.between} \ {None}
      formats  == SelectSeq(<<plan.format, TargetFormat>>,
                            LAMBDA fmt : fmt # None /\ ReadAs(text, fmt) # None)
  IN  CASE Cardinality(readings) > 1 -> Unsafe(readings)
        [] Cardinality(readings) <= 1 /\ formats # <<>> -> Safe(ReadAs(text, Head(formats)))
        [] OTHER -> Unsafe({})

CleanNumber(text) == IF Number(text) = None THEN Unsafe({}) ELSE Safe(Number(text))

Clean(raw, field, plan) ==
  LET text == Trimmed(raw)
  IN  IF raw = None \/ text \in NullMarkers THEN Safe(None)
      ELSE IF FieldSpec[field].caseSensitive     THEN RequirePattern(text, field)
      ELSE CASE FieldSpec[field].type = "email"  -> FitPattern(LowerDomain(text), field)
             [] FieldSpec[field].type = "enum"   -> CleanEnum(text, field)
             [] FieldSpec[field].type = "date"   -> CleanDate(text, plan)
             [] FieldSpec[field].type = "number" -> CleanNumber(text)
             [] FieldSpec[field].type \in {"string", "boolean"} -> FitPattern(text, field)
=============================================================================
