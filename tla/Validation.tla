----------------------------- MODULE Validation -----------------------------
(***************************************************************************)
(* Checking records against the approved schema (validation.py).  Every    *)
(* issue is an error, and names the field and the rule it breaks.          *)
(***************************************************************************)
EXTENDS TargetSchema

Issue(field, rule) == [field |-> field, rule |-> rule]

\* Whether a value is of its field's type: a number must be one, not the text
\* of one; a date and a boolean are not looked at.
HasType(field, value) ==
  CASE FieldSpec[field].type = "email"  -> Parses("email", value)
    [] FieldSpec[field].type = "number" -> value \in Numbers
    [] FieldSpec[field].type = "enum"   -> value \in Range(FieldSpec[field].allowed)
    [] OTHER                            -> TRUE

CheckType(field, value) == IF HasType(field, value) THEN <<>> ELSE <<Issue(field, "type")>>

LimitOrder == <<"max_length", "min_length", "minimum", "maximum">>

CheckConstraints(field, value) ==
  LET pattern == FieldSpec[field].pattern
      limits  == Those(LimitOrder, LimitsBroken(field, value))
  IN  (IF pattern = None \/ Fits(pattern, value) THEN <<>> ELSE <<Issue(field, "pattern")>>)
        \o [i \in DOMAIN limits |-> Issue(field, limits[i])]

\* A reference to the entity must name another record of the run, a reference
\* to a lookup one of its values; a lookup that was not uploaded is not checked.
CheckReference(field, value, values, known) ==
  LET target == FieldSpec[field].reference[1]
      key    == FieldSpec[field].reference[2]
  IN  CASE FieldSpec[field].reference = None -> <<>>
        [] RefersToSelf(field) /\ Get(values, key) = value -> <<Issue(field, "reference:self")>>
        [] RefersToSelf(field) /\ Get(values, key) # value ->
             IF value \in known THEN <<>> ELSE <<Issue(field, "reference:missing")>>
        [] OTHER ->
             IF target \in DOMAIN Lookups => value \in Lookups[target]
               THEN <<>> ELSE <<Issue(field, "reference:missing")>>

FieldIssues(field, values, known) ==
  LET value == Get(values, field)
  IN  IF value = None
        THEN IF FieldSpec[field].required THEN <<Issue(field, "required")>> ELSE <<>>
        ELSE CheckType(field, value)
               \o CheckConstraints(field, value)
               \o CheckReference(field, value, values, known)

ValidateRecord(values, known) ==
  FoldLeft(LAMBDA found, f : found \o FieldIssues(f, values, known), <<>>, FieldOrder)

\* check_uniqueness, for one record among all of them.
UniquenessIssues(record, records) ==
  LET collides(f) ==
        /\ FieldSpec[f].unique
        /\ Get(record.values, f) # None
        /\ \E i \in DOMAIN records :
             /\ records[i].id # record.id
             /\ Get(records[i].values, f) # None
             /\ Alike(f, Get(records[i].values, f), Get(record.values, f))
      fields == Those(FieldOrder, {f \in FieldNames : collides(f)})
  IN  [i \in DOMAIN fields |-> Issue(fields[i], "unique")]
=============================================================================
