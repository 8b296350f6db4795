---------------------------- MODULE TargetSchema ----------------------------
(***************************************************************************)
(* The target schema of a run (packages/contracts, schema.py) and what the *)
(* standard library makes of a text.  A text is opaque here: what the code *)
(* tells apart about it (how it reads once trimmed, folded, parsed as a    *)
(* date) is given by the constant operators, which stand for str, re,      *)
(* unicodedata and datetime.  A date is a text in the field's own format.  *)
(***************************************************************************)
EXTENDS Integers, FiniteSets, Sequences, SequencesExt

CONSTANTS
  None,               \* Python's None
  FieldOrder,         \* the schema's fields in order, by name
  FieldSpec,          \* what the schema declares of each field
  Entity,             \* the name of the entity the records are
  DeclaredBlocking,   \* matching.blocking_keys, each a sequence of fields
  NeverMergeOn,       \* matching.never_merge_on, a set of sets of fields
  Lookups,            \* the values of each lookup file, by lookup
  DateFormats,        \* the date formats a column is tried with
  TargetFormat,       \* the format dates are written in
  NullMarkers,        \* texts that mean "absent"
  Trimmed(_),         \* a text, NFC, stripped, runs of spaces collapsed
  Fold(_),            \* casefold
  EnumKey(_),         \* casefold, letters and digits only
  Squeezed(_),        \* a text without spacing and punctuation
  Fits(_, _),         \* whether a pattern matches a text
  Mask(_),            \* the shape of a text
  Parses(_, _),       \* whether a text reads as a boolean, an email or a number
  Number(_),          \* the number a text holds, None if it holds none
  Numbers,            \* the values that are numbers rather than texts
  LowerDomain(_),     \* an address with its domain in lower case
  LimitsBroken(_, _), \* the limits of a field (length, minimum, maximum) a value breaks
  ReadAs(_, _),       \* the date a text is in a format, None if it is none
  LateDay(_, _),      \* whether a text read in a format has a day above 12
  Place(_),           \* where a row's id, or a header, sorts among the others
  NameSim(_, _)       \* how alike a header and a field are called, per 10,000

Types == {"string", "number", "boolean", "date", "email", "enum"}

FieldNames == Range(FieldOrder)

\* Thresholds, weights and types are the code's; what a schema may say is
\* what its validators let through (an enum has options, a self-reference
\* names a field).
ASSUME SchemaAssumption ==
  /\ FieldOrder \in Seq(FieldNames) /\ FieldOrder # <<>> /\ IsInjective(FieldOrder)
  /\ None \notin FieldNames
  /\ \A f \in FieldNames :
       /\ FieldSpec[f].type \in Types
       /\ {FieldSpec[f].required, FieldSpec[f].unique, FieldSpec[f].caseSensitive} \subseteq BOOLEAN
       /\ FieldSpec[f].type = "enum" => FieldSpec[f].allowed # <<>>
       /\ FieldSpec[f].reference # None /\ FieldSpec[f].reference[1] = Entity =>
            FieldSpec[f].reference[2] \in FieldNames
  /\ DeclaredBlocking \in Seq(Range(DeclaredBlocking))
  /\ \A i \in DOMAIN DeclaredBlocking : Range(DeclaredBlocking[i]) \subseteq FieldNames
  /\ IsFiniteSet(DateFormats) /\ DateFormats # {}

Position(field) == CHOOSE i \in DOMAIN FieldOrder : FieldOrder[i] = field

\* The elements of a set one after another (sorted): Before orders any two.
InOrder(S, Before(_, _)) ==
  [i \in 1..Cardinality(S) |-> CHOOSE x \in S : Cardinality({y \in S : Before(y, x)}) = i - 1]

\* The elements of a sequence that belong to S, in its order.
Those(seq, S) == FoldLeft(LAMBDA kept, e : IF e \in S THEN Append(kept, e) ELSE kept, <<>>, seq)

RequiredFields == Those(FieldOrder, {f \in FieldNames : FieldSpec[f].required})

\* Every unique field blocks on its own unless the schema says otherwise.
BlockingKeys ==
  LET unique == Those(FieldOrder, {f \in FieldNames : FieldSpec[f].unique})
  IN  IF DeclaredBlocking # <<>>
        THEN DeclaredBlocking
        ELSE [i \in DOMAIN unique |-> <<unique[i]>>]

\* Pipeline._identity_field: the field that names a record.
IdentityField ==
  IF BlockingKeys # <<>> /\ BlockingKeys[1] # <<>> THEN BlockingKeys[1][1] ELSE FieldOrder[1]

\* Whether a field refers to another record of the run.
RefersToSelf(field) == FieldSpec[field].reference # None /\ FieldSpec[field].reference[1] = Entity

SelfReferences == Those(FieldOrder, {f \in FieldNames : RefersToSelf(f)})

\* dict.get: a record's values have the fields its row supplied, a supplied
\* one possibly with None.
Get(f, key) == IF key \in DOMAIN f THEN f[key] ELSE None

\* The two values of a field as matching and uniqueness compare them.
Alike(field, a, b) == IF FieldSpec[field].caseSensitive THEN a = b ELSE Fold(a) = Fold(b)
=============================================================================
