------------------------------- MODULE Review -------------------------------
(***************************************************************************)
(* Questions for a person and what the answers become: review cases        *)
(* (contracts/review.py), the key that survives a replay (case_key of      *)
(* runtime.py), and the overrides a replay applies (Overrides and          *)
(* apply_decision of pipeline.py).                                         *)
(*                                                                         *)
(* An option, and an answer, is a pair <<kind, value>>: the kind is what   *)
(* the code reads off the text's prefix ("column:", "constant:",           *)
(* "authority:", a % format) or off the case's class.                      *)
(***************************************************************************)
EXTENDS TargetSchema

NoFunction == [x \in {} |-> None]

\* f with the value of x replaced or added.
Put(f, x, value) == [y \in DOMAIN f \cup {x} |-> IF y = x THEN value ELSE f[y]]

\* dict.setdefault for each of the keys: what is there stays.
SetDefault(f, keys, value) == [y \in DOMAIN f \cup keys |-> IF y \in DOMAIN f THEN f[y] ELSE value]

NoCase ==
  [klass |-> None, recordKey |-> None, field |-> None,
   file |-> None, column |-> None,       \* the first source reference
   about |-> None,                       \* the headline, of a case about a whole file
   scope |-> None, wholeFile |-> None,   \* evidence: the file an answer is for
   pair |-> None,                        \* evidence: the two keys of an uncertain identity
   perValue |-> FALSE, raw |-> None,     \* the value asked about, for every row with it
   options |-> {}, recommended |-> None, cautioned |-> {},
   blocks |-> {}, children |-> {}, resolved |-> FALSE]

\* case_key: a column names a case as soon as there is one, the headline only
\* a case with neither a record nor a column.
CaseKey(case) ==
  <<case.klass, case.recordKey, case.field,
    IF case.column = None THEN None ELSE <<case.file, case.column>>,
    IF case.recordKey = None /\ case.column = None THEN case.about ELSE None>>

WaitingCount(case) == Cardinality(case.blocks \cup case.children)

NoOverrides ==
  [columnMap |-> NoFunction,   \* (file, column) -> field
   constants |-> <<>>,         \* [scope, field, value], scope None for every file
   values |-> NoFunction,      \* (record key, field) -> value
   merge |-> NoFunction,       \* (key, key) -> merged or kept apart
   excluded |-> {},            \* record keys and row ids
   formats |-> NoFunction,     \* (file, column) -> date format
   valueMap |-> NoFunction,    \* (file, column, raw) -> value
   ignored |-> {},             \* files
   authority |-> <<>>]         \* files, the most trusted first

\* Overrides.prefer: a named file beats an unnamed one, an earlier a later.
Prefer(authority, left, right) ==
  LET rank(file) == IF Contains(authority, file) THEN SelectInSeq(authority, LAMBDA f : f = file)
                                                 ELSE Len(authority) + 1
  IN  CASE rank(left) < rank(right) -> left
        [] rank(left) > rank(right) -> right
        [] OTHER -> None

\* A dict keeps the place of a key that is set again.
PutConstant(constants, scope, field, value) ==
  LET at == SelectInSeq(constants, LAMBDA c : c.scope = scope /\ c.field = field)
      entry == [scope |-> scope, field |-> field, value |-> value]
  IN  IF at = 0 THEN Append(constants, entry) ELSE [constants EXCEPT ![at] = entry]

\* Rejecting leaves out the record and every row the question blocks.
Reject(overrides, case) ==
  [overrides EXCEPT !.excluded = @ \cup case.blocks
                                   \cup (IF case.recordKey = None THEN {} ELSE {case.recordKey})]

\* A column goes to the file of the closest column; a value goes to the scope.
AnswerUnmapped(overrides, case, kind, value) ==
  IF kind = "column"
    THEN IF case.file = None THEN overrides
         ELSE [overrides EXCEPT !.columnMap = Put(@, <<case.file, value>>, case.field)]
    ELSE [overrides EXCEPT !.constants = PutConstant(@, case.scope, case.field, value)]

\* Mutant: the answer is kept under the pair the other way round.
AnswerIdentity_Swapped(overrides, case, value) ==
  IF value \in {"merge", "separate"}
    THEN [overrides EXCEPT !.merge = Put(@, <<case.pair[2], case.pair[1]>>, value = "merge")]
    ELSE overrides

AnswerIdentity(overrides, case, value) ==
  IF value \in {"merge", "separate"}
    THEN [overrides EXCEPT !.merge = Put(@, case.pair, value = "merge")] ELSE overrides

TrustFirst(overrides, file) ==
  [overrides EXCEPT !.authority = <<file>> \o SelectSeq(@, LAMBDA f : f # file)]

\* apply_decision for an answer that is not a rejection.
Answer(overrides, case, kind, value) ==
  CASE case.klass = "AMBIGUOUS_MAPPING" ->
         [overrides EXCEPT !.columnMap = Put(@, <<case.file, case.column>>, value)]
    [] case.klass = "UNMAPPED_REQUIRED" -> AnswerUnmapped(overrides, case, kind, value)
    [] case.klass = "UNCERTAIN_IDENTITY" -> AnswerIdentity(overrides, case, value)
    [] case.klass = "AMBIGUOUS_VALUE" /\ case.perValue ->
         [overrides EXCEPT !.valueMap = Put(@, <<case.file, case.column, case.raw>>, value)]
    [] case.klass = "AMBIGUOUS_VALUE" /\ ~case.perValue /\ kind = "format" ->
         [overrides EXCEPT !.formats = Put(@, <<case.file, case.column>>, value)]
    [] case.klass = "CONFLICTING_FACTS" /\ kind = "authority" -> TrustFirst(overrides, value)
    [] OTHER ->
         IF case.recordKey = None \/ case.field = None THEN overrides
         ELSE [overrides EXCEPT !.values = Put(@, <<case.recordKey, case.field>>, value)]

\* An approval brings no value: it takes the recommendation of an uncertain
\* identity, and means nothing to any other question.
ApplyDecision(overrides, case, action, answer) ==
  LET taken == IF answer = None /\ action = "approve" /\ case.klass = "UNCERTAIN_IDENTITY"
                 THEN case.recommended ELSE answer
  IN  IF case.wholeFile # None /\ (action = "reject" \/ answer = <<"exclude", "file">>)
        THEN [overrides EXCEPT !.ignored = @ \cup {case.wholeFile}]
      ELSE IF action = "reject" THEN Reject(overrides, case)
      ELSE IF taken = None THEN overrides
      ELSE Answer(overrides, case, taken[1], taken[2])
=============================================================================
