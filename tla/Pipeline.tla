------------------------------ MODULE Pipeline ------------------------------
(***************************************************************************)
(* One run of the pipeline (pipeline.py): what each stage makes of the     *)
(* state the stage before left.  The state is the record below, the        *)
(* attributes of class Pipeline and its RunResult; a stage takes the       *)
(* overrides of the replay it belongs to.  A case is named by its place in *)
(* the queue, a record by the id of its row.  A source is a file with its  *)
(* headers and rows; row.doubtful has the headers of the cells a scan read *)
(* with low confidence.  The state of a record is that _finalise gives it: *)
(* nothing looks at the ones before.                                       *)
(***************************************************************************)
EXTENDS Review, Scoring, Matching, Validation

CONSTANT MaxShown   \* how many candidates, or closest columns, a case offers

NewRun ==
  [mappings |-> <<>>,
   applied |-> NoFunction,      \* (file, header) -> field
   plans |-> NoFunction,        \* (file, header) -> column plan
   cases |-> <<>>,
   fieldCase |-> NoFunction,    \* (file or None, field) -> case: asked about already
   sharedCase |-> NoFunction,   \* (file, header, raw or None) -> case: format_case, value_group
   formatRows |-> NoFunction,   \* case -> the rows waiting on it, with their values
   valueCase |-> NoFunction,    \* (row, field) -> case
   built |-> <<>>,              \* the records as built, one for each row
   records |-> <<>>,
   mergedInto |-> NoFunction]   \* row -> the row it was merged into

Raise(run, case) == [run EXCEPT !.cases = Append(@, case)]

(************************** mapping the columns ****************************)

\* The first column with the best score holds a field of the file; any other
\* column that chose it loses the candidate and is decided again.
WinnerOf(mappings, field) ==
  LET claims == {i \in DOMAIN mappings : /\ mappings[i].decision = "auto_apply"
                                         /\ mappings[i].field = field}
      score(i) == Ranked(mappings[i].candidates)[1].score
  IN  CHOOSE i \in claims : \A j \in claims : \/ score(i) > score(j)
                                              \/ score(i) = score(j) /\ i <= j

TakeBack(mapping, field) ==
  Decided([mapping EXCEPT !.candidates = {c \in @ : c.field # field}])

\* Every field that was claimed is settled once, in the order of the first claims.
ResolveWithinFile(mappings) ==
  LET claims == {i \in DOMAIN mappings : mappings[i].decision = "auto_apply"}
      firsts == {i \in claims : \A j \in claims : mappings[j].field = mappings[i].field => i <= j}
      settle(done, claim) ==
        [i \in DOMAIN done |-> IF done[i].field = claim.field /\ i # WinnerOf(mappings, claim.field)
                                 THEN TakeBack(done[i], claim.field) ELSE done[i]]
  IN  FoldLeft(settle, mappings, Those(mappings, {mappings[i] : i \in firsts}))

FirstShown(seq) == SubSeq(seq, 1, Min({MaxShown, Len(seq)}))

\* _ambiguous_mapping: one question for the column, and every field it might
\* be defers to it.
AskAboutColumn(run, mapping) ==
  LET first == FirstShown(Ranked(mapping.candidates))
      shown == {first[i].field : i \in DOMAIN first}
      case  == [NoCase EXCEPT !.klass = "AMBIGUOUS_MAPPING", !.file = mapping.file,
                              !.column = mapping.column,
                              !.options = {<<"field", f>> : f \in shown}]
  IN  [Raise(run, case) EXCEPT
         !.fieldCase = SetDefault(@, {<<mapping.file, f>> : f \in shown}, Len(run.cases) + 1)]

\* A column answered for goes where the answer says, unless the schema has no
\* such field any more; a reading answered for replaces an ambiguous plan only.
PlaceColumn(run, overrides, profile, mapping) ==
  LET at     == <<mapping.file, mapping.column>>
      forced == Get(overrides.columnMap, at)
      placed == IF forced \in FieldNames
                  THEN [mapping EXCEPT !.decision = "auto_apply", !.field = forced] ELSE mapping
      noted  == [run EXCEPT !.mappings = Append(@, placed)]
      plan   == PlanColumn(Range(profile.values), placed.field)
      chosen == Get(overrides.formats, at)
  IN  CASE placed.decision = "auto_apply" ->
             [noted EXCEPT !.applied = Put(@, at, placed.field),
                           !.plans = Put(@, at, IF chosen # None /\ plan.between # {}
                                                  THEN [NoPlan EXCEPT !.format = chosen] ELSE plan)]
        [] placed.decision = "review" -> AskAboutColumn(noted, placed)
        [] OTHER -> noted

\* One file of _map: its columns are profiled, voted on and ranked together.
MapFile(run, overrides, source, votes) ==
  LET profile(header) == ProfileColumn(header, [i \in DOMAIN source.rows |-> source.rows[i].cells[header]])
      vote(header)    == IF header \in DOMAIN votes THEN votes[header] ELSE NoFunction
      rank(done, header) == Append(done, RankColumn(source.name, profile(header), vote(header)))
      place(done, mapping) == PlaceColumn(done, overrides, profile(mapping.column), mapping)
  IN  IF source.rows = <<>> THEN run
      ELSE FoldLeft(place, run, ResolveWithinFile(FoldLeft(rank, <<>>, source.headers)))

\* The fields the columns of a file were applied to.
Supplied(run, file) ==
  {run.applied[at] : at \in {a \in DOMAIN run.applied : a[1] = file}}

\* _unrecognised_file: one question about the whole file, and every required
\* field of it defers to that.
AskAboutFile(run, file) ==
  LET case == [NoCase EXCEPT !.klass = "UNMAPPED_REQUIRED", !.file = file,
                             !.about = <<"unlike", file>>, !.wholeFile = file,
                             !.options = {<<"exclude", "file">>}, !.recommended = <<"exclude", "file">>]
  IN  [Raise(run, case) EXCEPT
         !.fieldCase = SetDefault(@, {<<file, f>> : f \in Range(RequiredFields)}, Len(run.cases) + 1)]

\* _raise_unmapped: a required field that a file, or every file, lacks.
AskAboutField(run, field, origin) ==
  LET best(i)   == Ranked(run.mappings[i].candidates)
      close     == {i \in DOMAIN run.mappings : /\ best(i) # <<>> /\ best(i)[1].field = field
                                                /\ origin \in {None, run.mappings[i].file}}
      score(i)  == best(i)[1].score
      near      == FirstShown(InOrder(close, LAMBDA i, j : \/ score(i) > score(j)
                                                           \/ score(i) = score(j) /\ i < j))
      nearest   == IF near = <<>> THEN NoCase ELSE run.mappings[near[1]]
      case      == [NoCase EXCEPT !.klass = "UNMAPPED_REQUIRED", !.field = field,
                      !.file = nearest.file, !.column = nearest.column,
                      !.about = <<"no column", origin, field>>, !.scope = origin,
                      !.options = {<<"column", run.mappings[i].column>> : i \in Range(near)}
                                    \cup {<<"constant", v>> : v \in Range(FieldSpec[field].allowed)}]
  IN  [Raise(run, case) EXCEPT !.fieldCase = Put(@, <<origin, field>>, Len(run.cases) + 1)]

\* A file with under three tenths of the required fields is another kind of
\* file; any other gap is one question for each file, or one for all.
Unusable(run, file) ==
  LET required == Range(RequiredFields)
  IN  10 * Cardinality(Supplied(run, file) \cap required) < 3 * Cardinality(required)

UnmappedRequired(run, files) ==
  LET unusable == {f \in Range(files) : Unusable(run, f)}
      everywhere == UNION {Supplied(run, f) : f \in Range(files)}
      lacking(done, field) ==
        IF field \in everywhere
          THEN Those(files, {f \in Range(files) \ unusable : /\ field \notin Supplied(run, f)
                                                             /\ <<f, field>> \notin DOMAIN done.fieldCase})
          ELSE <<None>>
      ask(done, field) ==
        FoldLeft(LAMBDA d, origin : AskAboutField(d, field, origin), done, lacking(done, field))
  IN  FoldLeft(ask, FoldLeft(AskAboutFile, run, Those(files, unusable)), RequiredFields)

(************************** building the records ***************************)

NewRecord(row, file) ==
  [id |-> row.id, values |-> NoFunction, origin |-> NoFunction, files |-> <<file>>,
   open |-> {}, issues |-> <<>>, state |-> "processing"]

\* _record_key_for, the same or the row's id, and the key as _validate, _merge
\* and the identity question write it: str of a None that the row supplied.
KeyFor(record) == Get(record.values, IdentityField)
RowKey(record) == IF KeyFor(record) = None THEN record.id ELSE KeyFor(record)
ShownKey(record) ==
  IF IdentityField \in DOMAIN record.values /\ KeyFor(record) = None THEN "None" ELSE RowKey(record)

SetValue(record, field, value, file) ==
  [record EXCEPT !.values = Put(@, field, value), !.origin = Put(@, field, file)]

\* The record being built is the last one.
Current(run) == run.records[Len(run.records)]
SetCurrent(run, record) == [run EXCEPT !.records[Len(run.records)] = record]

\* The current record waits on a case that exists, or on a new one.
WaitOn(run, n, field) ==
  LET record == Current(run)
  IN  [SetCurrent(run, [record EXCEPT !.open = @ \cup {n}]) EXCEPT
         !.cases[n].blocks = @ \cup {record.id}, !.valueCase = Put(@, <<record.id, field>>, n)]

\* A value that cannot be cleaned: one question for a column whose dates read
\* two ways, one for each value of a column that no option allows, one for
\* the cell otherwise; a record joins the question if it was asked already.
AskAboutValue(run, file, header, row, field, cleaned) ==
  LET raw     == row.cells[header]
      record  == Current(run)
      plan    == run.plans[<<file, header>>]
      column  == cleaned.alternatives # {} /\ plan.between # {}
      klass   == IF column THEN "AMBIGUOUS_VALUE"
                 ELSE IF header \in row.doubtful THEN "LOW_CONFIDENCE_EXTRACTION"
                 ELSE IF cleaned.alternatives # {} THEN "AMBIGUOUS_VALUE"
                 ELSE "VALIDATION_UNRESOLVED"
      perValue == klass = "AMBIGUOUS_VALUE" /\ ~column
      group   == <<file, header, IF column THEN None ELSE raw>>
      shared  == IF klass = "AMBIGUOUS_VALUE" THEN Get(run.sharedCase, group) ELSE None
      n       == IF shared # None THEN shared ELSE Len(run.cases) + 1
      case    == [NoCase EXCEPT !.klass = klass, !.recordKey = RowKey(record), !.field = field,
                    !.file = file, !.column = header, !.perValue = perValue, !.raw = raw,
                    !.options = IF column THEN {<<"format", fmt>> : fmt \in plan.between}
                                          ELSE {<<"value", v>> : v \in cleaned.alternatives}]
      asked   == IF shared # None THEN run ELSE Raise(run, case)
      grouped == IF klass = "AMBIGUOUS_VALUE"
                   THEN [asked EXCEPT !.sharedCase = Put(@, group, n)] ELSE asked
      rows    == IF n \in DOMAIN run.formatRows THEN run.formatRows[n] ELSE <<>>
  IN  WaitOn(IF column THEN [grouped EXCEPT !.formatRows = Put(@, n, Append(rows, <<record.id, raw>>))]
                       ELSE grouped, n, field)

\* _apply_value: a correction for the record, then an answer for the value,
\* then what cleaning makes of it.  A correction needs the record's key, which
\* is why the identity column comes first.
ApplyValue(run, overrides, file, row, header) ==
  LET record  == Current(run)
      field   == run.applied[<<file, header>>]
      raw     == row.cells[header]
      fixed   == IF KeyFor(record) = None THEN None
                 ELSE Get(overrides.values, <<KeyFor(record), field>>)
      chosen  == Get(overrides.valueMap, <<file, header, raw>>)
      cleaned == Clean(raw, field, run.plans[<<file, header>>])
      set(value) == SetCurrent(run, SetValue(record, field, value, file))
  IN  CASE fixed # None -> set(fixed)
        [] fixed = None /\ chosen # None -> set(chosen)
        [] fixed = None /\ chosen = None /\ cleaned.safe -> set(cleaned.value)
        [] OTHER -> AskAboutValue(run, file, header, row, field, cleaned)

\* A field set for every record of a file, where the row supplied nothing.
ApplyConstant(record, file, constant) ==
  IF /\ constant.scope \in {None, file}
     /\ constant.field \in FieldNames \ DOMAIN record.values
    THEN SetValue(record, constant.field, constant.value, record.files[1]) ELSE record

BuildRow(run, overrides, source, row) ==
  LET identity(header) == run.applied[<<source.name, header>>] = IdentityField
      headers == InOrder({a[2] : a \in {b \in DOMAIN run.applied : b[1] = source.name}},
                   LAMBDA g, h : \/ identity(g) /\ ~identity(h)
                                 \/ identity(g) = identity(h) /\ Place(g) < Place(h))
      begun  == [run EXCEPT !.records = Append(@, NewRecord(row, source.name))]
      filled == FoldLeft(LAMBDA d, h : ApplyValue(d, overrides, source.name, row, h), begun, headers)
  IN  SetCurrent(filled, FoldLeft(LAMBDA r, c : ApplyConstant(r, source.name, c),
                                  Current(filled), overrides.constants))

BuildFile(run, overrides, source) ==
  IF Supplied(run, source.name) = {} THEN run
  ELSE FoldLeft(LAMBDA d, row : BuildRow(d, overrides, source, row), run, source.rows)

Build(run, overrides, sources) ==
  LET done == FoldLeft(LAMBDA d, s : BuildFile(d, overrides, s), run, sources)
  IN  [done EXCEPT !.built = done.records]

(************************* merging the records *****************************)

\* _root: where the chain of merges from a row ends.
Root(mergedInto, id) ==
  LET ids == {id} \cup DOMAIN mergedInto \cup Range(mergedInto)
      end[x \in ids] == IF x \in DOMAIN mergedInto THEN end[mergedInto[x]] ELSE x
  IN  end[id]

RecordOf(run, id) == CHOOSE r \in Range(run.records) : r.id = id

SetRecord(run, record) ==
  [run EXCEPT !.records = [i \in DOMAIN @ |-> IF @[i].id = record.id THEN record ELSE @[i]]]

\* A record waits on one more case; a case that holds records is theirs as well.
Hold(run, ids, n) ==
  LET waits(r) == [r EXCEPT !.open = @ \cup {n}]
  IN  [run EXCEPT !.records = [i \in DOMAIN @ |-> IF @[i].id \in ids THEN waits(@[i]) ELSE @[i]]]

RaiseAgainst(run, case) == Hold(Raise(run, case), case.blocks, Len(run.cases) + 1)

\* Mutant: the values are taken, not where they come from.
Filled_WithoutOrigin(keep, other) ==
  LET gaps == {f \in DOMAIN other.values : Get(keep.values, f) = None}
  IN  [keep EXCEPT !.values = [f \in gaps |-> other.values[f]] @@ @, !.files = @ \o other.files]

\* What the record kept lacks comes from the other, with where it came from.
Filled(keep, other) ==
  LET gaps == {f \in DOMAIN other.values : Get(keep.values, f) = None}
      take(mine, theirs) == [f \in DOMAIN mine \cup gaps |-> IF f \in gaps THEN theirs[f] ELSE mine[f]]
  IN  [keep EXCEPT !.values = take(@, other.values), !.origin = take(@, other.origin),
                   !.files = @ \o other.files]

\* Mutant: the record kept is right unless the other's file is believed.
SettleField_KeepsMine(run, overrides, id, other, theirs, field) ==
  LET keep == RecordOf(run, id)
  IN  IF Prefer(overrides.authority, keep.files[1], other.files[1]) = other.files[1]
        THEN SetRecord(run, [keep EXCEPT !.values[field] = theirs]) ELSE run

\* A disagreement goes to the file believed first, which leaves the origin as
\* it was, or becomes a question that holds the record kept.
SettleField(run, overrides, id, other, theirs, field) ==
  LET keep   == RecordOf(run, id)
      mine   == keep.values[field]
      files  == <<keep.files[1], other.files[1]>>
      winner == Prefer(overrides.authority, files[1], files[2])
      case   == [NoCase EXCEPT !.klass = "CONFLICTING_FACTS", !.recordKey = ShownKey(keep),
                   !.field = field, !.file = files[1], !.blocks = {id},
                   !.options = {<<"value", mine>>, <<"value", theirs>>,
                                <<"authority", files[1]>>, <<"authority", files[2]>>}]
  IN  IF winner = None THEN RaiseAgainst(run, case)
      ELSE IF winner = files[1] THEN run
      ELSE SetRecord(run, [keep EXCEPT !.values[field] = theirs])

\* _merge, and what _reconcile notes of it.  The cases that held the other
\* record do not move to the one kept.
Merge(run, overrides, keep, other) ==
  LET fields == ConflictingFields(keep.values, other.values)
      settle(done, f) == SettleField(done, overrides, keep.id, other, other.values[f], f)
  IN  [FoldLeft(settle, SetRecord(run, Filled(keep, other)), fields) EXCEPT
         !.mergedInto = Put(@, other.id, keep.id)]

AskIdentity(run, left, right) ==
  RaiseAgainst(run, [NoCase EXCEPT !.klass = "UNCERTAIN_IDENTITY", !.recordKey = ShownKey(left),
    !.file = left.files[1], !.pair = <<RowKey(left), RowKey(right)>>, !.blocks = {left.id, right.id},
    !.options = {<<"identity", "merge">>, <<"identity", "separate">>},
    !.recommended = <<"identity", "separate">>])

\* An answer about two records stands before what matching decided.
ReconcilePair(run, overrides, pair) ==
  LET left   == RecordOf(run, Root(run.mergedInto, pair.left))
      right  == RecordOf(run, Root(run.mergedInto, pair.right))
      keys   == <<RowKey(left), RowKey(right)>>
      answered == keys \in DOMAIN overrides.merge
  IN  CASE left.id = right.id -> run
        [] left.id # right.id /\ answered ->
             IF overrides.merge[keys] THEN Merge(run, overrides, left, right) ELSE run
        [] left.id # right.id /\ ~answered /\ pair.decision = "auto_merge" ->
             Merge(run, overrides, left, right)
        [] left.id # right.id /\ ~answered /\ pair.decision = "review" -> AskIdentity(run, left, right)
        [] OTHER -> run

Reconcile(run, overrides) ==
  LET done == FoldLeft(LAMBDA d, pair : ReconcilePair(d, overrides, pair), run, MatchRecords(run.records))
      alone == {r \in Range(done.records) : r.id \notin DOMAIN done.mergedInto}
  IN  [done EXCEPT !.records = Those(@, alone)]

(************************ the same dates elsewhere *************************)

\* Whoever waits for a reading and has the date from another file supports the
\* readings that agree with it; a reading supported alone is recommended, and
\* the others cautioned against.
CrossCheckCase(run, n) ==
  LET case     == run.cases[n]
      readings == {option[2] : option \in case.options}
      survivor(row) == RecordOf(run, Root(run.mergedInto, row[1])).values
      origin(row)   == RecordOf(run, Root(run.mergedInto, row[1])).origin
      elsewhere == {row \in Range(run.formatRows[n]) :
                      /\ Get(survivor(row), case.field) # None
                      /\ origin(row)[case.field] # case.file}
      supported == {fmt \in readings : \E row \in elsewhere :
                      ReadAs(Trimmed(row[2]), fmt) = survivor(row)[case.field]}
      settled  == CHOOSE fmt \in supported : TRUE
  IN  IF Cardinality(supported) # 1 THEN case
      ELSE [case EXCEPT !.recommended = <<"format", settled>>,
                        !.cautioned = case.options \ {<<"format", settled>>}]

CrossCheckFormats(run) ==
  [run EXCEPT !.cases =
    [n \in DOMAIN @ |-> IF n \in DOMAIN run.formatRows THEN CrossCheckCase(run, n) ELSE @[n]]]

(************************ checking the records *****************************)

\* Mutant: the record waits, the case does not count it.
Attach_Uncounted(run, id, n) == Hold(run, {id}, n)

Attach(run, id, n) ==
  [Hold(run, {id}, n) EXCEPT !.cases[n].blocks = @ \cup {id}]

ClassOf(rule) ==
  CASE rule = "required" -> "MISSING_REQUIRED"
    [] rule \in {"reference:missing", "reference:self"} -> "UNRESOLVED_REFERENCE"
    [] OTHER -> "VALIDATION_UNRESOLVED"

\* An answer to a broken reference may be a value of the lookup it is to (the
\* code shows the first eight; any may be typed).
LookupOptions(field) ==
  IF FieldSpec[field].reference # None /\ FieldSpec[field].reference[1] \in DOMAIN Lookups
    THEN {<<"value", v>> : v \in Lookups[FieldSpec[field].reference[1]]} ELSE {}

\* One issue of one record: a field missing because its column was asked about
\* joins that question, one whose value was asked about is left to that, and
\* anything else is a question of its own.
AskAboutIssue(run, id, issue) ==
  LET record == RecordOf(run, id)
      field  == issue.field
      asked  == IF <<record.files[1], field>> \in DOMAIN run.fieldCase
                  THEN run.fieldCase[<<record.files[1], field>>] ELSE Get(run.fieldCase, <<None, field>>)
      klass  == ClassOf(issue.rule)
      case   == [NoCase EXCEPT !.klass = klass, !.recordKey = ShownKey(record), !.field = field,
                   !.file = record.files[1], !.blocks = {id},
                   !.options = IF klass = "UNRESOLVED_REFERENCE" THEN LookupOptions(field) ELSE {}]
  IN  CASE issue.rule = "required" /\ <<id, field>> \in DOMAIN run.valueCase -> run
        [] issue.rule = "required" /\ <<id, field>> \notin DOMAIN run.valueCase /\ asked # None ->
             Attach(run, id, asked)
        [] OTHER -> RaiseAgainst(run, case)

\* All records are checked before any is asked about.
Validate(run) ==
  LET known  == {KeyFor(r) : r \in Range(run.records)} \ {None}
      issues(r) == ValidateRecord(r.values, known) \o UniquenessIssues(r, run.records)
      found(r) == [r EXCEPT !.issues = issues(r)]
      checked  == [run EXCEPT !.records = [i \in DOMAIN @ |-> found(@[i])]]
      ask(done, r) == FoldLeft(LAMBDA d, issue : AskAboutIssue(d, r.id, issue), done, issues(r))
  IN  FoldLeft(ask, checked, run.records)

(************************* the state of a record ***************************)

StateOf(record, excluded) ==
  IF {KeyFor(record), record.id} \cap excluded # {} THEN "EXCLUDED"
  ELSE IF record.open # {} \/ record.issues # <<>>  THEN "BLOCKED"
  ELSE "READY"

Finished(record, excluded) ==
  [record EXCEPT !.state = StateOf(record, excluded),
                 !.open = IF StateOf(record, excluded) = "EXCLUDED" THEN {} ELSE @]

\* The record a reference names: the last of those with the key.
Named(run, value) ==
  LET places == {i \in DOMAIN run.records : KeyFor(run.records[i]) = value}
  IN  IF value = None \/ places = {} THEN None ELSE run.records[Max(places)]

\* A ready record waits for what the first record it refers to, not ready
\* itself, waits for; one that waits for nothing, being left out, holds nobody.
HoldRecord(run, id) ==
  LET record == RecordOf(run, id)
      other(i) == Named(run, Get(record.values, SelfReferences[i]))
      unready == {i \in DOMAIN SelfReferences :
                    other(i) # None /\ other(i).id # id /\ other(i).state # "READY"}
      open   == other(Min(unready)).open
      counts(case) == [case EXCEPT !.children = @ \cup {id}]
  IN  IF record.state # "READY" \/ unready = {} \/ open = {} THEN run
      ELSE [SetRecord(run, [record EXCEPT !.open = open, !.state = "BLOCKED"]) EXCEPT !.cases =
             [n \in DOMAIN @ |-> IF n \in open THEN counts(@[n]) ELSE @[n]]]

\* Mutant: one pass, which holds no chain that runs against the order of the rows.
HoldDependents_Once(run) == FoldLeft(LAMBDA d, r : HoldRecord(d, r.id), run, run.records)

\* _hold_dependents: a pass over the records for each of them, so that a chain
\* is followed to its end whatever its order.
HoldDependents(run) ==
  LET once(done, i) == FoldLeft(LAMBDA d, r : HoldRecord(d, r.id), done, run.records)
  IN  FoldLeft(once, run, [i \in DOMAIN run.records |-> i])

Finalise(run, overrides) ==
  HoldDependents([run EXCEPT !.records =
    [i \in DOMAIN @ |-> Finished(@[i], overrides.excluded)]])
=============================================================================
