--------------------------- MODULE DeliverySafety ---------------------------
(***************************************************************************)
(* Why the destination never holds two copies of a record.                 *)
(*                                                                         *)
(* Wherever a generation of a record is written down - in the log, in what *)
(* a push has read, in a request, at the destination - every generation    *)
(* before it is a tombstone.  Only an undo the destination confirmed makes *)
(* the next generation, and what it confirmed stays so.                    *)
(***************************************************************************)
EXTENDS DeliveryProofs, FiniteSetTheorems

\* The same questions as in Destination, about any set of records.
StoredIn(R, k, g) == \E r \in R : r.key = k /\ r.gen = g
TombstoneIn(R, k, g) == \E r \in R : r.key = k /\ r.gen = g /\ r.state = "rolled_back"

\* Every generation before this one is a tombstone.
ClearedIn(R, k, g) == \A h \in 1 .. g - 1 : TombstoneIn(R, k, h)

\* A success under generation g with this id: the generation was stored, and an
\* id that names a record names that one or a later one.
BackedIn(R, k, g, id) ==
    /\ StoredIn(R, k, g)
    /\ id > 0 => StoredIn(R, k, id) /\ g <= id

\* History stays: the records of R are in S, tombstones still tombstones.
Grows(R, S) ==
    \A r \in R : \E s \in S :
        /\ s.key = r.key /\ s.gen = r.gen /\ s.payload = r.payload
        /\ r.state = "rolled_back" => s.state = "rolled_back"

OnePerGeneration == \A r, s \in records : r.key = s.key /\ r.gen = s.gen => r = s
RecordsCleared == \A r \in records : ClearedIn(records, r.key, r.gen)
LogCleared ==
    \A k \in Keys : \A i \in DOMAIN log[k] : ClearedIn(records, k, log[k][i].gen)
GenerationsCleared ==
    \A w \in Pushers : \A k \in Keys : ClearedIn(records, k, gens[w][k])
CreatesCleared == \A q \in creates : ClearedIn(records, q.key, q.gen)
LogBacked ==
    \A k \in Keys : \A i \in DOMAIN log[k] :
        IsSuccess(log[k][i]) => BackedIn(records, k, log[k][i].gen, log[k][i].id)
Trying(w) ==
    \A i \in DOMAIN tried[w] :
        IsSuccess(tried[w][i]) =>
            BackedIn(records, current[w], gens[w][current[w]], tried[w][i].id)
TriedBacked == \A w \in Pushers : Trying(w)
\* A row being undone, or yet to be.
Undoing(R, t) == ClearedIn(R, t.key, t.gen) /\ BackedIn(R, t.key, t.gen, t.id)
TargetsBacked == \A u \in Undoers : \A t \in targets[u] : Undoing(records, t)
Asking(u) ==
    /\ upc[u] \in {"await", "undone", "failed"} => Undoing(records, target[u])
    /\ upc[u] = "undone" => ClearedIn(records, target[u].key, target[u].gen + 1)
TargetBacked == \A u \in Undoers : Asking(u)

SafeInv ==
    /\ OnePerGeneration
    /\ RecordsCleared
    /\ LogCleared
    /\ GenerationsCleared
    /\ CreatesCleared
    /\ LogBacked
    /\ TriedBacked
    /\ TargetsBacked
    /\ TargetBacked

IInv == TypeInv /\ SafeInv

-----------------------------------------------------------------------------
(***************************************************************************)
(* What is written at the destination stays: the facts the invariant rests *)
(* on survive every change of its records.                                 *)
(***************************************************************************)
LEMMA GrowsKeeps ==
    ASSUME NEW R, NEW S, Grows(R, S), NEW k, NEW g
    PROVE  /\ ClearedIn(R, k, g) => ClearedIn(S, k, g)
           /\ \A id : BackedIn(R, k, g, id) => BackedIn(S, k, g, id)
<1>1. \A h : StoredIn(R, k, h) => StoredIn(S, k, h)
  BY DEF Grows, StoredIn
<1>2. \A h : TombstoneIn(R, k, h) => TombstoneIn(S, k, h)
  BY DEF Grows, TombstoneIn
<1>3. QED
  BY <1>1, <1>2 DEF ClearedIn, BackedIn

\* Only the destination's handlers change records: one adds a record under a
\* generation that had none, one makes tombstones of those with an id.
Adds(q) ==
    /\ ~StoredIn(records, q.key, q.gen)
    /\ records' = records \union {[key |-> q.key, gen |-> q.gen, payload |-> q.payload,
                                   state |-> "accepted"]}
Buries(k, id) ==
    records' = {IF r.key = k /\ r.gen = id
                THEN [r EXCEPT !.state = "rolled_back"]
                ELSE r : r \in records}

LEMMA StoreAdds ==
    ASSUME NEW q, Store(q)
    PROVE  records' = records \/ Adds(q)
BY DEF Store, Adds, IsStored, RecordsAt, StoredIn

LEMMA StoreLeavesRecord ==
    ASSUME NEW q, Store(q)
    PROVE  StoredIn(records', q.key, q.gen)
<1>1. CASE IsStored(q.key, q.gen)
  BY <1>1 DEF Store, IsStored, RecordsAt, StoredIn
<1>2. CASE ~IsStored(q.key, q.gen)
  <2>. DEFINE new == [key |-> q.key, gen |-> q.gen, payload |-> q.payload,
                      state |-> "accepted"]
  <2>1. new \in records' /\ new.key = q.key /\ new.gen = q.gen
    BY <1>2 DEF Store
  <2>. HIDE DEF new
  <2>2. QED
    BY <2>1 DEF StoredIn
<1>3. QED
  BY <1>1, <1>2

LEMMA HandledAdds ==
    ASSUME NEW q, DestinationHandles(q)
    PROVE  records' = records \/ Adds(q)
BY StoreAdds DEF DestinationHandles, HandleNew, FailOnPurpose, ValidateAndStore

LEMMA RecordsStep ==
    ASSUME [Next]_vars
    PROVE  \/ records' = records
           \/ \E q \in creates : Adds(q) /\ DestinationHandles(q)
           \/ \E q \in undos : Buries(q.key, q.id)
<1>1. ASSUME NEW w \in Pushers, PusherStep(w) PROVE records' = records
  BY <1>1 DEF PusherStep, Arm, Load, Gate, ReadAlready, ReadGenerations, Pick, Finish, Send,
     ReconcileFinds, ReconcileMisses, RecordAttempt, Leave, destinationVars
<1>2. ASSUME NEW u \in Undoers, UndoerStep(u) PROVE records' = records
  BY <1>2 DEF UndoerStep, ReadTargets, AskUndo, RecordUndo, PauseSending, destinationVars
<1>3. ASSUME NEW q \in undos, DestinationUndoes(q) PROVE Buries(q.key, q.id)
  BY <1>3 DEF DestinationUndoes, Rollback, Buries
<1>4. ASSUME NEW q \in creates,
             DestinationKnows(q) \/ DestinationMisses(q) \/ DestinationHandles(q)
      PROVE  records' = records \/ (Adds(q) /\ DestinationHandles(q))
  BY <1>4, HandledAdds DEF DestinationKnows, DestinationMisses, destinationVars
<1>5. CASE RequestStep
  BY <1>5 DEF RequestStep, Press, JobReady, BeginUndo, ResultChanges, destinationVars
<1>6. CASE FaultStep
  BY <1>6 DEF FaultStep, NoAnswer, Unreachable, Finish, ReconcileFails, NoUndoAnswer,
     ApiRestarts, DestinationRestarts, Leave, destinationVars
<1>7. QED
  BY <1>1, <1>2, <1>3, <1>4, <1>5, <1>6 DEF Next, DestinationStep, vars

LEMMA GrowsStep ==
    ASSUME TypeOK, [Next]_vars
    PROVE  Grows(records, records')
<1>1. CASE records' = records
  BY <1>1 DEF Grows
<1>2. ASSUME NEW q \in creates, Adds(q) PROVE Grows(records, records')
  BY <1>2 DEF Adds, Grows
<1>3. ASSUME NEW q \in undos, Buries(q.key, q.id) PROVE Grows(records, records')
  <2>1. SUFFICES ASSUME NEW r \in records
                 PROVE  \E s \in records' :
                           /\ s.key = r.key /\ s.gen = r.gen /\ s.payload = r.payload
                           /\ r.state = "rolled_back" => s.state = "rolled_back"
    BY DEF Grows
  <2>2. r \in StoredRecords
    BY DEF TypeOK, DestinationTypeOK
  <2>3. CASE r.key = q.key /\ r.gen = q.id
    <3>1. [r EXCEPT !.state = "rolled_back"] \in records'
      BY <1>3, <2>3 DEF Buries
    <3>2. QED
      BY <2>2, <3>1 DEF StoredRecords
  <2>4. CASE ~(r.key = q.key /\ r.gen = q.id)
    <3>1. r \in records'
      BY <1>3, <2>4 DEF Buries
    <3>2. QED
      BY <3>1
  <2>5. QED
    BY <2>3, <2>4
<1>4. QED
  BY <1>1, <1>2, <1>3, RecordsStep

\* A record is added under a generation of its own, after tombstones only.
LEMMA RecordsSafeStep ==
    ASSUME IInv, [Next]_vars
    PROVE  OnePerGeneration' /\ RecordsCleared'
<1>1. \A k, g : ClearedIn(records, k, g) => ClearedIn(records', k, g)
  BY GrowsStep, GrowsKeeps DEF IInv, TypeInv
<1>2. CASE records' = records
  BY <1>2 DEF IInv, SafeInv, OnePerGeneration, RecordsCleared
<1>3. ASSUME NEW q \in creates, Adds(q) PROVE OnePerGeneration' /\ RecordsCleared'
  <2>. DEFINE new == [key |-> q.key, gen |-> q.gen, payload |-> q.payload,
                      state |-> "accepted"]
  <2>1. new.key = q.key /\ new.gen = q.gen /\ records' = records \union {new}
    BY <1>3 DEF Adds
  <2>2. \A r \in records : ~(r.key = q.key /\ r.gen = q.gen)
    BY <1>3 DEF Adds, StoredIn
  <2>3. ClearedIn(records, q.key, q.gen)
    BY DEF IInv, SafeInv, CreatesCleared
  <2>. HIDE DEF new
  <2>4. OnePerGeneration'
    BY <2>1, <2>2 DEF IInv, SafeInv, OnePerGeneration
  <2>5. RecordsCleared'
    BY <1>1, <2>1, <2>3 DEF IInv, SafeInv, RecordsCleared
  <2>6. QED
    BY <2>4, <2>5
<1>4. ASSUME NEW q \in undos, Buries(q.key, q.id)
      PROVE  OnePerGeneration' /\ RecordsCleared'
  <2>. DEFINE after(r) == IF r.key = q.key /\ r.gen = q.id
                          THEN [r EXCEPT !.state = "rolled_back"]
                          ELSE r
  <2>1. records' = {after(r) : r \in records}
    BY <1>4 DEF Buries
  <2>2. \A r \in records : after(r).key = r.key /\ after(r).gen = r.gen
    BY DEF IInv, TypeInv, TypeOK, DestinationTypeOK, StoredRecords
  <2>. HIDE DEF after
  <2>3. OnePerGeneration'
    BY <2>1, <2>2 DEF IInv, SafeInv, OnePerGeneration
  <2>4. RecordsCleared'
    BY <1>1, <2>1, <2>2 DEF IInv, SafeInv, RecordsCleared
  <2>5. QED
    BY <2>3, <2>4
<1>5. QED
  BY <1>2, <1>3, <1>4, RecordsStep

-----------------------------------------------------------------------------
(***************************************************************************)
(* The log and what a push holds.                                          *)
(***************************************************************************)

\* One more row, itself cleared and backed, keeps the log so.
LEMMA RowKeepsLog ==
    ASSUME IInv, [Next]_vars, NEW k \in Keys, NEW row \in Rows,
           log' = [log EXCEPT ![k] = Append(@, row)],
           ClearedIn(records, k, row.gen),
           IsSuccess(row) => BackedIn(records, k, row.gen, row.id)
    PROVE  LogCleared' /\ LogBacked'
<1>1. \A j, g : ClearedIn(records, j, g) => ClearedIn(records', j, g)
  BY GrowsStep, GrowsKeeps DEF IInv, TypeInv
<1>2. \A j, g, id : BackedIn(records, j, g, id) => BackedIn(records', j, g, id)
  BY GrowsStep, GrowsKeeps DEF IInv, TypeInv
<1>3. log[k] \in Seq(Rows) /\ log'[k] = Append(log[k], row)
  BY DEF IInv, TypeInv, TypeOK
<1>4. \A i \in DOMAIN log'[k] : (i \in DOMAIN log[k] /\ log'[k][i] = log[k][i])
                                \/ log'[k][i] = row
  BY <1>3, AppendByPosition
<1>5. \A j \in Keys \ {k} : log'[j] = log[j]
  BY DEF IInv, TypeInv, TypeOK
<1>6. \A j \in Keys : \A i \in DOMAIN log'[j] :
        (i \in DOMAIN log[j] /\ log'[j][i] = log[j][i]) \/ (j = k /\ log'[j][i] = row)
  BY <1>4, <1>5
<1>7. LogCleared'
  BY <1>1, <1>6 DEF IInv, SafeInv, LogCleared
<1>8. LogBacked'
  <2>1. SUFFICES ASSUME NEW j \in Keys, NEW i \in DOMAIN log'[j], IsSuccess(log'[j][i])
                 PROVE  BackedIn(records', j, log'[j][i].gen, log'[j][i].id)
    BY DEF LogBacked, IsSuccess
  <2>2. CASE i \in DOMAIN log[j] /\ log'[j][i] = log[j][i]
    <3>1. BackedIn(records, j, log[j][i].gen, log[j][i].id)
      BY <2>1, <2>2 DEF IInv, SafeInv, LogBacked
    <3>2. QED
      BY <1>2, <2>2, <3>1
  <2>3. CASE j = k /\ log'[j][i] = row
    BY <1>2, <2>1, <2>3
  <2>4. QED
    BY <1>6, <2>2, <2>3
<1>9. QED
  BY <1>7, <1>8

\* The row a push writes and the row an undo writes.
LEMMA LogSafeStep ==
    ASSUME IInv, [Next]_vars
    PROVE  LogCleared' /\ LogBacked'
<1>1. CASE log' = log
  <2>1. \A k, g : ClearedIn(records, k, g) => ClearedIn(records', k, g)
    BY GrowsStep, GrowsKeeps DEF IInv, TypeInv
  <2>2. \A k, g, id : BackedIn(records, k, g, id) => BackedIn(records', k, g, id)
    BY GrowsStep, GrowsKeeps DEF IInv, TypeInv
  <2>3. LogCleared'
    BY <1>1, <2>1 DEF IInv, SafeInv, LogCleared
  <2>4. LogBacked'
    BY <1>1, <2>2 DEF IInv, SafeInv, LogBacked, IsSuccess
  <2>5. QED
    BY <2>3, <2>4
<1>2. ASSUME NEW w \in Pushers, RecordAttempt(w) PROVE LogCleared' /\ LogBacked'
  <2>. DEFINE k == current[w]
              row == [gen |-> gens[w][k], outcome |-> Head(tried[w]).outcome,
                      id |-> Head(tried[w]).id]
  <2>1. k \in Keys /\ gens[w][k] \in Nat \ {0}
    BY DEF IInv, TypeInv, TypeOK
  <2>2. tried[w] \in Seq(Attempts) /\ tried[w] # <<>>
    BY <1>2 DEF RecordAttempt, Step, PushShape, IInv, TypeInv, TypeOK
  <2>3. Head(tried[w]) \in Attempts /\ Head(tried[w]) = tried[w][1] /\ 1 \in DOMAIN tried[w]
    BY <2>2, HeadTailProperties, EmptySeq, LenProperties
  <2>4. row \in Rows
    BY <2>1, <2>3 DEF Rows, Attempts
  <2>5. ClearedIn(records, k, row.gen)
    BY <2>1 DEF IInv, SafeInv, GenerationsCleared
  <2>6. IsSuccess(row) => BackedIn(records, k, row.gen, row.id)
    BY <2>3 DEF IInv, SafeInv, TriedBacked, Trying, IsSuccess
  <2>7. log' = [log EXCEPT ![k] = Append(@, row)]
    BY <1>2 DEF RecordAttempt
  <2>. HIDE DEF row, k
  <2>8. QED
    BY <2>1, <2>4, <2>5, <2>6, <2>7, RowKeepsLog
<1>3. ASSUME NEW u \in Undoers, RecordUndo(u) PROVE LogCleared' /\ LogBacked'
  <2>. DEFINE t == target[u]
              row == UndoRow(t, upc[u] = "undone")
  <2>1. t \in Targets
    BY DEF IInv, TypeInv, TypeOK
  <2>2. row \in Rows
    BY <2>1 DEF UndoRow, Targets, Rows, UndoOutcomes
  <2>3. ClearedIn(records, t.key, row.gen)
    BY <1>3 DEF RecordUndo, UndoRow, IInv, SafeInv, TargetBacked, Asking, Undoing
  <2>4. ~IsSuccess(row)
    BY DEF UndoRow, IsSuccess, Successes
  <2>5. log' = [log EXCEPT ![t.key] = Append(@, row)]
    BY <1>3 DEF RecordUndo
  <2>6. t.key \in Keys
    BY <2>1 DEF Targets
  <2>. HIDE DEF row, t
  <2>7. QED
    BY <2>2, <2>3, <2>4, <2>5, <2>6, RowKeepsLog
<1>4. QED
  BY <1>1, <1>2, <1>3, LogStep DEF IInv

\* The generations a push reads are of rows of the log, or the first.
LEMMA ReadsCleared ==
    ASSUME IInv, NEW k \in Keys
    PROVE  ClearedIn(records, k, Generation(log[k]))
<1>1. Generation(log[k]) \in Generations(log[k])
  BY GenerationIsTop DEF IInv, TypeInv, TypeOK, TopGeneration
<1>2. CASE Generation(log[k]) = 1
  BY <1>2 DEF ClearedIn
<1>3. CASE \E i \in DOMAIN log[k] : Generation(log[k]) = log[k][i].gen
  BY <1>3 DEF IInv, SafeInv, LogCleared
<1>4. QED
  BY <1>1, <1>2, <1>3 DEF Generations

LEMMA GensStep ==
    ASSUME [Next]_vars
    PROVE  gens' = gens \/ \E w \in Pushers : ReadGenerations(w)
<1>1. ASSUME NEW w \in Pushers, PusherStep(w), ~ReadGenerations(w) PROVE gens' = gens
  BY <1>1 DEF PusherStep, Arm, Load, Gate, ReadAlready, RecordAttempt, Pick, Finish, Send,
     ReconcileFinds, ReconcileMisses
<1>2. ASSUME NEW u \in Undoers, UndoerStep(u) PROVE gens' = gens
  BY <1>2 DEF UndoerStep, ReadTargets, AskUndo, RecordUndo, PauseSending, pushVars
<1>3. CASE DestinationStep
  BY <1>3 DEF DestinationStep, DestinationKnows, DestinationMisses, DestinationHandles,
     DestinationUndoes, pushVars
<1>4. CASE RequestStep
  BY <1>4 DEF RequestStep, Press, JobReady, BeginUndo, ResultChanges, pushVars
<1>5. CASE FaultStep
  BY <1>5 DEF FaultStep, NoAnswer, Unreachable, Finish, ReconcileFails, NoUndoAnswer,
     ApiRestarts, DestinationRestarts, pushVars
<1>6. QED
  BY <1>1, <1>2, <1>3, <1>4, <1>5 DEF Next, vars

LEMMA GensSafeStep ==
    ASSUME IInv, [Next]_vars
    PROVE  GenerationsCleared'
<1>1. \A k, g : ClearedIn(records, k, g) => ClearedIn(records', k, g)
  BY GrowsStep, GrowsKeeps DEF IInv, TypeInv
<1>2. CASE gens' = gens
  BY <1>1, <1>2 DEF IInv, SafeInv, GenerationsCleared
<1>3. ASSUME NEW w \in Pushers, ReadGenerations(w) PROVE GenerationsCleared'
  <2>1. \A v \in Pushers, k \in Keys :
          gens'[v][k] = IF v = w THEN Generation(log[k]) ELSE gens[v][k]
    BY <1>3 DEF ReadGenerations, IInv, TypeInv, TypeOK
  <2>2. QED
    BY <1>1, <2>1, ReadsCleared DEF IInv, SafeInv, GenerationsCleared
<1>4. QED
  BY <1>2, <1>3, GensStep

\* A request carries the generation its push has read, as long as it lasts.
LEMMA CreatesStep ==
    ASSUME TypeOK, [Next]_vars, NEW q \in creates'
    PROVE  \/ \E p \in creates : p.key = q.key /\ p.gen = q.gen
           \/ \E w \in Pushers : q.key = current[w] /\ q.gen = gens[w][q.key]
<1>. DEFINE Kept == \E p \in creates : p.key = q.key /\ p.gen = q.gen
<1>1. \A p \in creates : /\ [p EXCEPT !.by = Nobody].key = p.key
                         /\ [p EXCEPT !.by = Nobody].gen = p.gen
                         /\ [p EXCEPT !.isNew = TRUE].key = p.key
                         /\ [p EXCEPT !.isNew = TRUE].gen = p.gen
  BY DEF TypeOK, CreateRequests
<1>2. CASE creates' = creates
  BY <1>2
<1>3. ASSUME NEW w \in Pushers, Send(w)
      PROVE  Kept \/ (q.key = current[w] /\ q.gen = gens[w][q.key])
  BY <1>3 DEF Send
<1>4. ASSUME NEW p \in creates,
             DestinationKnows(p) \/ DestinationMisses(p) \/ DestinationHandles(p)
      PROVE  Kept
  BY <1>1, <1>4 DEF DestinationKnows, DestinationMisses, DestinationHandles
<1>5. ASSUME NEW w \in Pushers, NEW outcome, NoAnswer(w, outcome) PROVE Kept
  <2>1. q \in creates \/ \E p \in creates : q = [p EXCEPT !.by = Nobody]
    BY <1>5 DEF NoAnswer
  <2>2. QED
    BY <1>1, <2>1
<1>6. CASE ApiRestarts
  BY <1>1, <1>6 DEF ApiRestarts
<1>7. CASE DestinationRestarts
  BY <1>7 DEF DestinationRestarts
<1>8. ASSUME NEW w \in Pushers, PusherStep(w), ~Send(w) PROVE creates' = creates
  BY <1>8 DEF PusherStep, Arm, Load, Gate, ReadAlready, ReadGenerations, RecordAttempt, Pick,
     Finish, ReconcileFinds, ReconcileMisses
<1>9. ASSUME NEW u \in Undoers, UndoerStep(u) \/ BeginUndo(u) \/ NoUndoAnswer(u)
      PROVE  creates' = creates
  BY <1>9 DEF UndoerStep, ReadTargets, AskUndo, RecordUndo, PauseSending, BeginUndo,
     NoUndoAnswer
<1>10. ASSUME NEW w \in Pushers,
              \/ \E mode, keep : Press(w, mode, keep)
              \/ \E disarmed : Unreachable(w, disarmed) \/ Finish(w, disarmed)
              \/ ReconcileFails(w)
       PROVE  creates' = creates
  BY <1>10 DEF Press, Unreachable, Finish, ReconcileFails
<1>11. CASE (\E w \in Jobs : JobReady(w)) \/ ResultChanges
  BY <1>11 DEF JobReady, ResultChanges
<1>12. ASSUME NEW p \in undos, DestinationUndoes(p) PROVE creates' = creates
  BY <1>12 DEF DestinationUndoes
<1>13. CASE UNCHANGED vars
  BY <1>13 DEF vars
<1>14. QED
  <2>1. CASE DestinationStep
    BY <1>2, <1>4, <1>12, <2>1 DEF DestinationStep
  <2>2. CASE RequestStep
    BY <1>2, <1>9, <1>10, <1>11, <2>2 DEF RequestStep, Pushers
  <2>3. CASE FaultStep
    BY <1>2, <1>5, <1>6, <1>7, <1>9, <1>10, <2>3 DEF FaultStep, Pushers
  <2>4. QED
    BY <1>2, <1>3, <1>8, <1>9, <1>13, <2>1, <2>2, <2>3 DEF Next

LEMMA CreatesSafeStep ==
    ASSUME IInv, [Next]_vars
    PROVE  CreatesCleared'
<1>1. \A k, g : ClearedIn(records, k, g) => ClearedIn(records', k, g)
  BY GrowsStep, GrowsKeeps DEF IInv, TypeInv
<1>2. \A w \in Pushers : current[w] \in Keys
  BY DEF IInv, TypeInv, TypeOK
<1>3. QED
  BY <1>1, <1>2, CreatesStep DEF IInv, TypeInv, SafeInv, CreatesCleared, GenerationsCleared

-----------------------------------------------------------------------------
(***************************************************************************)
(* The attempts a push has made and not written down.                      *)
(***************************************************************************)
LEMMA TryingStays ==
    ASSUME IInv, [Next]_vars, NEW w \in Pushers,
           UNCHANGED <<tried[w], current[w], gens[w]>>
    PROVE  Trying(w)'
<1>1. \A k, g, id : BackedIn(records, k, g, id) => BackedIn(records', k, g, id)
  BY GrowsStep, GrowsKeeps DEF IInv, TypeInv
<1>2. QED
  BY <1>1 DEF IInv, SafeInv, TriedBacked, Trying, IsSuccess

\* One more attempt, itself backed.
LEMMA AttemptKeepsTried ==
    ASSUME IInv, [Next]_vars, NEW w \in Pushers, NEW a \in Attempts,
           tried' = [tried EXCEPT ![w] = Append(@, a)],
           UNCHANGED <<current, gens>>,
           IsSuccess(a) => BackedIn(records', current[w], gens[w][current[w]], a.id)
    PROVE  TriedBacked'
<1>1. \A k, g, id : BackedIn(records, k, g, id) => BackedIn(records', k, g, id)
  BY GrowsStep, GrowsKeeps DEF IInv, TypeInv
<1>2. \A v \in Pushers \ {w} : UNCHANGED <<tried[v], current[v], gens[v]>>
  BY DEF IInv, TypeInv, TypeOK
<1>3. tried[w] \in Seq(Attempts) /\ tried'[w] = Append(tried[w], a)
  BY DEF IInv, TypeInv, TypeOK
<1>4. \A i \in DOMAIN tried'[w] :
        (i \in DOMAIN tried[w] /\ tried'[w][i] = tried[w][i]) \/ tried'[w][i] = a
  BY <1>3, AppendProperties, LenProperties
<1>5. Trying(w)'
  BY <1>1, <1>4 DEF IInv, SafeInv, TriedBacked, Trying, IsSuccess
<1>6. QED
  BY <1>2, <1>5, TryingStays DEF TriedBacked

\* An answer heard, when a success is backed.
LEMMA HeardKeepsTried ==
    ASSUME IInv, [Next]_vars, NEW q \in creates, NEW id \in Ids,
           NEW status \in Statuses \union {"duplicate", "conflict"},
           Hears(q, Answer(status, id)),
           UNCHANGED <<current, gens>>,
           Classify(status) \in Successes => BackedIn(records', q.key, q.gen, id)
    PROVE  TriedBacked'
<1>1. CASE q.by = Nobody
  BY <1>1, TryingStays DEF Hears, TriedBacked
<1>2. CASE q.by # Nobody
  <2>1. q.by \in Pushers /\ q.key = current[q.by] /\ q.gen = gens[q.by][q.key]
    BY <1>2 DEF IInv, TypeInv, TypeOK, CreateRequests, CreateShape
  <2>. DEFINE a == [outcome |-> Classify(status), id |-> id]
  <2>2. tried' = [tried EXCEPT ![q.by] = Append(@, a)]
    BY <1>2 DEF Hears, Concludes, Answer
  <2>3. a \in Attempts
    BY ClassifyType DEF Attempts
  <2>4. IsSuccess(a) => BackedIn(records', current[q.by], gens[q.by][current[q.by]], a.id)
    BY <2>1 DEF IsSuccess
  <2>. HIDE DEF a
  <2>5. QED
    BY <2>1, <2>2, <2>3, <2>4, AttemptKeepsTried
<1>3. QED
  BY <1>1, <1>2

\* What is found at the destination is of the generation sent, or of one after:
\* those before are tombstones, and those are not found.
LEMMA FoundIsBacked ==
    ASSUME IInv, NEW w \in Pushers, NEW id, FindAccepted(current[w], id), id # NoId
    PROVE  BackedIn(records, current[w], gens[w][current[w]], id)
<1>. DEFINE k == current[w]
            g == gens[w][k]
<1>1. k \in Keys /\ g \in Nat \ {0}
  BY DEF IInv, TypeInv, TypeOK
<1>2. PICK r \in records : r.key = k /\ r.state = "accepted" /\ r.gen = id
  BY DEF FindAccepted, Held
<1>3. id \in Nat \ {0}
  BY <1>2 DEF IInv, TypeInv, TypeOK, DestinationTypeOK, StoredRecords
<1>4. ClearedIn(records, k, g) /\ ClearedIn(records, k, id)
  BY <1>1, <1>2 DEF IInv, SafeInv, GenerationsCleared, RecordsCleared
<1>. HIDE DEF k, g
<1>5. ~TombstoneIn(records, k, id)
  BY <1>2 DEF TombstoneIn, IInv, SafeInv, OnePerGeneration
<1>6. g <= id
  BY <1>1, <1>3, <1>4, <1>5 DEF ClearedIn
<1>7. StoredIn(records, k, id)
  BY <1>2 DEF StoredIn
<1>8. StoredIn(records, k, g)
  <2>1. CASE g = id
    BY <1>7, <2>1
  <2>2. CASE g # id
    <3>1. g \in 1 .. id - 1
      BY <1>1, <1>3, <1>6, <2>2
    <3>2. TombstoneIn(records, k, g)
      BY <1>4, <3>1 DEF ClearedIn
    <3>3. QED
      BY <3>2 DEF TombstoneIn, StoredIn
  <2>3. QED
    BY <2>1, <2>2
<1>9. QED
  BY <1>6, <1>7, <1>8 DEF BackedIn, k, g

\* A request that is answered well left a record under its generation.
LEMMA HandledIsBacked ==
    ASSUME IInv, [Next]_vars, NEW q \in creates,
           DestinationKnows(q) \/ DestinationHandles(q)
    PROVE  TriedBacked'
<1>1. q \in CreateRequests /\ q.gen \in Nat \ {0} /\ q.gen \in Ids
  BY DEF IInv, TypeInv, TypeOK, CreateRequests, Ids
<1>2. CASE DestinationKnows(q)
  <2>1. PICK status \in {"duplicate", "conflict"}, id \in {NoId, q.gen} :
          AnswerKnown(q, Answer(status, id)) /\ Hears(q, Answer(status, id))
    BY <1>2 DEF DestinationKnows
  <2>2. StoredIn(records, q.key, q.gen)
    BY <2>1 DEF AnswerKnown, RecordsAt, StoredIn
  <2>3. BackedIn(records', q.key, q.gen, id)
    BY <1>1, <1>2, <2>1, <2>2 DEF BackedIn, DestinationKnows, destinationVars, NoId
  <2>4. UNCHANGED <<current, gens>>
    BY <1>2 DEF DestinationKnows
  <2>5. id \in Ids
    BY <1>1, <2>1 DEF Ids, NoId
  <2>6. QED
    BY <2>1, <2>3, <2>4, <2>5, HeardKeepsTried
<1>3. CASE DestinationHandles(q)
  <2>1. PICK status \in Statuses, id \in {NoId, Phantom, q.gen} :
          HandleNew(q, Answer(status, id)) /\ Hears(q, Answer(status, id))
    BY <1>3 DEF DestinationHandles
  <2>2. UNCHANGED <<current, gens>>
    BY <1>3 DEF DestinationHandles
  <2>3. id \in Ids
    BY <1>1, <2>1 DEF Ids, NoId
  <2>4. ASSUME Classify(status) \in Successes PROVE BackedIn(records', q.key, q.gen, id)
    <3>1. status = "accepted"
      BY <2>1, <2>4 DEF Statuses, Classify, Successes, Refusals
    <3>2. Store(q) /\ id = StoredId(q)
      BY <2>1, <3>1 DEF HandleNew, FailOnPurpose, ValidateAndStore, Answer
    <3>3. StoredIn(records', q.key, q.gen)
      BY <3>2, StoreLeavesRecord
    <3>4. id > 0 => id = q.gen
      BY <1>1, <3>2 DEF StoredId, Phantom
    <3>5. QED
      BY <1>1, <3>3, <3>4 DEF BackedIn
  <2>5. QED
    BY <2>1, <2>2, <2>3, <2>4, HeardKeepsTried
<1>4. QED
  BY <1>2, <1>3

LEMMA TriedSafeStep ==
    ASSUME IInv, [Next]_vars
    PROVE  TriedBacked'
<1>1. CASE UNCHANGED <<tried, current, gens>>
  BY <1>1, TryingStays DEF TriedBacked
<1>2. ASSUME NEW w \in Pushers, tried'[w] = <<>>,
             \A v \in Pushers \ {w} : UNCHANGED <<tried[v], current[v], gens[v]>>
      PROVE  TriedBacked'
  <2>1. Trying(w)'
    BY <1>2 DEF Trying
  <2>2. QED
    BY <1>2, <2>1, TryingStays DEF TriedBacked
<1>3. ASSUME NEW w \in Pushers, ReadGenerations(w) \/ \E k \in Keys : Pick(w, k)
      PROVE  TriedBacked'
  <2>1. tried[w] = <<>> /\ tried' = tried
    BY <1>3 DEF ReadGenerations, Pick, Step, IInv, TypeInv, PushShape, Sending
  <2>2. \A v \in Pushers \ {w} : UNCHANGED <<current[v], gens[v]>>
    BY <1>3 DEF ReadGenerations, Pick, IInv, TypeInv, TypeOK
  <2>3. QED
    BY <1>2, <2>1, <2>2
<1>4. ASSUME NEW w \in Pushers, RecordAttempt(w) PROVE TriedBacked'
  <2>1. tried[w] \in Seq(Attempts) /\ tried[w] # <<>>
    BY <1>4 DEF RecordAttempt, Step, PushShape, IInv, TypeInv, TypeOK
  <2>2. tried'[w] = Tail(tried[w]) /\ UNCHANGED <<current, gens>>
    BY <1>4 DEF RecordAttempt, IInv, TypeInv, TypeOK
  <2>3. \A v \in Pushers \ {w} : UNCHANGED <<tried[v], current[v], gens[v]>>
    BY <1>4 DEF RecordAttempt, IInv, TypeInv, TypeOK
  <2>4. \A i \in DOMAIN tried'[w] :
          i + 1 \in DOMAIN tried[w] /\ tried'[w][i] = tried[w][i + 1]
    BY <2>1, <2>2, HeadTailProperties, LenProperties
  <2>5. \A k, g, id : BackedIn(records, k, g, id) => BackedIn(records', k, g, id)
    BY GrowsStep, GrowsKeeps DEF IInv, TypeInv
  <2>6. Trying(w)'
    BY <2>2, <2>4, <2>5 DEF IInv, SafeInv, TriedBacked, Trying, IsSuccess
  <2>7. QED
    BY <2>3, <2>6, TryingStays DEF TriedBacked
<1>5. ASSUME NEW w \in Pushers, NEW id, ReconcileFinds(w, id), id \in Nat PROVE TriedBacked'
  <2>. DEFINE a == [outcome |-> "duplicate", id |-> id]
  <2>1. a \in Attempts
    BY <1>5 DEF Attempts, Ids, SendOutcomes, Successes
  <2>2. tried' = [tried EXCEPT ![w] = Append(@, a)] /\ UNCHANGED <<current, gens, records>>
    BY <1>5 DEF ReconcileFinds, destinationVars
  <2>3. BackedIn(records, current[w], gens[w][current[w]], a.id)
    BY <1>5, FoundIsBacked DEF ReconcileFinds
  <2>. HIDE DEF a
  <2>4. QED
    BY <2>1, <2>2, <2>3, AttemptKeepsTried
<1>6. ASSUME NEW w \in Pushers, NEW outcome \in Retryables, NoAnswer(w, outcome)
      PROVE  TriedBacked'
  <2>. DEFINE a == [outcome |-> outcome, id |-> NoId]
  <2>1. a \in Attempts
    BY DEF Attempts, Ids, NoId, SendOutcomes
  <2>2. tried' = [tried EXCEPT ![w] = Append(@, a)] /\ UNCHANGED <<current, gens>>
    BY <1>6 DEF NoAnswer, Concludes
  <2>3. ~IsSuccess(a)
    BY DEF IsSuccess, Retryables, Successes
  <2>. HIDE DEF a
  <2>4. QED
    BY <2>1, <2>2, <2>3, AttemptKeepsTried
<1>7. CASE ApiRestarts
  BY <1>7 DEF ApiRestarts, TriedBacked, Trying
<1>8. ASSUME NEW w \in Pushers, PusherStep(w) PROVE TriedBacked'
  <2>1. CASE \E r \in records : ReconcileFinds(w, r.gen)
    BY <1>5, <2>1 DEF IInv, TypeInv, TypeOK, DestinationTypeOK, StoredRecords
  <2>2. CASE ~\E r \in records : ReconcileFinds(w, r.gen)
    BY <1>1, <1>3, <1>4, <1>8, <2>2 DEF PusherStep, Arm, Load, Gate, ReadAlready, Finish,
       Send, ReconcileMisses
  <2>3. QED
    BY <2>1, <2>2
<1>9. ASSUME NEW u \in Undoers, UndoerStep(u) \/ BeginUndo(u) \/ NoUndoAnswer(u)
      PROVE  TriedBacked'
  BY <1>1, <1>9 DEF UndoerStep, ReadTargets, AskUndo, RecordUndo, PauseSending, BeginUndo,
     NoUndoAnswer, pushVars
<1>10. ASSUME NEW w \in Pushers,
              \/ \E mode, keep : Press(w, mode, keep)
              \/ \E disarmed : Unreachable(w, disarmed) \/ Finish(w, disarmed)
              \/ ReconcileFails(w)
       PROVE  TriedBacked'
  BY <1>1, <1>10 DEF Press, Unreachable, Finish, ReconcileFails
<1>11. CASE (\E w \in Jobs : JobReady(w)) \/ ResultChanges \/ DestinationRestarts
  BY <1>1, <1>11 DEF JobReady, ResultChanges, DestinationRestarts, pushVars
<1>12. CASE DestinationStep
  <2>1. ASSUME NEW q \in undos, DestinationUndoes(q) PROVE TriedBacked'
    BY <1>1, <2>1 DEF DestinationUndoes, pushVars
  <2>2. ASSUME NEW q \in creates, DestinationMisses(q) PROVE TriedBacked'
    BY <1>1, <2>2 DEF DestinationMisses, pushVars
  <2>3. QED
    BY <1>12, <2>1, <2>2, HandledIsBacked DEF DestinationStep
<1>13. CASE UNCHANGED vars
  BY <1>1, <1>13 DEF vars
<1>14. QED
  <2>1. CASE RequestStep
    BY <1>9, <1>10, <1>11, <2>1 DEF RequestStep, Pushers
  <2>2. CASE FaultStep
    BY <1>6, <1>7, <1>9, <1>10, <1>11, <2>2 DEF FaultStep, Pushers
  <2>3. QED
    BY <1>8, <1>9, <1>12, <1>13, <2>1, <2>2 DEF Next

-----------------------------------------------------------------------------
(***************************************************************************)
(* What a rollback holds.                                                  *)
(***************************************************************************)
LEMMA UndoingStays ==
    ASSUME TypeOK, [Next]_vars, NEW t, Undoing(records, t)
    PROVE  Undoing(records', t)
BY GrowsStep, GrowsKeeps DEF Undoing

\* The rows a rollback picks are successes of the log.
LEMMA TargetsStep ==
    ASSUME TypeOK, [Next]_vars
    PROVE  \A u \in Undoers : \A t \in targets'[u] :
             \/ t \in targets[u]
             \/ \E k \in Keys : \E i \in DOMAIN log[k] :
                  /\ IsSuccess(log[k][i])
                  /\ t.key = k /\ t.gen = log[k][i].gen /\ t.id = log[k][i].id
<1>1. CASE targets' = targets
  BY <1>1
<1>2. ASSUME NEW u \in Undoers, ReadTargets(u), NEW t \in targets'[u]
      PROVE  \E k \in Keys : \E i \in DOMAIN log[k] :
                  /\ IsSuccess(log[k][i])
                  /\ t.key = k /\ t.gen = log[k][i].gen /\ t.id = log[k][i].id
  <2>1. PICK k \in Keys :
          \E i \in {j \in DOMAIN log[k] : IsUndoTarget(log[k], seen[u][k], j)} :
            t = [key |-> k, gen |-> log[k][i].gen, id |-> log[k][i].id]
    BY <1>2 DEF ReadTargets, TypeOK
  <2>2. PICK i \in DOMAIN log[k] :
          /\ IsUndoTarget(log[k], seen[u][k], i)
          /\ t = [key |-> k, gen |-> log[k][i].gen, id |-> log[k][i].id]
    BY <2>1
  <2>3. IsSuccess(log[k][i])
    BY <2>2 DEF IsUndoTarget, Undoable
  <2>4. t.key = k /\ t.gen = log[k][i].gen /\ t.id = log[k][i].id
    BY <2>2
  <2>5. QED
    BY <2>3, <2>4
<1>3. ASSUME NEW u \in Undoers, ReadTargets(u) \/ (\E t \in targets[u] : AskUndo(u, t)),
             NEW v \in Undoers, v # u
      PROVE  targets'[v] = targets[v]
  BY <1>3 DEF ReadTargets, AskUndo, TypeOK
<1>4. ASSUME NEW u \in Undoers, NEW t \in targets[u], AskUndo(u, t)
      PROVE  targets'[u] \subseteq targets[u]
  BY <1>4 DEF AskUndo, TypeOK
<1>5. CASE ApiRestarts
  BY <1>5 DEF ApiRestarts
<1>6. ASSUME NEW w \in Pushers, PusherStep(w) PROVE targets' = targets
  BY <1>6 DEF PusherStep, Arm, Load, Gate, ReadAlready, ReadGenerations, Pick, Finish, Send,
     ReconcileFinds, ReconcileMisses, RecordAttempt, undoVars
<1>7. ASSUME NEW u \in Undoers, RecordUndo(u) \/ PauseSending(u) PROVE targets' = targets
  BY <1>7 DEF RecordUndo, PauseSending
<1>8. CASE DestinationStep \/ RequestStep
  BY <1>8 DEF DestinationStep, DestinationKnows, DestinationMisses, DestinationHandles,
     DestinationUndoes, RequestStep, Press, JobReady, BeginUndo, ResultChanges, undoVars
<1>9. CASE FaultStep /\ ~ApiRestarts
  BY <1>9 DEF FaultStep, NoAnswer, Unreachable, Finish, ReconcileFails, NoUndoAnswer,
     DestinationRestarts, undoVars
<1>10. CASE UNCHANGED vars
  BY <1>10 DEF vars
<1>11. ASSUME NEW u \in Undoers, UndoerStep(u)
       PROVE  \A v \in Undoers : \A t \in targets'[v] :
                \/ t \in targets[v]
                \/ \E k \in Keys : \E i \in DOMAIN log[k] :
                     /\ IsSuccess(log[k][i])
                     /\ t.key = k /\ t.gen = log[k][i].gen /\ t.id = log[k][i].id
  BY <1>2, <1>3, <1>4, <1>7, <1>11 DEF UndoerStep
<1>12. QED
  BY <1>1, <1>5, <1>6, <1>8, <1>9, <1>10, <1>11 DEF Next

LEMMA TargetsSafeStep ==
    ASSUME IInv, [Next]_vars
    PROVE  TargetsBacked'
<1>1. SUFFICES ASSUME NEW u \in Undoers, NEW t \in targets'[u] PROVE Undoing(records, t)
  BY UndoingStays DEF TargetsBacked, IInv, TypeInv
<1>2. CASE t \in targets[u]
  BY <1>2 DEF IInv, SafeInv, TargetsBacked
<1>3. ASSUME NEW k \in Keys, NEW i \in DOMAIN log[k], IsSuccess(log[k][i]),
             t.key = k, t.gen = log[k][i].gen, t.id = log[k][i].id
      PROVE  Undoing(records, t)
  BY <1>3 DEF IInv, SafeInv, LogCleared, LogBacked, Undoing
<1>4. QED
  BY <1>2, <1>3, TargetsStep DEF IInv, TypeInv

\* An undo the destination confirmed clears the next generation: the id named
\* the record's generation, or one that came after its tombstone.
LEMMA ConfirmedClears ==
    ASSUME IInv, [Next]_vars, NEW t \in Targets, Undoing(records, t),
           IsStored(t.key, t.id), Buries(t.key, t.id)
    PROVE  ClearedIn(records', t.key, t.gen + 1)
<1>1. PICK r \in records : r.key = t.key /\ r.gen = t.id
  BY DEF IsStored, RecordsAt
<1>2. r \in StoredRecords /\ t.id \in Nat \ {0} /\ t.gen \in Nat \ {0}
  BY <1>1 DEF IInv, TypeInv, TypeOK, DestinationTypeOK, StoredRecords, Targets
<1>3. t.gen <= t.id
  BY <1>2 DEF Undoing, BackedIn
<1>4. TombstoneIn(records', t.key, t.id)
  <2>. DEFINE s == [r EXCEPT !.state = "rolled_back"]
  <2>1. s \in records' /\ s.key = t.key /\ s.gen = t.id /\ s.state = "rolled_back"
    BY <1>1, <1>2 DEF Buries, StoredRecords
  <2>. HIDE DEF s
  <2>2. QED
    BY <2>1 DEF TombstoneIn
<1>5. ClearedIn(records', t.key, t.id) /\ ClearedIn(records', t.key, t.gen)
  <2>1. ClearedIn(records, t.key, t.id)
    BY <1>1 DEF IInv, SafeInv, RecordsCleared
  <2>2. ClearedIn(records, t.key, t.gen)
    BY DEF Undoing
  <2>3. QED
    BY <2>1, <2>2, GrowsStep, GrowsKeeps DEF IInv, TypeInv
<1>6. ASSUME NEW h \in 1 .. (t.gen + 1) - 1 PROVE TombstoneIn(records', t.key, h)
  <2>1. h = t.id \/ h \in 1 .. t.id - 1
    BY <1>2, <1>3
  <2>2. QED
    BY <1>4, <1>5, <2>1 DEF ClearedIn
<1>7. QED
  BY <1>6 DEF ClearedIn

LEMMA TargetSafeStep ==
    ASSUME IInv, [Next]_vars
    PROVE  TargetBacked'
<1>1. ASSUME NEW u \in Undoers, UNCHANGED <<upc[u], target[u]>> PROVE Asking(u)'
  <2>1. \A k, g : ClearedIn(records, k, g) => ClearedIn(records', k, g)
    BY GrowsStep, GrowsKeeps DEF IInv, TypeInv
  <2>2. Undoing(records, target[u]) => Undoing(records', target[u])
    BY UndoingStays DEF IInv, TypeInv
  <2>3. Asking(u)
    BY DEF IInv, SafeInv, TargetBacked
  <2>4. QED
    BY <1>1, <2>1, <2>2, <2>3 DEF Asking
<1>2. ASSUME NEW u \in Undoers, upc'[u] \notin {"await", "undone", "failed"}
      PROVE  Asking(u)'
  BY <1>2 DEF Asking
<1>3. ASSUME NEW u \in Undoers,
             RecordUndo(u) \/ PauseSending(u) \/ BeginUndo(u) \/ ReadTargets(u)
      PROVE  TargetBacked'
  <2>1. upc'[u] \notin {"await", "undone", "failed"}
    BY <1>3 DEF RecordUndo, PauseSending, BeginUndo, ReadTargets, UndoStep, IInv, TypeInv,
       TypeOK
  <2>2. \A v \in Undoers \ {u} : UNCHANGED <<upc[v], target[v]>>
    BY <1>3 DEF RecordUndo, PauseSending, BeginUndo, ReadTargets, UndoStep, IInv, TypeInv,
       TypeOK
  <2>3. QED
    BY <1>1, <1>2, <2>1, <2>2 DEF TargetBacked
<1>4. ASSUME NEW u \in Undoers, NEW t \in targets[u], AskUndo(u, t) PROVE TargetBacked'
  <2>1. target'[u] = t /\ upc'[u] = "await"
        /\ \A v \in Undoers \ {u} : UNCHANGED <<upc[v], target[v]>>
    BY <1>4 DEF AskUndo, UndoStep, IInv, TypeInv, TypeOK
  <2>2. Undoing(records', t)
    BY UndoingStays DEF IInv, TypeInv, SafeInv, TargetsBacked
  <2>3. Asking(u)'
    BY <2>1, <2>2 DEF Asking, Undoing
  <2>4. QED
    BY <1>1, <2>1, <2>3 DEF TargetBacked
<1>5. ASSUME NEW u \in Undoers, NoUndoAnswer(u) PROVE TargetBacked'
  <2>1. upc[u] = "await" /\ upc'[u] = "failed" /\ target' = target
        /\ \A v \in Undoers \ {u} : UNCHANGED <<upc[v], target[v]>>
    BY <1>5 DEF NoUndoAnswer, UndoStep, IInv, TypeInv, TypeOK
  <2>2. Undoing(records', target[u])
    BY <2>1, UndoingStays DEF IInv, TypeInv, SafeInv, TargetBacked, Asking, Undoing
  <2>3. Asking(u)'
    BY <2>1, <2>2 DEF Asking
  <2>4. QED
    BY <1>1, <2>1, <2>3 DEF TargetBacked
<1>6. ASSUME NEW q \in undos, DestinationUndoes(q) PROVE TargetBacked'
  <2>1. target' = target /\ \A v \in Undoers : v # q.by => upc'[v] = upc[v]
    BY <1>6 DEF DestinationUndoes, IInv, TypeInv, TypeOK
  <2>2. CASE q.by = Nobody
    <3>1. \A v \in Undoers : UNCHANGED <<upc[v], target[v]>>
      BY <1>6, <2>1, <2>2 DEF DestinationUndoes
    <3>2. QED
      BY <1>1, <3>1 DEF TargetBacked
  <2>3. CASE q.by # Nobody
    <3>. DEFINE u == q.by
                t == target[u]
    <3>1. u \in Undoers /\ upc[u] = "await" /\ q.key = t.key /\ q.id = t.id /\ t \in Targets
      BY <2>3 DEF IInv, TypeInv, TypeOK, UndoRequests, UndoShape
    <3>2. Undoing(records, t)
      BY <3>1 DEF IInv, SafeInv, TargetBacked, Asking
    <3>3. Buries(t.key, t.id)
      BY <1>6, <3>1 DEF DestinationUndoes, Rollback, Buries
    <3>4. upc'[u] = IF IsStored(t.key, t.id) THEN "undone" ELSE "failed"
      BY <1>6, <2>3, <3>1 DEF DestinationUndoes, Rollback, IInv, TypeInv, TypeOK
    <3>5. Undoing(records', t)
      BY <3>2, UndoingStays DEF IInv, TypeInv, Undoing
    <3>6. upc'[u] = "undone" => ClearedIn(records', t.key, t.gen + 1)
      BY <3>1, <3>2, <3>3, <3>4, ConfirmedClears
    <3>. HIDE DEF u
    <3>7. Asking(u)'
      BY <2>1, <3>5, <3>6 DEF Asking, Undoing
    <3>8. \A v \in Undoers \ {u} : UNCHANGED <<upc[v], target[v]>>
      BY <2>1 DEF u
    <3>9. QED
      BY <1>1, <3>7, <3>8 DEF TargetBacked
  <2>4. QED
    BY <2>2, <2>3
<1>7. CASE ApiRestarts
  BY <1>2, <1>7 DEF ApiRestarts, TargetBacked
<1>8. CASE UNCHANGED <<upc, target>>
  BY <1>1, <1>8 DEF TargetBacked
<1>9. ASSUME NEW w \in Pushers, PusherStep(w) PROVE TargetBacked'
  BY <1>8, <1>9 DEF PusherStep, Arm, Load, Gate, ReadAlready, ReadGenerations, Pick, Finish,
     Send, ReconcileFinds, ReconcileMisses, RecordAttempt, undoVars
<1>10. CASE DestinationStep
  BY <1>6, <1>8, <1>10 DEF DestinationStep, DestinationKnows, DestinationMisses,
     DestinationHandles, undoVars
<1>11. CASE RequestStep
  BY <1>3, <1>8, <1>11 DEF RequestStep, Press, JobReady, ResultChanges, undoVars
<1>12. CASE FaultStep
  BY <1>5, <1>7, <1>8, <1>12 DEF FaultStep, NoAnswer, Unreachable, Finish, ReconcileFails,
     DestinationRestarts, undoVars
<1>13. CASE UNCHANGED vars
  BY <1>8, <1>13 DEF vars
<1>14. QED
  BY <1>3, <1>4, <1>9, <1>10, <1>11, <1>12, <1>13 DEF Next, UndoerStep

-----------------------------------------------------------------------------
(***************************************************************************)
(* The invariant, and what follows from it.                                *)
(***************************************************************************)
LEMMA InitSafe == Init => SafeInv
<1>. SUFFICES ASSUME Init PROVE SafeInv
  OBVIOUS
<1>1. OnePerGeneration /\ RecordsCleared /\ CreatesCleared
  BY DEF Init, DestinationInit, OnePerGeneration, RecordsCleared, CreatesCleared
<1>2. LogCleared /\ LogBacked
  BY DEF Init, LogCleared, LogBacked
<1>3. GenerationsCleared
  BY DEF Init, FirstGenerations, GenerationsCleared, ClearedIn
<1>4. TriedBacked /\ TargetsBacked /\ TargetBacked
  BY DEF Init, TriedBacked, Trying, TargetsBacked, TargetBacked, Asking
<1>5. QED
  BY <1>1, <1>2, <1>3, <1>4 DEF SafeInv

LEMMA Invariance == Spec => []IInv
<1>1. Init => IInv
  BY InitTypeInv, InitSafe DEF IInv
<1>2. IInv /\ [Next]_vars => TypeInv'
  BY TypeOKStep, PushShapeStep, CreateShapeStep, UndoShapeStep, TopGenerationStep
     DEF IInv, TypeInv
<1>3. IInv /\ [Next]_vars => SafeInv'
  BY RecordsSafeStep, LogSafeStep, GensSafeStep, CreatesSafeStep, TriedSafeStep,
     TargetsSafeStep, TargetSafeStep DEF SafeInv
<1>4. IInv /\ [Next]_vars => IInv'
  BY <1>2, <1>3 DEF IInv
<1>5. QED
  BY <1>1, <1>4, PTL DEF Spec

\* Of two accepted records of one key the one of the lower generation would be
\* a tombstone.
LEMMA HeldOnce ==
    ASSUME IInv
    PROVE  OneHeldCopy
<1>1. SUFFICES ASSUME NEW r \in records, NEW s \in records, r.key = s.key,
                      r.state = "accepted", s.state = "accepted"
               PROVE  ~(r.gen < s.gen) /\ (r.gen = s.gen => r = s)
  <2>1. \A r \in records : r.gen \in Nat
    BY DEF IInv, TypeInv, TypeOK, DestinationTypeOK, StoredRecords
  <2>2. QED
    BY <1>1, <2>1 DEF OneHeldCopy
<1>2. r.gen = s.gen => r = s
  BY <1>1 DEF IInv, SafeInv, OnePerGeneration
<1>3. ASSUME r.gen < s.gen PROVE FALSE
  <2>1. r.gen \in Nat \ {0} /\ s.gen \in Nat \ {0}
    BY DEF IInv, TypeInv, TypeOK, DestinationTypeOK, StoredRecords
  <2>2. TombstoneIn(records, r.key, r.gen)
    BY <1>1, <1>3, <2>1 DEF IInv, SafeInv, RecordsCleared, ClearedIn
  <2>3. QED
    BY <1>1, <2>2 DEF TombstoneIn, IInv, SafeInv, OnePerGeneration
<1>4. QED
  BY <1>2, <1>3

\* The destination never holds two copies of a record, whatever pushes and
\* undos overlap and whatever answers are lost.
THEOREM OneHeldCopyAlways == Spec => []OneHeldCopy
<1>1. IInv => OneHeldCopy
  BY HeldOnce
<1>2. QED
  BY <1>1, Invariance, PTL

\* A row that says accepted or duplicate is backed by a record of its key and
\* generation at the destination.
THEOREM AcceptanceAlwaysBacked == Spec => []AcceptanceIsBacked
<1>1. IInv => AcceptanceIsBacked
  BY DEF IInv, SafeInv, LogBacked, BackedIn, StoredIn, AcceptanceIsBacked, IsStored, RecordsAt
<1>2. QED
  BY <1>1, Invariance, PTL

\* The destination forgets nothing it stored and revives nothing it undid.
THEOREM HistoryAlwaysStays == Spec => HistoryStays
<1>1. IInv /\ [Next]_vars => Grows(records, records')
  BY GrowsStep DEF IInv, TypeInv
<1>2. Grows(records, records') =>
        [\A r \in records : \E s \in records' :
           /\ s.key = r.key /\ s.gen = r.gen /\ s.payload = r.payload
           /\ r.state = "rolled_back" => s.state = "rolled_back"]_vars
  BY DEF Grows
<1>3. QED
  BY <1>1, <1>2, Invariance, PTL DEF Spec, HistoryStays

-----------------------------------------------------------------------------
(***************************************************************************)
(* Why the destination's records keep the promise of ExactlyOnce, whatever *)
(* pushes and undos overlap and whatever is lost.                          *)
(*                                                                         *)
(* A record that is stored is the only one of its key that is not a        *)
(* tombstone, and the tombstones are numbered 1 to the one before it: it   *)
(* is the next copy.  A tombstone is made of the copy held, or of one that *)
(* is a tombstone already.  Nothing else touches the records.              *)
(***************************************************************************)

\* What of the records the promise is about, as DeliveryProperties maps it.
Copies(R, k) ==
    {[gen |-> r.gen, payload |-> r.payload] : r \in {s \in R : s.key = k /\ s.state = "accepted"}}
Buried(R, k) == {r.gen : r \in {s \in R : s.key = k /\ s.state = "rolled_back"}}

HeldCopies == [k \in Keys |-> Copies(records, k)]
UndoneCopies == [k \in Keys |-> Buried(records, k)]

\* The steps of the promise, over the variables it is mapped to.
LEMMA HoldByName ==
    ASSUME NEW k, NEW payload,
           HeldCopies[k] = {},
           HeldCopies' = [HeldCopies EXCEPT ![k] =
                            {[gen |-> Promise!Cardinality(UndoneCopies[k]) + 1,
                              payload |-> payload]}],
           UNCHANGED UndoneCopies
    PROVE  Promise!Hold(k, payload)
BY DEF Promise!Hold, HeldCopies, UndoneCopies, Copies, Buried, Held

LEMMA UndoByName ==
    ASSUME NEW k,
           HeldCopies[k] # {},
           HeldCopies' = [HeldCopies EXCEPT ![k] = {}],
           UndoneCopies' = [UndoneCopies EXCEPT ![k] = @ \union {c.gen : c \in HeldCopies[k]}]
    PROVE  Promise!Undo(k)
BY DEF Promise!Undo, HeldCopies, UndoneCopies, Copies, Buried, Held

\* The promise counts as this module does.
LEMMA PromiseCounts == \A S : Promise!Cardinality(S) = Cardinality(S)
BY DEF Cardinality, Promise!Cardinality

LEMMA InitKeepsPromise == Init => Promise!Init
BY DEF Init, DestinationInit, Promise!Init, Held

\* When a record is stored, all there is of its key are the tombstones before it.
LEMMA AddedIsNext ==
    ASSUME IInv, NEW q \in creates, Adds(q)
    PROVE  /\ Copies(records, q.key) = {}
           /\ Buried(records, q.key) = 1 .. q.gen - 1
<1>1. q.gen \in Nat \ {0} /\ ClearedIn(records, q.key, q.gen)
  BY DEF IInv, TypeInv, TypeOK, CreateRequests, SafeInv, CreatesCleared
<1>2. ASSUME NEW r \in records, r.key = q.key
      PROVE  r.gen \in 1 .. q.gen - 1 /\ r.state = "rolled_back"
  <2>1. r.gen \in Nat \ {0}
    BY DEF IInv, TypeInv, TypeOK, DestinationTypeOK, StoredRecords
  <2>2. r.gen # q.gen
    BY <1>2 DEF Adds, StoredIn
  <2>3. ~(q.gen < r.gen)
    <3>1. SUFFICES ASSUME q.gen < r.gen PROVE FALSE
      OBVIOUS
    <3>2. q.gen \in 1 .. r.gen - 1
      BY <1>1, <2>1, <3>1
    <3>3. TombstoneIn(records, q.key, q.gen)
      BY <1>2, <3>2 DEF IInv, SafeInv, RecordsCleared, ClearedIn
    <3>4. QED
      BY <3>3 DEF TombstoneIn, Adds, StoredIn
  <2>4. r.gen \in 1 .. q.gen - 1
    BY <1>1, <2>1, <2>2, <2>3
  <2>5. TombstoneIn(records, q.key, r.gen)
    BY <1>1, <2>4 DEF ClearedIn
  <2>6. r.state = "rolled_back"
    BY <1>2, <2>5 DEF TombstoneIn, IInv, SafeInv, OnePerGeneration
  <2>7. QED
    BY <2>4, <2>6
<1>3. Copies(records, q.key) = {}
  BY <1>2 DEF Copies
<1>4. \A h \in 1 .. q.gen - 1 : h \in Buried(records, q.key)
  BY <1>1 DEF ClearedIn, TombstoneIn, Buried
<1>5. \A h \in Buried(records, q.key) : h \in 1 .. q.gen - 1
  BY <1>2 DEF Buried
<1>6. QED
  BY <1>3, <1>4, <1>5

LEMMA AddKeepsPromise ==
    ASSUME IInv, NEW q \in creates, Adds(q)
    PROVE  Promise!Hold(q.key, q.payload)
<1>. DEFINE new == [key |-> q.key, gen |-> q.gen, payload |-> q.payload,
                    state |-> "accepted"]
<1>1. q.gen \in Nat \ {0} /\ q.key \in Keys
  BY DEF IInv, TypeInv, TypeOK, CreateRequests
<1>2. Cardinality(Buried(records, q.key)) + 1 = q.gen
  <2>1. \A n \in Nat : Cardinality(1 .. n) = n
    BY FS_Interval
  <2>2. Buried(records, q.key) = 1 .. q.gen - 1
    BY AddedIsNext
  <2>3. QED
    BY <1>1, <2>1, <2>2
<1>3. /\ new.key = q.key /\ new.gen = q.gen /\ new.payload = q.payload
      /\ new.state = "accepted"
      /\ records' = records \union {new}
  BY DEF Adds
<1>. HIDE DEF new
<1>4. \A k \in Keys : Buried(records', k) = Buried(records, k)
  BY <1>3 DEF Buried
<1>5. \A k \in Keys : k # q.key => Copies(records', k) = Copies(records, k)
  BY <1>3 DEF Copies
<1>6. Copies(records', q.key) = {[gen |-> q.gen, payload |-> q.payload]}
  <2>1. Copies(records', q.key) =
          Copies(records, q.key) \union {[gen |-> q.gen, payload |-> q.payload]}
    BY <1>3 DEF Copies
  <2>2. QED
    BY <2>1, AddedIsNext
<1>7. HeldCopies' = [HeldCopies EXCEPT ![q.key] = {[gen |-> q.gen, payload |-> q.payload]}]
  BY <1>1, <1>5, <1>6 DEF HeldCopies
<1>8. UndoneCopies' = UndoneCopies
  BY <1>4 DEF UndoneCopies
<1>9. HeldCopies[q.key] = {} /\ UndoneCopies[q.key] = Buried(records, q.key)
  BY <1>1, AddedIsNext DEF HeldCopies, UndoneCopies
<1>10. /\ HeldCopies[q.key] = {}
       /\ HeldCopies' = [HeldCopies EXCEPT ![q.key] =
                           {[gen |-> Promise!Cardinality(UndoneCopies[q.key]) + 1,
                             payload |-> q.payload]}]
       /\ UNCHANGED UndoneCopies
  BY <1>2, <1>7, <1>8, <1>9, PromiseCounts
<1>11. QED
  BY <1>10, HoldByName

\* A tombstone of the copy held is an undo; of one undone before, nothing.
LEMMA BuryKeepsPromise ==
    ASSUME IInv, NEW q \in undos, Buries(q.key, q.id)
    PROVE  Promise!Undo(q.key) \/ UNCHANGED <<HeldCopies, UndoneCopies>>
<1>1. q.key \in Keys
  BY DEF IInv, TypeInv, TypeOK, UndoRequests
<1>2. ASSUME NEW r \in records, r.key = q.key, r.gen = q.id, r.state = "accepted"
      PROVE  Promise!Undo(q.key)
  <2>. DEFINE buried == [r EXCEPT !.state = "rolled_back"]
              copy == [gen |-> r.gen, payload |-> r.payload]
  <2>1. \A s \in records : s.key = q.key /\ s.gen = q.id => s = r
    BY <1>2 DEF IInv, SafeInv, OnePerGeneration
  <2>2. \A s \in records : s.key = q.key /\ s.state = "accepted" => s = r
    BY <1>2, HeldOnce DEF OneHeldCopy
  <2>3. /\ buried.key = q.key /\ buried.gen = r.gen /\ buried.state = "rolled_back"
        /\ records' = (records \ {r}) \union {buried}
    <3>1. r \in StoredRecords
      BY DEF IInv, TypeInv, TypeOK, DestinationTypeOK
    <3>2. buried.key = q.key /\ buried.gen = r.gen /\ buried.state = "rolled_back"
      BY <1>2, <3>1 DEF StoredRecords
    <3>3. records' = (records \ {r}) \union {buried}
      BY <1>2, <2>1 DEF Buries
    <3>4. QED
      BY <3>2, <3>3
  <2>. HIDE DEF buried
  <2>4. \A k \in Keys : k # q.key => /\ Copies(records', k) = Copies(records, k)
                                    /\ Buried(records', k) = Buried(records, k)
    BY <1>2, <2>3 DEF Copies, Buried
  <2>5. Copies(records, q.key) = {copy} /\ Copies(records', q.key) = {}
    BY <1>2, <2>2, <2>3 DEF Copies
  <2>6. Buried(records', q.key) = Buried(records, q.key) \union {r.gen}
    BY <1>2, <2>3 DEF Buried
  <2>7. {c.gen : c \in {copy}} = {r.gen}
    OBVIOUS
  <2>. HIDE DEF copy
  <2>8. HeldCopies[q.key] = {copy} /\ HeldCopies' = [HeldCopies EXCEPT ![q.key] = {}]
    BY <1>1, <2>4, <2>5 DEF HeldCopies
  <2>9. UndoneCopies' =
          [UndoneCopies EXCEPT ![q.key] = @ \union {c.gen : c \in HeldCopies[q.key]}]
    BY <1>1, <2>4, <2>6, <2>7, <2>8 DEF UndoneCopies
  <2>10. QED
    BY <2>8, <2>9, UndoByName
<1>3. ASSUME \A r \in records : r.key = q.key /\ r.gen = q.id => r.state # "accepted"
      PROVE  UNCHANGED <<HeldCopies, UndoneCopies>>
  <2>1. \A r \in records : r.key = q.key /\ r.gen = q.id =>
          [r EXCEPT !.state = "rolled_back"] = r
    BY <1>3 DEF IInv, TypeInv, TypeOK, DestinationTypeOK, StoredRecords
  <2>2. records' = records
    BY <2>1 DEF Buries
  <2>3. QED
    BY <2>2 DEF HeldCopies, UndoneCopies
<1>4. QED
  BY <1>2, <1>3

LEMMA KeepsByName ==
    ASSUME UNCHANGED <<HeldCopies, UndoneCopies>>
    PROVE  UNCHANGED Promise!onceVars
BY DEF Promise!onceVars, HeldCopies, UndoneCopies, Copies, Buried, Held

\* The destination's records keep the promise made to their owner, of every
\* record one copy at a time, numbered without gaps, never again once undone:
\* every step of pushing, undoing, losing and restarting is a step of it or
\* none.
THEOREM PromiseAlwaysKept == Spec => PromiseKept
<1>1. Init => Promise!Init
  BY InitKeepsPromise
<1>2. ASSUME IInv, [Next]_vars PROVE [Promise!Next]_(Promise!onceVars)
  <2>1. CASE records' = records
    BY <2>1, KeepsByName DEF HeldCopies, UndoneCopies
  <2>2. ASSUME NEW q \in creates, Adds(q) PROVE Promise!Next
    <3>1. q.key \in Keys /\ q.payload \in Payloads
      BY <1>2 DEF IInv, TypeInv, TypeOK, CreateRequests
    <3>2. QED
      BY <1>2, <2>2, <3>1, AddKeepsPromise DEF Promise!Next
  <2>3. ASSUME NEW q \in undos, Buries(q.key, q.id)
        PROVE  [Promise!Next]_(Promise!onceVars)
    <3>1. q.key \in Keys
      BY <1>2 DEF IInv, TypeInv, TypeOK, UndoRequests
    <3>2. QED
      BY <1>2, <2>3, <3>1, BuryKeepsPromise, KeepsByName DEF Promise!Next
  <2>4. QED
    BY <1>2, <2>1, <2>2, <2>3, RecordsStep
<1>3. QED
  BY <1>1, <1>2, Invariance, PTL DEF Spec, PromiseKept, Promise!Spec
=============================================================================
