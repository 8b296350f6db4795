--------------------------- MODULE DeliveryLedger ---------------------------
(***************************************************************************)
(* Why the log and the destination agree, as far as the log is not in      *)
(* doubt: what it calls delivered is held, and what is held it calls       *)
(* delivered, as long as one rollback runs at a time and the API is not    *)
(* restarted in the middle.  Both are needed: a second rollback writes its *)
(* row into a generation the first one made, and a restart forgets the     *)
(* attempts, or the undo, a thread was about to write down.                *)
(***************************************************************************)
EXTENDS DeliverySafety

\* What is assumed: no second rollback, no restart of the API.
OneUndoer == \A u, v \in Undoers : u = v
Steady == Next /\ ~ApiRestarts
SteadySpec == Init /\ [][Steady]_vars

(***************************************************************************)
(* No generation is ahead of the log: a push, a request, a record and a    *)
(* rollback have theirs from it.                                           *)
(***************************************************************************)
GenerationsKnown ==
    /\ \A w \in Pushers, k \in Keys : gens[w][k] <= Generation(log[k])
    /\ \A q \in creates : q.gen <= Generation(log[q.key])
    /\ \A r \in records : r.gen <= Generation(log[r.key])
    /\ \A u \in Undoers : \A t \in targets[u] \union {target[u]} :
         t.gen <= Generation(log[t.key])

\* What a rollback has read of the log is still so, of each record once.
CurrentFor(u) ==
    /\ upc[u] = "rows" => \A k \in Keys : seen[u][k] \in {0, Generation(log[k])}
    /\ \A t \in targets[u] : t.gen = Generation(log[t.key])
    /\ \A t, s \in targets[u] : t.key = s.key => t = s
    /\ upc[u] \in {"await", "undone", "failed"} =>
         /\ target[u].gen = Generation(log[target[u].key])
         /\ \A t \in targets[u] : t.key # target[u].key
UndosCurrent == \A u \in Undoers : CurrentFor(u)

\* An undo of the record failed, or may have: an undo nobody waits for is one.
UndoFailed(k) ==
    \/ \E i \in DOMAIN log[k] : log[k][i].outcome = "rollback_failed"
    \/ \E u \in Undoers : target[u].key = k /\ upc[u] = "failed"
UndoOpen(k) ==
    \/ \E u \in Undoers : target[u].key = k /\ upc[u] \in {"await", "undone"}
    \/ UndoFailed(k)
AbandonedUndos == \A q \in undos : q.by = Nobody => UndoFailed(q.key)

\* A tombstone the log has not moved on from is of an undo not over, or failed.
TombstonesLogged ==
    \A r \in records : r.state = "rolled_back" =>
        r.gen < Generation(log[r.key]) \/ UndoOpen(r.key)

\* A push is at the record, under this generation, and an attempt ended so.
HasTried(w, k, g, outcomes) ==
    /\ pc[w] \in Sending /\ current[w] = k /\ gens[w][k] = g
    /\ \E i \in DOMAIN tried[w] : tried[w][i].outcome \in outcomes
Claimed(k, g) == \E w \in Pushers : HasTried(w, k, g, Successes)
Unsure(k, g) ==
    \/ \E w \in Pushers : HasTried(w, k, g, Retryables)
    \/ \E i \in At(log[k], g) : log[k][i].outcome \in Retryables

\* A request nobody waits for is one some push was not sure of, and a record
\* held comes of a request.
AbandonedCreates == \A q \in creates : q.by = Nobody => Unsure(q.key, q.gen)
HeldHasOrigin ==
    \A r \in records : r.state = "accepted" =>
        Accepted(log[r.key]) \/ Claimed(r.key, r.gen) \/ Unsure(r.key, r.gen)

LedgerInv ==
    /\ GenerationsKnown
    /\ UndosCurrent
    /\ AbandonedUndos
    /\ TombstonesLogged
    /\ AbandonedCreates
    /\ HeldHasOrigin

-----------------------------------------------------------------------------
(***************************************************************************)
(* What one more row makes of the log.                                     *)
(***************************************************************************)
LEMMA GenerationType ==
    ASSUME TypeInv, NEW k \in Keys
    PROVE  /\ Generation(log[k]) \in Nat \ {0}
           /\ Generation(log[k]) \in Generations(log[k])
           /\ \A h \in Generations(log[k]) : h <= Generation(log[k])
BY GenerationIsTop DEF TypeInv, TypeOK, TopGeneration

Adding(k, row) == log' = [log EXCEPT ![k] = Append(@, row)]

LEMMA AddedRow ==
    ASSUME TypeInv, TypeInv', NEW k \in Keys, NEW row \in Rows, Adding(k, row)
    PROVE  /\ \A j \in Keys : j # k => log'[j] = log[j]
           /\ DOMAIN log'[k] = DOMAIN log[k] \union {Len(log[k]) + 1}
           /\ \A i \in DOMAIN log[k] : log'[k][i] = log[k][i] /\ i < Len(log[k]) + 1
           /\ log'[k][Len(log[k]) + 1] = row
           /\ Generation(log'[k]) =
                IF row.gen <= Generation(log[k]) THEN Generation(log[k]) ELSE row.gen
<1>1. log[k] \in Seq(Rows) /\ log'[k] = Append(log[k], row)
  BY DEF Adding, TypeInv, TypeOK
<1>2. \A j \in Keys : j # k => log'[j] = log[j]
  BY DEF Adding, TypeInv, TypeOK
<1>3. /\ DOMAIN log'[k] = DOMAIN log[k] \union {Len(log[k]) + 1}
      /\ \A i \in DOMAIN log[k] : log'[k][i] = log[k][i]
      /\ log'[k][Len(log[k]) + 1] = row
  BY <1>1, AppendByPosition
<1>4. \A i \in DOMAIN log[k] : i < Len(log[k]) + 1
  BY <1>1, RowsByPosition
<1>5. Generations(log'[k]) = Generations(log[k]) \union {row.gen}
  BY <1>3 DEF Generations
<1>. DEFINE G == Generation(log[k])
            H == Generation(log'[k])
<1>6. G \in Nat \ {0} /\ G \in Generations(log[k]) /\ \A h \in Generations(log[k]) : h <= G
  BY GenerationType
<1>7. H \in Nat \ {0} /\ H \in Generations(log'[k]) /\ \A h \in Generations(log'[k]) : h <= H
  <2>1. log'[k] \in Seq(Rows)
    BY DEF TypeInv, TypeOK
  <2>2. \E g \in Generations(log'[k]) : \A h \in Generations(log'[k]) : h <= g
    BY DEF TypeInv, TopGeneration
  <2>3. QED
    BY <2>1, <2>2, GenerationIsTop
<1>8. row.gen \in Nat \ {0}
  BY DEF Rows
<1>. HIDE DEF G, H
<1>9. H = IF row.gen <= G THEN G ELSE row.gen
  BY <1>5, <1>6, <1>7, <1>8
<1>10. QED
  BY <1>2, <1>3, <1>4, <1>9 DEF G, H

\* The row a push writes, and the row a rollback writes.
AttemptRow(w) ==
    [gen |-> gens[w][current[w]], outcome |-> Head(tried[w]).outcome,
     id |-> Head(tried[w]).id]

LEMMA AttemptRowAdded ==
    ASSUME TypeInv, NEW w \in Pushers, RecordAttempt(w)
    PROVE  /\ current[w] \in Keys /\ AttemptRow(w) \in Rows
           /\ AttemptRow(w).gen = gens[w][current[w]]
           /\ AttemptRow(w).outcome \in SendOutcomes
           /\ Adding(current[w], AttemptRow(w))
<1>1. tried[w] \in Seq(Attempts) /\ tried[w] # <<>>
  BY DEF RecordAttempt, Step, PushShape, TypeInv, TypeOK
<1>2. Head(tried[w]) \in Attempts
  BY <1>1, HeadTailProperties
<1>3. current[w] \in Keys /\ gens[w][current[w]] \in Nat \ {0}
  BY DEF TypeInv, TypeOK
<1>4. AttemptRow(w) \in Rows /\ AttemptRow(w).outcome \in SendOutcomes
      /\ AttemptRow(w).gen = gens[w][current[w]]
  BY <1>2, <1>3 DEF AttemptRow, Rows, Attempts
<1>5. Adding(current[w], AttemptRow(w))
  BY DEF RecordAttempt, Adding, AttemptRow
<1>6. QED
  BY <1>3, <1>4, <1>5

LEMMA UndoRowAdded ==
    ASSUME TypeInv, NEW u \in Undoers, RecordUndo(u)
    PROVE  LET t == target[u]
               row == UndoRow(t, upc[u] = "undone")
           IN  /\ t.key \in Keys /\ t.gen \in Nat \ {0} /\ row \in Rows
               /\ Adding(t.key, row)
               /\ upc[u] = "undone" => row.gen = t.gen + 1 /\ row.outcome = "rolled_back"
               /\ upc[u] = "failed" => row.gen = t.gen /\ row.outcome = "rollback_failed"
<1>1. target[u] \in Targets
  BY DEF TypeInv, TypeOK
<1>2. UndoRow(target[u], upc[u] = "undone") \in Rows
  BY <1>1 DEF UndoRow, Targets, Rows, UndoOutcomes
<1>3. QED
  BY <1>1, <1>2 DEF RecordUndo, Adding, UndoRow, Targets

\* The generation of a record only goes up, and only when an undo is written.
LEMMA GenerationStep ==
    ASSUME TypeInv, TypeInv', GenerationsKnown, [Next]_vars, NEW k \in Keys
    PROVE  /\ Generation(log[k]) <= Generation(log'[k])
           /\ \/ Generation(log'[k]) = Generation(log[k])
              \/ \E u \in Undoers : /\ RecordUndo(u) /\ upc[u] = "undone"
                                    /\ target[u].key = k
<1>1. Generation(log[k]) \in Nat \ {0}
  BY GenerationType
<1>2. CASE log' = log
  BY <1>1, <1>2
<1>3. ASSUME NEW w \in Pushers, RecordAttempt(w)
      PROVE  Generation(log'[k]) = Generation(log[k])
  <2>1. AttemptRow(w).gen <= Generation(log[current[w]])
    BY <1>3, AttemptRowAdded DEF GenerationsKnown
  <2>2. Generation(log'[current[w]]) = Generation(log[current[w]])
    BY <1>3, <2>1, AttemptRowAdded, AddedRow
  <2>3. k # current[w] => log'[k] = log[k]
    BY <1>3, AttemptRowAdded, AddedRow
  <2>4. QED
    BY <2>2, <2>3
<1>4. ASSUME NEW u \in Undoers, RecordUndo(u)
      PROVE  /\ Generation(log[k]) <= Generation(log'[k])
             /\ Generation(log'[k]) = Generation(log[k])
                \/ (upc[u] = "undone" /\ target[u].key = k)
  <2>. DEFINE t == target[u]
              row == UndoRow(t, upc[u] = "undone")
  <2>1. t.key \in Keys /\ t.gen \in Nat \ {0} /\ row \in Rows /\ Adding(t.key, row)
        /\ upc[u] \in {"undone", "failed"}
    BY <1>4, UndoRowAdded DEF RecordUndo
  <2>2. row.gen \in Nat \ {0}
    BY <2>1 DEF Rows
  <2>. HIDE DEF row
  <2>3. k # t.key => log'[k] = log[k]
    BY <2>1, AddedRow
  <2>4. Generation(log'[t.key]) =
          IF row.gen <= Generation(log[t.key]) THEN Generation(log[t.key]) ELSE row.gen
    BY <2>1, AddedRow
  <2>5. CASE k # t.key
    BY <1>1, <2>3, <2>5
  <2>6. CASE k = t.key /\ upc[u] = "undone"
    BY <1>1, <2>2, <2>4, <2>6
  <2>7. CASE k = t.key /\ upc[u] = "failed"
    <3>1. row.gen = t.gen
      BY <1>4, <2>7, UndoRowAdded DEF row
    <3>2. t.gen <= Generation(log[k])
      BY <2>7 DEF GenerationsKnown
    <3>3. QED
      BY <1>1, <2>4, <2>7, <3>1, <3>2
  <2>8. QED
    BY <2>1, <2>5, <2>6, <2>7
<1>5. QED
  BY <1>1, <1>2, <1>3, <1>4, LogStep

\* What a rollback turns to is what it had picked.
LEMMA TargetStep ==
    ASSUME TypeOK, [Next]_vars, NEW u \in Undoers
    PROVE  target'[u] = target[u] \/ target'[u] \in targets[u]
<1>1. ASSUME NEW v \in Undoers, UndoerStep(v) \/ BeginUndo(v) \/ NoUndoAnswer(v)
      PROVE  target'[u] = target[u] \/ target'[u] \in targets[u]
  BY <1>1 DEF UndoerStep, ReadTargets, AskUndo, RecordUndo, PauseSending, BeginUndo,
     NoUndoAnswer, TypeOK
<1>2. ASSUME NEW w \in Pushers, PusherStep(w) PROVE target' = target
  BY <1>2 DEF PusherStep, Arm, Load, Gate, ReadAlready, ReadGenerations, Pick, Finish, Send,
     ReconcileFinds, ReconcileMisses, RecordAttempt, undoVars
<1>3. CASE DestinationStep
  BY <1>3 DEF DestinationStep, DestinationKnows, DestinationMisses, DestinationHandles,
     DestinationUndoes, undoVars
<1>4. CASE RequestStep
  BY <1>1, <1>4 DEF RequestStep, Press, JobReady, ResultChanges, undoVars
<1>5. CASE FaultStep
  BY <1>1, <1>5 DEF FaultStep, NoAnswer, Unreachable, Finish, ReconcileFails, ApiRestarts,
     DestinationRestarts, undoVars
<1>6. QED
  BY <1>1, <1>2, <1>3, <1>4, <1>5 DEF Next, vars

\* A record is one there was, tombstone or not, or of a request.
LEMMA RecordOrigin ==
    ASSUME TypeOK, [Next]_vars, NEW r \in records'
    PROVE  \/ \E s \in records : s.key = r.key /\ s.gen = r.gen
           \/ \E q \in creates : q.key = r.key /\ q.gen = r.gen
<1>1. CASE records' = records
  BY <1>1
<1>2. ASSUME NEW q \in creates, Adds(q)
      PROVE  \/ \E s \in records : s.key = r.key /\ s.gen = r.gen
             \/ q.key = r.key /\ q.gen = r.gen
  BY <1>2 DEF Adds
<1>3. ASSUME NEW q \in undos, Buries(q.key, q.id)
      PROVE  \E s \in records : s.key = r.key /\ s.gen = r.gen
  <2>1. PICK s \in records :
          r = IF s.key = q.key /\ s.gen = q.id THEN [s EXCEPT !.state = "rolled_back"] ELSE s
    BY <1>3 DEF Buries
  <2>2. s \in StoredRecords
    BY DEF TypeOK, DestinationTypeOK
  <2>3. s.key = r.key /\ s.gen = r.gen
    BY <2>1, <2>2 DEF StoredRecords
  <2>4. QED
    BY <2>3
<1>4. QED
  BY <1>1, <1>2, <1>3, RecordsStep

LEMMA GenerationsKnownStep ==
    ASSUME IInv, IInv', GenerationsKnown, [Next]_vars
    PROVE  GenerationsKnown'
<1>1. TypeInv /\ TypeInv' /\ TypeOK /\ TypeOK'
  BY DEF IInv, TypeInv
<1>2. \A k \in Keys : /\ Generation(log[k]) \in Nat /\ Generation(log'[k]) \in Nat
                      /\ Generation(log[k]) <= Generation(log'[k])
  <2>1. \A k \in Keys : Generation(log'[k]) \in Nat
    BY <1>1, GenerationIsTop DEF TypeInv, TypeOK, TopGeneration
  <2>2. QED
    BY <1>1, <2>1, GenerationType, GenerationStep
<1>3. ASSUME NEW w \in Pushers, NEW k \in Keys PROVE gens'[w][k] <= Generation(log'[k])
  <2>1. gens[w][k] \in Nat /\ gens[w][k] <= Generation(log[k])
    BY <1>1 DEF TypeOK, GenerationsKnown
  <2>2. CASE gens' = gens
    BY <1>2, <2>1, <2>2
  <2>3. ASSUME NEW v \in Pushers, ReadGenerations(v) PROVE gens'[w][k] <= Generation(log'[k])
    <3>1. gens'[w][k] = IF w = v THEN Generation(log[k]) ELSE gens[w][k]
      BY <1>1, <2>3 DEF ReadGenerations, TypeOK
    <3>2. QED
      BY <1>2, <2>1, <3>1
  <2>4. QED
    BY <2>2, <2>3, GensStep
<1>4. ASSUME NEW q \in creates' PROVE q.gen <= Generation(log'[q.key])
  <2>1. \A p \in creates : p.key \in Keys /\ p.gen \in Nat
    BY <1>1 DEF TypeOK, CreateRequests
  <2>2. CASE \E p \in creates : p.key = q.key /\ p.gen = q.gen
    BY <1>2, <2>1, <2>2 DEF GenerationsKnown
  <2>3. ASSUME NEW w \in Pushers, q.key = current[w], q.gen = gens[w][q.key]
        PROVE  q.gen <= Generation(log'[q.key])
    <3>1. q.key \in Keys /\ gens[w][q.key] \in Nat
      BY <1>1, <2>3 DEF TypeOK
    <3>2. QED
      BY <1>2, <2>3, <3>1 DEF GenerationsKnown
  <2>4. QED
    BY <1>1, <2>2, <2>3, CreatesStep
<1>5. ASSUME NEW r \in records' PROVE r.gen <= Generation(log'[r.key])
  <2>1. \A s \in records : s.key \in Keys /\ s.gen \in Nat
    BY <1>1 DEF TypeOK, DestinationTypeOK, StoredRecords
  <2>2. CASE \E s \in records : s.key = r.key /\ s.gen = r.gen
    BY <1>2, <2>1, <2>2 DEF GenerationsKnown
  <2>3. ASSUME NEW q \in creates, q.key = r.key, q.gen = r.gen
        PROVE  r.gen <= Generation(log'[r.key])
    <3>1. q.key \in Keys /\ q.gen \in Nat
      BY <1>1 DEF TypeOK, CreateRequests
    <3>2. QED
      BY <1>2, <2>3, <3>1 DEF GenerationsKnown
  <2>4. QED
    BY <1>1, <2>2, <2>3, RecordOrigin
<1>6. ASSUME NEW u \in Undoers, NEW t \in targets'[u] \union {target'[u]}
      PROVE  t.gen <= Generation(log'[t.key])
  <2>1. \A v \in Undoers : \A s \in targets[v] \union {target[v]} :
          s.key \in Keys /\ s.gen \in Nat
    <3>1. \A v \in Undoers : target[v] \in Targets /\ targets[v] \subseteq Targets
      BY <1>1 DEF TypeOK
    <3>2. \A s \in Targets : s.key \in Keys /\ s.gen \in Nat
      BY DEF Targets
    <3>3. QED
      BY <3>1, <3>2
  <2>2. CASE t \in targets[u] \union {target[u]}
    BY <1>2, <2>1, <2>2 DEF GenerationsKnown
  <2>3. ASSUME NEW k \in Keys, NEW i \in DOMAIN log[k], t.key = k, t.gen = log[k][i].gen
        PROVE  t.gen <= Generation(log'[t.key])
    <3>1. t.gen \in Generations(log[k])
      BY <2>3 DEF Generations
    <3>2. t.gen <= Generation(log[k]) /\ t.gen \in Nat
      <4>1. t.gen \in Nat
        BY <1>1, <2>3, RowsByPosition DEF TypeOK
      <4>2. QED
        BY <1>1, <3>1, <4>1, GenerationType
    <3>3. QED
      BY <1>2, <2>3, <3>2
  <2>4. QED
    BY <1>1, <2>2, <2>3, TargetsStep, TargetStep
<1>7. QED
  BY <1>3, <1>4, <1>5, <1>6 DEF GenerationsKnown

-----------------------------------------------------------------------------
(***************************************************************************)
(* One rollback at a time: what it has read of the log stays so.           *)
(***************************************************************************)

\* The destination answered its undo, or nobody did.
UndoEnds(u) ==
    /\ upc[u] = "await" /\ upc'[u] \in {"undone", "failed"}
    /\ UNCHANGED <<seen, targets, target, log>>

\* What a rollback does, and that nothing else disturbs it.
LEMMA UndoerCases ==
    ASSUME TypeInv, [Steady]_vars, NEW u \in Undoers, OneUndoer
    PROVE  \/ UNCHANGED <<upc[u], seen[u], targets[u], target[u]>>
           \/ BeginUndo(u) \/ ReadTargets(u) \/ (\E t \in targets[u] : AskUndo(u, t))
           \/ RecordUndo(u) \/ PauseSending(u)
           \/ UndoEnds(u)
<1>. DEFINE Rests == UNCHANGED <<upc[u], seen[u], targets[u], target[u]>>
<1>1. CASE UNCHANGED <<upc, seen, targets, target>>
  BY <1>1
<1>2. ASSUME NEW v \in Undoers, UndoerStep(v) \/ BeginUndo(v)
      PROVE  \/ BeginUndo(u) \/ ReadTargets(u) \/ (\E t \in targets[u] : AskUndo(u, t))
             \/ RecordUndo(u) \/ PauseSending(u)
  <2>1. v = u
    BY DEF OneUndoer
  <2>2. QED
    BY <1>2, <2>1 DEF UndoerStep
<1>3. ASSUME NEW v \in Undoers, NoUndoAnswer(v) PROVE UndoEnds(u)
  <2>1. v = u
    BY DEF OneUndoer
  <2>2. QED
    BY <1>3, <2>1 DEF NoUndoAnswer, UndoStep, UndoEnds, TypeInv, TypeOK, apiVars
<1>4. ASSUME NEW q \in undos, DestinationUndoes(q) PROVE Rests \/ UndoEnds(u)
  <2>1. CASE q.by = Nobody
    BY <1>4, <2>1 DEF DestinationUndoes
  <2>2. CASE q.by # Nobody
    <3>1. q.by = u /\ upc[u] = "await"
      BY <2>2 DEF TypeInv, TypeOK, UndoRequests, UndoShape, OneUndoer
    <3>2. upc'[u] \in {"undone", "failed"}
      BY <1>4, <2>2, <3>1 DEF DestinationUndoes, TypeInv, TypeOK
    <3>3. QED
      BY <1>4, <3>1, <3>2 DEF DestinationUndoes, UndoEnds, apiVars
  <2>3. QED
    BY <2>1, <2>2
<1>5. ASSUME NEW w \in Pushers, PusherStep(w) PROVE Rests
  BY <1>1, <1>5 DEF PusherStep, Arm, Load, Gate, ReadAlready, ReadGenerations, Pick, Finish,
     Send, ReconcileFinds, ReconcileMisses, RecordAttempt, undoVars
<1>6. CASE DestinationStep
  BY <1>1, <1>4, <1>6 DEF DestinationStep, DestinationKnows, DestinationMisses,
     DestinationHandles, undoVars
<1>7. CASE RequestStep
  BY <1>1, <1>2, <1>7 DEF RequestStep, Press, JobReady, ResultChanges, undoVars
<1>8. CASE FaultStep /\ ~ApiRestarts
  BY <1>1, <1>3, <1>8 DEF FaultStep, NoAnswer, Unreachable, Finish, ReconcileFails,
     DestinationRestarts, undoVars
<1>9. CASE UNCHANGED vars
  BY <1>1, <1>9 DEF vars
<1>10. QED
  BY <1>2, <1>5, <1>6, <1>7, <1>8, <1>9 DEF Steady, Next

LEMMA UndosCurrentStep ==
    ASSUME OneUndoer, IInv, IInv', GenerationsKnown, UndosCurrent, [Steady]_vars
    PROVE  UndosCurrent'
<1>1. TypeInv /\ TypeInv' /\ TypeOK /\ TypeOK' /\ [Next]_vars
  BY DEF IInv, TypeInv, Steady
<1>. SUFFICES ASSUME NEW u \in Undoers PROVE CurrentFor(u)'
  BY DEF UndosCurrent
<1>2. CurrentFor(u)
  BY DEF UndosCurrent
<1>3. \A k \in Keys : \/ Generation(log'[k]) = Generation(log[k])
                      \/ RecordUndo(u) /\ target[u].key = k
  BY <1>1, GenerationStep DEF OneUndoer
<1>4. /\ target[u].key \in Keys
      /\ \A t \in targets[u] : t.key \in Keys
  BY <1>1 DEF TypeOK, Targets
<1>5. CASE UNCHANGED <<upc[u], seen[u], targets[u], target[u]>>
  <2>1. ~RecordUndo(u)
    BY <1>1, <1>5 DEF RecordUndo, TypeOK
  <2>2. QED
    BY <1>2, <1>3, <1>4, <1>5, <2>1 DEF CurrentFor
<1>6. CASE BeginUndo(u)
  <2>1. upc'[u] = "rows" /\ \A k \in Keys : seen'[u][k] = AcceptedGeneration(log[k])
    BY <1>1, <1>6 DEF BeginUndo, UndoStep, TypeOK
  <2>2. log' = log /\ targets' = targets
    BY <1>6 DEF BeginUndo, apiVars
  <2>3. \A k \in Keys : AcceptedGeneration(log[k]) \in {0, Generation(log[k])}
    BY DEF AcceptedGeneration
  <2>4. QED
    BY <1>2, <2>1, <2>2, <2>3 DEF CurrentFor
<1>7. CASE ReadTargets(u)
  <2>1. upc[u] = "rows" /\ upc'[u] = "next" /\ log' = log
    BY <1>1, <1>7 DEF ReadTargets, UndoStep, TypeOK, apiVars
  <2>. DEFINE Picks(k, i) == i \in DOMAIN log[k] /\ IsUndoTarget(log[k], seen[u][k], i)
              picked(k, i) == [key |-> k, gen |-> log[k][i].gen, id |-> log[k][i].id]
  <2>2. \A t \in targets'[u] : \E k \in Keys : \E i : Picks(k, i) /\ t = picked(k, i)
    BY <1>1, <1>7 DEF ReadTargets, TypeOK
  <2>3. ASSUME NEW k \in Keys, NEW i, Picks(k, i) PROVE log[k][i].gen = Generation(log[k])
    <3>1. log[k][i].gen = seen[u][k]
      BY <2>3 DEF IsUndoTarget, Undoable, At
    <3>2. log[k][i].gen # 0
      BY <1>1, <2>3, RowsByPosition DEF TypeOK
    <3>3. QED
      BY <1>2, <2>1, <3>1, <3>2 DEF CurrentFor
  <2>4. ASSUME NEW k \in Keys, NEW i, NEW j, Picks(k, i), Picks(k, j) PROVE i = j
    <3>1. i \in Undoable(log[k], seen[u][k]) /\ j \in Undoable(log[k], seen[u][k])
      BY <2>4 DEF IsUndoTarget
    <3>2. i <= j /\ j <= i
      BY <2>4, <3>1 DEF IsUndoTarget
    <3>3. i \in Nat /\ j \in Nat
      BY <1>1, <2>4, RowsByPosition DEF TypeOK
    <3>4. QED
      BY <3>2, <3>3
  <2>. HIDE DEF Picks
  <2>5. \A t \in targets'[u] : t.gen = Generation(log[t.key])
    BY <2>2, <2>3
  <2>6. ASSUME NEW t \in targets'[u], NEW s \in targets'[u], t.key = s.key PROVE t = s
    <3>0. PICK k \in Keys : \E i : Picks(k, i) /\ t = picked(k, i)
      BY <2>2
    <3>1. PICK i : Picks(k, i) /\ t = picked(k, i)
      BY <3>0
    <3>2. PICK j : Picks(k, j) /\ s = picked(k, j)
      <4>0. PICK l \in Keys : \E j : Picks(l, j) /\ s = picked(l, j)
        BY <2>2
      <4>1. PICK j : Picks(l, j) /\ s = picked(l, j)
        BY <4>0
      <4>2. l = k
        BY <2>6, <3>1, <4>1
      <4>3. QED
        BY <4>1, <4>2
    <3>3. QED
      BY <2>4, <3>1, <3>2
  <2>7. QED
    BY <2>1, <2>5, <2>6 DEF CurrentFor
<1>8. ASSUME NEW t \in targets[u], AskUndo(u, t) PROVE CurrentFor(u)'
  <2>1. /\ target'[u] = t /\ upc'[u] = "await" /\ log' = log
        /\ targets'[u] = targets[u] \ {t}
    BY <1>1, <1>8 DEF AskUndo, UndoStep, TypeOK, apiVars
  <2>2. QED
    BY <1>2, <2>1 DEF CurrentFor
<1>9. CASE RecordUndo(u)
  <2>1. upc[u] \in {"undone", "failed"} /\ upc'[u] = "next" /\ UNCHANGED targets
    BY <1>1, <1>9 DEF RecordUndo, TypeOK
  <2>2. \A t \in targets[u] : t.key # target[u].key
    BY <1>2, <2>1 DEF CurrentFor
  <2>3. QED
    BY <1>2, <1>3, <1>4, <2>1, <2>2 DEF CurrentFor
<1>10. CASE PauseSending(u)
  <2>1. upc'[u] = "idle" /\ UNCHANGED <<targets, log>>
    BY <1>1, <1>10 DEF PauseSending, UndoStep, TypeOK
  <2>2. QED
    BY <1>2, <2>1 DEF CurrentFor
<1>11. CASE UndoEnds(u)
  BY <1>2, <1>11 DEF CurrentFor, UndoEnds
<1>12. QED
  BY <1>1, <1>5, <1>6, <1>7, <1>8, <1>9, <1>10, <1>11, UndoerCases

-----------------------------------------------------------------------------
(***************************************************************************)
(* Undos in doubt, and the tombstones they leave.                          *)
(***************************************************************************)

\* Rows written stay.
LEMMA RowsStay ==
    ASSUME TypeInv, TypeInv', [Next]_vars, NEW k \in Keys, NEW i \in DOMAIN log[k]
    PROVE  i \in DOMAIN log'[k] /\ log'[k][i] = log[k][i]
<1>1. CASE log' = log
  BY <1>1
<1>2. ASSUME NEW j \in Keys, NEW row \in Rows, Adding(j, row)
      PROVE  i \in DOMAIN log'[k] /\ log'[k][i] = log[k][i]
  BY <1>2, AddedRow
<1>3. QED
  BY <1>1, <1>2, LogStep, AttemptRowAdded, UndoRowAdded

LEMMA FailedStays ==
    ASSUME OneUndoer, TypeInv, TypeInv', [Steady]_vars, NEW k \in Keys, UndoFailed(k)
    PROVE  UndoFailed(k)'
<1>1. CASE \E i \in DOMAIN log[k] : log[k][i].outcome = "rollback_failed"
  BY <1>1, RowsStay DEF UndoFailed, Steady
<1>2. ASSUME NEW u \in Undoers, target[u].key = k, upc[u] = "failed" PROVE UndoFailed(k)'
  <2>1. CASE UNCHANGED <<upc[u], seen[u], targets[u], target[u]>>
    BY <1>2, <2>1 DEF UndoFailed
  <2>2. CASE RecordUndo(u)
    <3>. DEFINE row == UndoRow(target[u], upc[u] = "undone")
    <3>1. row \in Rows /\ row.outcome = "rollback_failed" /\ Adding(k, row)
      BY <1>2, <2>2, UndoRowAdded
    <3>. HIDE DEF row
    <3>2. Len(log[k]) + 1 \in DOMAIN log'[k] /\ log'[k][Len(log[k]) + 1] = row
      BY <3>1, AddedRow
    <3>3. QED
      BY <3>1, <3>2 DEF UndoFailed
  <2>3. QED
    BY <1>2, <2>1, <2>2, UndoerCases DEF BeginUndo, ReadTargets, AskUndo, PauseSending,
       UndoStep, UndoEnds
<1>3. QED
  BY <1>1, <1>2 DEF UndoFailed

\* A request to undo is of an undo that is not over, or that failed.
LEMMA RequestIsOpen ==
    ASSUME TypeInv, AbandonedUndos, NEW q \in undos
    PROVE  q.key \in Keys /\ UndoOpen(q.key)
<1>1. q \in UndoRequests
  BY DEF TypeInv, TypeOK
<1>2. CASE q.by = Nobody
  BY <1>1, <1>2 DEF AbandonedUndos, UndoOpen, UndoRequests
<1>3. CASE q.by # Nobody
  BY <1>1, <1>3 DEF TypeInv, UndoShape, UndoOpen, UndoRequests
<1>4. QED
  BY <1>2, <1>3

\* An undo under way ends in a row: of a failure, or of a generation that is
\* after every record there is.
LEMMA OpenStays ==
    ASSUME OneUndoer, IInv, IInv', GenerationsKnown, UndosCurrent, [Steady]_vars,
           NEW k \in Keys, UndoOpen(k)
    PROVE  \/ UndoOpen(k)'
           \/ /\ records' = records
              /\ \A r \in records : r.key = k => r.gen < Generation(log'[k])
<1>1. TypeInv /\ TypeInv' /\ TypeOK
  BY DEF IInv, TypeInv
<1>2. CASE UndoFailed(k)
  BY <1>1, <1>2, FailedStays DEF UndoOpen
<1>3. ASSUME NEW u \in Undoers, target[u].key = k, upc[u] \in {"await", "undone"}
      PROVE  \/ UndoOpen(k)'
             \/ /\ records' = records
                /\ \A r \in records : r.key = k => r.gen < Generation(log'[k])
  <2>1. CASE UNCHANGED <<upc[u], seen[u], targets[u], target[u]>>
    BY <1>3, <2>1 DEF UndoOpen
  <2>2. CASE UndoEnds(u)
    BY <1>3, <2>2 DEF UndoEnds, UndoOpen, UndoFailed
  <2>3. CASE RecordUndo(u)
    <3>. DEFINE row == UndoRow(target[u], upc[u] = "undone")
                G == Generation(log[k])
    <3>1. upc[u] = "undone" /\ records' = records
      BY <1>3, <2>3 DEF RecordUndo, destinationVars
    <3>2. row \in Rows /\ row.gen = target[u].gen + 1 /\ Adding(k, row)
      BY <1>1, <1>3, <2>3, <3>1, UndoRowAdded
    <3>3. G \in Nat /\ target[u].gen = G
      BY <1>1, <1>3, <3>1, GenerationType DEF UndosCurrent, CurrentFor
    <3>. HIDE DEF row
    <3>4. Generation(log'[k]) = IF row.gen <= G THEN G ELSE row.gen
      BY <1>1, <3>2, AddedRow
    <3>. HIDE DEF G
    <3>5. Generation(log'[k]) = G + 1
      BY <3>2, <3>3, <3>4
    <3>6. \A r \in records : r.key = k => r.gen \in Nat /\ r.gen <= G
      BY <1>1 DEF GenerationsKnown, TypeOK, DestinationTypeOK, StoredRecords, G
    <3>7. QED
      BY <3>1, <3>3, <3>5, <3>6
  <2>4. QED
    BY <1>1, <1>3, <2>1, <2>2, <2>3, UndoerCases DEF BeginUndo, ReadTargets, AskUndo,
       PauseSending, UndoStep
<1>4. QED
  BY <1>2, <1>3 DEF UndoOpen

\* Whose undo requests nobody waits for.
LEMMA UndosStep ==
    ASSUME TypeInv, [Steady]_vars, NEW q \in undos', q.by = Nobody
    PROVE  \/ q \in undos
           \/ \E u \in Undoers : NoUndoAnswer(u) /\ q.key = target[u].key
<1>1. ASSUME NEW u \in Undoers, NoUndoAnswer(u)
      PROVE  q \in undos \/ q.key = target[u].key
  <2>1. q \in undos \/ \E p \in undos : p.by = u /\ q = [p EXCEPT !.by = Nobody]
    BY <1>1 DEF NoUndoAnswer
  <2>2. \A p \in undos : [p EXCEPT !.by = Nobody].key = p.key
    BY DEF TypeInv, TypeOK, UndoRequests
  <2>3. \A p \in undos : p.by = u => p.key = target[u].key
    BY ThreadsAssumption DEF TypeInv, UndoShape
  <2>4. QED
    BY <2>1, <2>2, <2>3
<1>2. ASSUME NEW u \in Undoers, UndoerStep(u) \/ BeginUndo(u) PROVE q \in undos
  BY <1>2, ThreadsAssumption DEF UndoerStep, ReadTargets, AskUndo, RecordUndo, PauseSending,
     BeginUndo
<1>3. ASSUME NEW w \in Pushers, PusherStep(w) PROVE undos' = undos
  BY <1>3 DEF PusherStep, Arm, Load, Gate, ReadAlready, ReadGenerations, Pick, Finish, Send,
     ReconcileFinds, ReconcileMisses, RecordAttempt
<1>4. CASE DestinationStep
  BY <1>4 DEF DestinationStep, DestinationKnows, DestinationMisses, DestinationHandles,
     DestinationUndoes
<1>5. CASE RequestStep
  BY <1>2, <1>5 DEF RequestStep, Press, JobReady, ResultChanges
<1>6. CASE FaultStep /\ ~ApiRestarts
  BY <1>1, <1>6 DEF FaultStep, NoAnswer, Unreachable, Finish, ReconcileFails,
     DestinationRestarts
<1>7. QED
  BY <1>2, <1>3, <1>4, <1>5, <1>6 DEF Steady, Next, vars

LEMMA AbandonedUndosStep ==
    ASSUME OneUndoer, TypeInv, TypeInv', AbandonedUndos, [Steady]_vars
    PROVE  AbandonedUndos'
<1>. SUFFICES ASSUME NEW q \in undos', q.by = Nobody PROVE UndoFailed(q.key)'
  BY DEF AbandonedUndos
<1>1. CASE q \in undos
  <2>1. q.key \in Keys /\ UndoFailed(q.key)
    BY <1>1 DEF AbandonedUndos, TypeInv, TypeOK, UndoRequests
  <2>2. QED
    BY <2>1, FailedStays
<1>2. ASSUME NEW u \in Undoers, NoUndoAnswer(u), q.key = target[u].key
      PROVE  UndoFailed(q.key)'
  <2>1. upc'[u] = "failed" /\ target' = target
    BY <1>2 DEF NoUndoAnswer, UndoStep, TypeInv, TypeOK
  <2>2. QED
    BY <1>2, <2>1 DEF UndoFailed
<1>3. QED
  BY <1>1, <1>2, UndosStep

LEMMA TombstonesLoggedStep ==
    ASSUME OneUndoer, IInv, IInv', GenerationsKnown, UndosCurrent, AbandonedUndos,
           TombstonesLogged, [Steady]_vars
    PROVE  TombstonesLogged'
<1>1. TypeInv /\ TypeInv' /\ TypeOK /\ [Next]_vars
  BY DEF IInv, TypeInv, Steady
<1>. SUFFICES ASSUME NEW r \in records', r.state = "rolled_back"
              PROVE  r.gen < Generation(log'[r.key]) \/ UndoOpen(r.key)'
  BY DEF TombstonesLogged
<1>2. ASSUME NEW s \in records, s.key = r.key, s.gen = r.gen, UndoOpen(s.key)
      PROVE  r.gen < Generation(log'[r.key]) \/ UndoOpen(r.key)'
  <2>1. r.key \in Keys
    BY <1>1, <1>2 DEF TypeOK, DestinationTypeOK, StoredRecords
  <2>2. QED
    BY <1>2, <2>1, OpenStays
<1>3. CASE r \in records
  <2>1. r.key \in Keys /\ r.gen \in Nat
    BY <1>1, <1>3 DEF TypeOK, DestinationTypeOK, StoredRecords
  <2>2. CASE r.gen < Generation(log[r.key])
    <3>1. /\ Generation(log[r.key]) \in Nat
          /\ Generation(log[r.key]) <= Generation(log'[r.key])
      BY <1>1, <2>1, GenerationType, GenerationStep
    <3>2. Generation(log'[r.key]) \in Nat
      BY <1>1, <2>1, GenerationIsTop DEF TypeInv, TypeOK, TopGeneration
    <3>3. QED
      BY <2>1, <2>2, <3>1, <3>2
  <2>3. CASE UndoOpen(r.key)
    BY <1>2, <1>3, <2>3
  <2>4. QED
    BY <1>3, <2>2, <2>3 DEF TombstonesLogged
<1>4. CASE r \notin records
  <2>1. ASSUME NEW q \in creates, Adds(q) PROVE FALSE
    BY <1>4, <2>1 DEF Adds
  <2>2. PICK q \in undos : Buries(q.key, q.id)
    BY <1>1, <1>4, <2>1, RecordsStep
  <2>3. PICK s \in records : r = [s EXCEPT !.state = "rolled_back"] /\ s.key = q.key
    BY <1>4, <2>2 DEF Buries
  <2>4. s.key = r.key /\ s.gen = r.gen
    BY <1>1, <2>3 DEF TypeOK, DestinationTypeOK, StoredRecords
  <2>5. UndoOpen(s.key)
    BY <1>1, <2>3, RequestIsOpen
  <2>6. QED
    BY <1>2, <2>4, <2>5
<1>5. QED
  BY <1>3, <1>4

-----------------------------------------------------------------------------
(***************************************************************************)
(* What a push was told stays known: in its attempts, then in the log.     *)
(***************************************************************************)

\* The attempts of a push are kept, and it goes on with its record.
KeepsAttempts(w) ==
    /\ UNCHANGED <<current[w], gens[w]>> /\ pc'[w] \in Sending
    /\ \A i \in DOMAIN tried[w] : i \in DOMAIN tried'[w] /\ tried'[w][i] = tried[w][i]

\* One more attempt.
LEMMA MoreTried ==
    ASSUME TypeOK, NEW w \in Pushers, NEW a \in Attempts,
           tried' = [tried EXCEPT ![w] = Append(@, a)]
    PROVE  /\ \A i \in DOMAIN tried[w] : i \in DOMAIN tried'[w] /\ tried'[w][i] = tried[w][i]
           /\ \E i \in DOMAIN tried'[w] : tried'[w][i] = a
           /\ \A v \in Pushers : v # w => tried'[v] = tried[v]
<1>1. tried[w] \in Seq(Attempts) /\ tried'[w] = Append(tried[w], a)
  BY DEF TypeOK
<1>2. /\ DOMAIN tried[w] = 1 .. Len(tried[w]) /\ Len(tried[w]) \in Nat
      /\ DOMAIN tried'[w] = 1 .. Len(tried[w]) + 1
      /\ \A i \in 1 .. Len(tried[w]) : tried'[w][i] = tried[w][i]
      /\ tried'[w][Len(tried[w]) + 1] = a
  BY <1>1, AppendProperties, LenProperties
<1>3. Len(tried[w]) + 1 \in DOMAIN tried'[w] /\ DOMAIN tried[w] \subseteq DOMAIN tried'[w]
  BY <1>2
<1>4. QED
  BY <1>2, <1>3 DEF TypeOK

LEMMA ConcludesKeepsAttempts ==
    ASSUME TypeOK, NEW v \in Pushers, NEW outcome \in SendOutcomes, NEW id \in Ids,
           Concludes(v, outcome, id), UNCHANGED <<current, gens>>
    PROVE  /\ pc'[v] \in Sending
           /\ \E i \in DOMAIN tried'[v] : tried'[v][i].outcome = outcome
           /\ \A w \in Pushers : pc[w] \in Sending => KeepsAttempts(w)
<1>. DEFINE a == [outcome |-> outcome, id |-> id]
<1>1. a \in Attempts /\ a.outcome = outcome
  BY DEF Attempts
<1>2. tried' = [tried EXCEPT ![v] = Append(@, a)]
  BY DEF Concludes
<1>. HIDE DEF a
<1>3. /\ \A i \in DOMAIN tried[v] : i \in DOMAIN tried'[v] /\ tried'[v][i] = tried[v][i]
      /\ \E i \in DOMAIN tried'[v] : tried'[v][i] = a
      /\ \A w \in Pushers : w # v => tried'[w] = tried[w]
  BY <1>1, <1>2, MoreTried
<1>4. pc'[v] \in Sending /\ \A w \in Pushers : w # v => pc'[w] = pc[w]
  BY DEF Concludes, AfterAttempt, Sending, TypeOK
<1>5. QED
  BY <1>1, <1>3, <1>4 DEF KeepsAttempts

LEMMA HearsKeepsAttempts ==
    ASSUME TypeInv, NEW q \in creates, NEW id \in Ids,
           NEW status \in Statuses \union {"duplicate", "conflict"},
           Hears(q, Answer(status, id)), UNCHANGED <<current, gens>>,
           NEW w \in Pushers, pc[w] \in Sending
    PROVE  KeepsAttempts(w)
<1>1. CASE q.by = Nobody
  BY <1>1 DEF Hears, KeepsAttempts
<1>2. CASE q.by # Nobody
  <2>1. q.by \in Pushers
    BY <1>2 DEF TypeInv, TypeOK, CreateRequests
  <2>2. Concludes(q.by, Classify(status), id) /\ Classify(status) \in SendOutcomes
    BY <1>2, ClassifyType DEF Hears, Answer
  <2>3. QED
    BY <2>1, <2>2, ConcludesKeepsAttempts DEF TypeInv
<1>3. QED
  BY <1>1, <1>2

\* Only writing an attempt down takes it from a push.
LEMMA SendingStep ==
    ASSUME TypeInv, [Steady]_vars, NEW w \in Pushers, pc[w] \in Sending
    PROVE  RecordAttempt(w) \/ KeepsAttempts(w)
<1>1. ASSUME UNCHANGED <<pc, tried, current, gens>> PROVE KeepsAttempts(w)
  BY <1>1 DEF KeepsAttempts
<1>2. ASSUME NEW v \in Pushers, pc[v] \notin Sending, UNCHANGED tried,
             \A u \in Pushers : u # v => UNCHANGED <<pc[u], current[u], gens[u]>>
      PROVE  KeepsAttempts(w)
  <2>1. w # v
    BY <1>2
  <2>2. QED
    BY <1>2, <2>1 DEF KeepsAttempts
<1>3. ASSUME NEW v \in Pushers, pc'[v] \in Sending, UNCHANGED <<tried, current, gens>>,
             \A u \in Pushers : u # v => pc'[u] = pc[u]
      PROVE  KeepsAttempts(w)
  BY <1>3 DEF KeepsAttempts
<1>4. ASSUME NEW v \in Pushers, PusherStep(v) PROVE RecordAttempt(w) \/ KeepsAttempts(w)
  <2>1. CASE \/ Arm(v) \/ Load(v) \/ Gate(v) \/ ReadAlready(v) \/ ReadGenerations(v)
             \/ (\E k \in Keys : Pick(v, k)) \/ Finish(v, TRUE)
    <3>1. /\ pc[v] \notin Sending /\ UNCHANGED tried
          /\ \A u \in Pushers : u # v => UNCHANGED <<pc[u], current[u], gens[u]>>
      BY <2>1 DEF Arm, Load, Gate, ReadAlready, ReadGenerations, Pick, Finish, Step, Sending,
         TypeInv, TypeOK
    <3>2. QED
      BY <1>2, <3>1
  <2>2. CASE Send(v) \/ ReconcileMisses(v)
    <3>1. /\ pc'[v] \in Sending /\ UNCHANGED <<tried, current, gens>>
          /\ \A u \in Pushers : u # v => pc'[u] = pc[u]
      BY <2>2 DEF Send, ReconcileMisses, Step, Sending, TypeInv, TypeOK
    <3>2. QED
      BY <1>3, <3>1
  <2>3. ASSUME NEW r \in records, ReconcileFinds(v, r.gen) PROVE KeepsAttempts(w)
    <3>. DEFINE a == [outcome |-> "duplicate", id |-> r.gen]
    <3>1. a \in Attempts
      BY DEF Attempts, SendOutcomes, Successes, Ids, TypeInv, TypeOK, DestinationTypeOK,
         StoredRecords
    <3>2. tried' = [tried EXCEPT ![v] = Append(@, a)]
      BY <2>3 DEF ReconcileFinds
    <3>. HIDE DEF a
    <3>3. /\ \A i \in DOMAIN tried[v] : i \in DOMAIN tried'[v] /\ tried'[v][i] = tried[v][i]
          /\ \A u \in Pushers : u # v => tried'[u] = tried[u]
      BY <3>1, <3>2, MoreTried DEF TypeInv
    <3>4. /\ pc'[v] \in Sending /\ UNCHANGED <<current, gens>>
          /\ \A u \in Pushers : u # v => pc'[u] = pc[u]
      BY <2>3 DEF ReconcileFinds, Sending, TypeInv, TypeOK
    <3>5. QED
      BY <3>3, <3>4 DEF KeepsAttempts
  <2>4. CASE RecordAttempt(v) /\ w # v
    BY <2>4 DEF RecordAttempt, Step, KeepsAttempts, TypeInv, TypeOK
  <2>5. QED
    BY <1>4, <2>1, <2>2, <2>3, <2>4 DEF PusherStep
<1>5. ASSUME NEW u \in Undoers, UndoerStep(u) \/ BeginUndo(u) \/ NoUndoAnswer(u)
      PROVE  KeepsAttempts(w)
  <2>1. UNCHANGED pushVars
    BY <1>5 DEF UndoerStep, ReadTargets, AskUndo, RecordUndo, PauseSending, BeginUndo,
       NoUndoAnswer
  <2>2. UNCHANGED <<pc, tried, current, gens>>
    BY <2>1 DEF pushVars
  <2>3. QED
    BY <1>1, <2>2
<1>6. CASE DestinationStep
  <2>1. ASSUME NEW q \in creates, DestinationKnows(q) PROVE KeepsAttempts(w)
    <3>1. PICK status \in {"duplicate", "conflict"}, id \in {NoId, q.gen} :
            Hears(q, Answer(status, id))
      BY <2>1 DEF DestinationKnows
    <3>2. id \in Ids /\ UNCHANGED <<current, gens>>
      BY <2>1, <3>1 DEF DestinationKnows, Ids, NoId, TypeInv, TypeOK, CreateRequests
    <3>3. QED
      BY <3>1, <3>2, HearsKeepsAttempts
  <2>2. ASSUME NEW q \in creates, DestinationHandles(q) PROVE KeepsAttempts(w)
    <3>1. PICK status \in Statuses, id \in {NoId, Phantom, q.gen} :
            Hears(q, Answer(status, id))
      BY <2>2 DEF DestinationHandles
    <3>2. id \in Ids /\ UNCHANGED <<current, gens>>
      BY <2>2, <3>1 DEF DestinationHandles, Ids, NoId, TypeInv, TypeOK, CreateRequests
    <3>3. QED
      BY <3>1, <3>2, HearsKeepsAttempts
  <2>3. QED
    BY <1>1, <1>6, <2>1, <2>2 DEF DestinationStep, DestinationMisses, DestinationUndoes, pushVars
<1>7. ASSUME NEW v \in Pushers,
             \/ \E mode, keep : Press(v, mode, keep)
             \/ JobReady(v)
             \/ \E disarmed : Unreachable(v, disarmed) \/ Finish(v, disarmed)
      PROVE  KeepsAttempts(w)
  <2>1. /\ pc[v] \notin Sending /\ UNCHANGED tried
        /\ \A u \in Pushers : u # v => UNCHANGED <<pc[u], current[u], gens[u]>>
    BY <1>7 DEF Press, JobReady, Unreachable, Finish, Step, Sending, TypeInv, TypeOK
  <2>2. QED
    BY <1>2, <2>1
<1>8. ASSUME NEW v \in Pushers, ReconcileFails(v) PROVE KeepsAttempts(w)
  BY <1>3, <1>8 DEF ReconcileFails, Step, Sending, TypeInv, TypeOK
<1>9. ASSUME NEW v \in Pushers, NEW outcome \in Retryables, NoAnswer(v, outcome)
      PROVE  KeepsAttempts(w)
  BY <1>9, ConcludesKeepsAttempts DEF NoAnswer, SendOutcomes, Ids, NoId, TypeInv
<1>10. CASE ResultChanges \/ DestinationRestarts \/ UNCHANGED vars
  BY <1>1, <1>10 DEF ResultChanges, DestinationRestarts, pushVars, vars
<1>11. CASE RequestStep
  BY <1>5, <1>7, <1>10, <1>11 DEF RequestStep, Pushers
<1>12. CASE FaultStep /\ ~ApiRestarts
  BY <1>5, <1>7, <1>8, <1>9, <1>10, <1>12 DEF FaultStep, Pushers
<1>13. QED
  BY <1>4, <1>5, <1>6, <1>10, <1>11, <1>12 DEF Steady, Next

\* What a push was told goes into its row, under the generation it has read.
LEMMA TriedStays ==
    ASSUME TypeInv, [Steady]_vars, NEW w \in Pushers, NEW k, NEW g, NEW outcomes,
           HasTried(w, k, g, outcomes)
    PROVE  \/ HasTried(w, k, g, outcomes)'
           \/ /\ RecordAttempt(w) /\ current[w] = k /\ gens[w][k] = g
              /\ AttemptRow(w).outcome \in outcomes
<1>1. PICK i \in DOMAIN tried[w] : tried[w][i].outcome \in outcomes
  BY DEF HasTried
<1>2. CASE KeepsAttempts(w)
  <2>1. i \in DOMAIN tried'[w] /\ tried'[w][i].outcome \in outcomes
    BY <1>1, <1>2 DEF KeepsAttempts
  <2>2. QED
    BY <1>2, <2>1 DEF HasTried, KeepsAttempts
<1>3. CASE RecordAttempt(w)
  <2>. DEFINE s == tried[w]
              n == Len(s)
  <2>1. s \in Seq(Attempts) /\ s # <<>> /\ DOMAIN s = 1 .. n /\ n \in Nat \ {0}
    BY <1>1, EmptySeq, LenProperties DEF TypeInv, TypeOK
  <2>2. /\ tried'[w] = Tail(s) /\ UNCHANGED <<current, gens>>
        /\ pc[w] = "record" /\ pc'[w] = IF n = 1 THEN "pick" ELSE "record"
    BY <1>3 DEF RecordAttempt, Step, TypeInv, TypeOK
  <2>3. /\ Head(s) = s[1]
        /\ DOMAIN Tail(s) = 1 .. n - 1
        /\ \A j \in 1 .. n - 1 : Tail(s)[j] = s[j + 1]
    BY <2>1, HeadTailProperties, LenProperties
  <2>. HIDE DEF s, n
  <2>4. CASE i = 1
    BY <1>1, <1>3, <2>3, <2>4 DEF AttemptRow, HasTried, s
  <2>5. CASE i # 1
    <3>1. i \in 1 .. n /\ i - 1 \in 1 .. n - 1 /\ (i - 1) + 1 = i /\ n # 1
      BY <1>1, <2>1, <2>5 DEF s
    <3>2. i - 1 \in DOMAIN tried'[w] /\ tried'[w][i - 1].outcome \in outcomes
      BY <1>1, <2>2, <2>3, <3>1 DEF s
    <3>3. pc'[w] \in Sending
      BY <2>2, <3>1 DEF Sending
    <3>4. QED
      BY <2>2, <3>2, <3>3 DEF HasTried
  <2>6. QED
    BY <2>4, <2>5
<1>4. QED
  BY <1>2, <1>3, SendingStep DEF HasTried

\* An acceptance stands while its generation does: no undo of it was written.
LEMMA AcceptedStays ==
    ASSUME TypeInv, TypeInv', NEW k \in Keys, NEW row \in Rows, Adding(k, row),
           row.gen <= Generation(log[k]), row.outcome # "rolled_back", Accepted(log[k])
    PROVE  Accepted(log'[k])
<1>1. Generation(log'[k]) = Generation(log[k])
  BY AddedRow
<1>2. /\ DOMAIN log'[k] = DOMAIN log[k] \union {Len(log[k]) + 1}
      /\ \A i \in DOMAIN log[k] : log'[k][i] = log[k][i]
      /\ log'[k][Len(log[k]) + 1] = row
  BY AddedRow
<1>3. PICK i \in At(log[k], Generation(log[k])) :
        /\ IsSuccess(log[k][i])
        /\ \A j \in At(log[k], Generation(log[k])) :
             j > i => log[k][j].outcome # "rolled_back"
  BY DEF Accepted
<1>4. i \in At(log'[k], Generation(log'[k])) /\ IsSuccess(log'[k][i])
  BY <1>1, <1>2, <1>3 DEF At, IsSuccess
<1>5. \A j \in At(log'[k], Generation(log'[k])) : j > i => log'[k][j].outcome # "rolled_back"
  BY <1>1, <1>2, <1>3 DEF At
<1>6. QED
  BY <1>4, <1>5 DEF Accepted

\* A success written under the generation the record is at is an acceptance.
LEMMA AcceptedByRow ==
    ASSUME TypeInv, TypeInv', NEW k \in Keys, NEW row \in Rows, Adding(k, row),
           row.gen = Generation(log[k]), IsSuccess(row)
    PROVE  Accepted(log'[k])
<1>. DEFINE n == Len(log[k]) + 1
<1>1. Generation(log'[k]) = Generation(log[k]) /\ Generation(log[k]) \in Nat
  BY AddedRow, GenerationType
<1>2. /\ DOMAIN log'[k] = DOMAIN log[k] \union {n}
      /\ \A i \in DOMAIN log[k] : i < n
      /\ log'[k][n] = row
  BY AddedRow
<1>3. n \in Nat /\ \A i \in DOMAIN log[k] : i \in Nat
  BY RowsByPosition DEF TypeInv, TypeOK
<1>. HIDE DEF n
<1>4. n \in At(log'[k], Generation(log'[k])) /\ IsSuccess(log'[k][n])
  BY <1>1, <1>2 DEF At
<1>5. \A j \in At(log'[k], Generation(log'[k])) : ~(j > n)
  BY <1>2, <1>3 DEF At
<1>6. QED
  BY <1>4, <1>5 DEF Accepted

\* A success a push was told of becomes an acceptance.
LEMMA ClaimStays ==
    ASSUME TypeInv, TypeInv', [Steady]_vars, NEW k \in Keys, NEW g,
           g = Generation(log[k]), Claimed(k, g)
    PROVE  Claimed(k, g)' \/ Accepted(log'[k])
<1>1. PICK w \in Pushers : HasTried(w, k, g, Successes)
  BY DEF Claimed
<1>2. CASE HasTried(w, k, g, Successes)'
  BY <1>2 DEF Claimed
<1>3. CASE /\ RecordAttempt(w) /\ current[w] = k /\ gens[w][k] = g
           /\ AttemptRow(w).outcome \in Successes
  BY <1>3, AttemptRowAdded, AcceptedByRow DEF IsSuccess
<1>4. QED
  BY <1>1, <1>2, <1>3, TriedStays

\* A doubt a push was left in becomes a row that says so, and rows stay.
LEMMA UnsureStays ==
    ASSUME TypeInv, TypeInv', [Steady]_vars, NEW k \in Keys, NEW g, Unsure(k, g)
    PROVE  Unsure(k, g)'
<1>1. CASE \E i \in At(log[k], g) : log[k][i].outcome \in Retryables
  BY <1>1, RowsStay DEF At, Unsure, Steady
<1>2. ASSUME NEW w \in Pushers, HasTried(w, k, g, Retryables) PROVE Unsure(k, g)'
  <2>1. CASE HasTried(w, k, g, Retryables)'
    BY <2>1 DEF Unsure
  <2>2. CASE /\ RecordAttempt(w) /\ current[w] = k /\ gens[w][k] = g
             /\ AttemptRow(w).outcome \in Retryables
    <3>1. /\ Len(log[k]) + 1 \in DOMAIN log'[k]
          /\ log'[k][Len(log[k]) + 1] = AttemptRow(w) /\ AttemptRow(w).gen = g
      BY <2>2, AttemptRowAdded, AddedRow
    <3>2. QED
      BY <2>2, <3>1 DEF Unsure, At
  <2>3. QED
    BY <1>2, <2>1, <2>2, TriedStays
<1>3. QED
  BY <1>1, <1>2 DEF Unsure

-----------------------------------------------------------------------------
(***************************************************************************)
(* Where a record at the destination comes from.                           *)
(***************************************************************************)

\* Every generation before the one the log is at is a tombstone, so a record that
\* is held is at that one.
LEMMA HeldIsTop ==
    ASSUME NEW R, NEW r \in R, r.gen \in Nat \ {0}, r.state = "accepted",
           \A a, b \in R : a.key = b.key /\ a.gen = b.gen => a = b,
           NEW G \in Nat \ {0}, r.gen <= G, ClearedIn(R, r.key, G)
    PROVE  r.gen = G
<1>1. ASSUME r.gen < G PROVE FALSE
  <2>1. TombstoneIn(R, r.key, r.gen)
    BY <1>1 DEF ClearedIn
  <2>2. QED
    BY <2>1 DEF TombstoneIn
<1>2. QED
  BY <1>1

LEMMA HeldIsCurrent ==
    ASSUME IInv, GenerationsKnown, NEW r \in records, r.state = "accepted"
    PROVE  r.key \in Keys /\ r.gen = Generation(log[r.key])
<1>. DEFINE G == Generation(log[r.key])
<1>1. r.key \in Keys /\ r.gen \in Nat \ {0}
  BY DEF IInv, TypeInv, TypeOK, DestinationTypeOK, StoredRecords
<1>2. G \in Nat \ {0} /\ r.gen <= G
  BY <1>1, GenerationType DEF IInv, GenerationsKnown
<1>3. ClearedIn(records, r.key, G)
  BY <1>1, ReadsCleared
<1>. HIDE DEF G
<1>4. r.gen = G
  BY <1>1, <1>2, <1>3, HeldIsTop DEF IInv, SafeInv, OnePerGeneration
<1>5. QED
  BY <1>1, <1>4 DEF G

\* Nobody waits for a request because nobody did, or because its push gave up.
LEMMA AbandonStep ==
    ASSUME TypeInv, [Steady]_vars, NEW q \in creates', q.by = Nobody
    PROVE  \/ \E p \in creates : p.by = Nobody /\ p.key = q.key /\ p.gen = q.gen
           \/ \E w \in Pushers, outcome \in Retryables :
                NoAnswer(w, outcome) /\ q.key = current[w] /\ q.gen = gens[w][q.key]
<1>. DEFINE Was == \E p \in creates : p.by = Nobody /\ p.key = q.key /\ p.gen = q.gen
<1>1. ASSUME q \in creates PROVE Was
  BY <1>1
<1>2. ASSUME NEW w \in Pushers, NEW outcome \in Retryables, NoAnswer(w, outcome)
      PROVE  Was \/ (q.key = current[w] /\ q.gen = gens[w][q.key])
  <2>1. q \in creates \/ \E p \in creates : p.by = w /\ q = [p EXCEPT !.by = Nobody]
    BY <1>2 DEF NoAnswer
  <2>2. \A p \in creates : /\ [p EXCEPT !.by = Nobody].key = p.key
                           /\ [p EXCEPT !.by = Nobody].gen = p.gen
    BY DEF TypeInv, TypeOK, CreateRequests
  <2>3. \A p \in creates : p.by = w => p.key = current[w] /\ p.gen = gens[w][p.key]
    BY ThreadsAssumption DEF Pushers, TypeInv, CreateShape
  <2>4. ASSUME NEW p \in creates, p.by = w, q = [p EXCEPT !.by = Nobody]
        PROVE  q.key = current[w] /\ q.gen = gens[w][q.key]
    <3>1. q.key = p.key /\ q.gen = p.gen
      BY <2>2, <2>4
    <3>2. QED
      BY <2>3, <2>4, <3>1
  <2>5. QED
    BY <1>1, <2>1, <2>4
<1>3. ASSUME NEW w \in Pushers, PusherStep(w) PROVE q \in creates
  <2>1. CASE Send(w)
    <3>1. w # Nobody
      BY ThreadsAssumption DEF Pushers
    <3>2. QED
      BY <2>1, <3>1 DEF Send
  <2>2. CASE ~Send(w)
    BY <1>3, <2>2 DEF PusherStep, Arm, Load, Gate, ReadAlready, ReadGenerations, Pick,
       Finish, ReconcileFinds, ReconcileMisses, RecordAttempt
  <2>3. QED
    BY <2>1, <2>2
<1>4. ASSUME NEW u \in Undoers, UndoerStep(u) \/ BeginUndo(u) \/ NoUndoAnswer(u)
      PROVE  creates' = creates
  BY <1>4 DEF UndoerStep, ReadTargets, AskUndo, RecordUndo, PauseSending, BeginUndo,
     NoUndoAnswer
<1>5. CASE DestinationStep
  <2>1. ASSUME NEW p \in creates, DestinationMisses(p) PROVE Was
    <3>1. q \in creates \/ q = [p EXCEPT !.isNew = TRUE]
      BY <2>1 DEF DestinationMisses
    <3>2. /\ [p EXCEPT !.isNew = TRUE].by = p.by
          /\ [p EXCEPT !.isNew = TRUE].key = p.key
          /\ [p EXCEPT !.isNew = TRUE].gen = p.gen
      BY DEF TypeInv, TypeOK, CreateRequests
    <3>3. QED
      BY <1>1, <3>1, <3>2
  <2>2. QED
    BY <1>1, <1>5, <2>1 DEF DestinationStep, DestinationKnows, DestinationHandles,
       DestinationUndoes
<1>6. CASE RequestStep
  BY <1>1, <1>4, <1>6 DEF RequestStep, Press, JobReady, ResultChanges
<1>7. CASE FaultStep /\ ~ApiRestarts
  BY <1>1, <1>2, <1>4, <1>7 DEF FaultStep, Unreachable, Finish, ReconcileFails,
     DestinationRestarts
<1>8. CASE UNCHANGED vars
  BY <1>1, <1>8 DEF vars
<1>9. QED
  BY <1>1, <1>3, <1>4, <1>5, <1>6, <1>7, <1>8 DEF Steady, Next

\* A push that gives up on a request is not sure how it ended.
LEMMA GivingUpIsUnsure ==
    ASSUME TypeInv, NEW w \in Pushers, NEW outcome \in Retryables, NoAnswer(w, outcome)
    PROVE  Unsure(current[w], gens[w][current[w]])'
<1>1. Concludes(w, outcome, NoId) /\ UNCHANGED <<current, gens>>
  BY DEF NoAnswer
<1>2. outcome \in SendOutcomes /\ NoId \in Ids
  BY DEF SendOutcomes, Ids, NoId
<1>3. pc'[w] \in Sending /\ \E i \in DOMAIN tried'[w] : tried'[w][i].outcome = outcome
  BY <1>1, <1>2, ConcludesKeepsAttempts DEF TypeInv
<1>4. HasTried(w, current[w], gens[w][current[w]], Retryables)'
  BY <1>1, <1>3 DEF HasTried
<1>5. QED
  BY <1>4 DEF Unsure

LEMMA AbandonedCreatesStep ==
    ASSUME TypeInv, TypeInv', AbandonedCreates, [Steady]_vars
    PROVE  AbandonedCreates'
<1>. SUFFICES ASSUME NEW q \in creates', q.by = Nobody PROVE Unsure(q.key, q.gen)'
  BY DEF AbandonedCreates
<1>1. ASSUME NEW p \in creates, p.by = Nobody, p.key = q.key, p.gen = q.gen
      PROVE  Unsure(q.key, q.gen)'
  <2>1. Unsure(p.key, p.gen) /\ p.key \in Keys
    BY <1>1 DEF AbandonedCreates, TypeInv, TypeOK, CreateRequests
  <2>2. Unsure(p.key, p.gen)'
    BY <2>1, UnsureStays
  <2>3. QED
    BY <1>1, <2>2
<1>2. ASSUME NEW w \in Pushers, NEW outcome \in Retryables, NoAnswer(w, outcome),
             q.key = current[w], q.gen = gens[w][q.key]
      PROVE  Unsure(q.key, q.gen)'
  <2>1. Unsure(current[w], gens[w][current[w]])'
    BY <1>2, GivingUpIsUnsure
  <2>2. UNCHANGED <<current, gens>>
    BY <1>2 DEF NoAnswer
  <2>3. QED
    BY <1>2, <2>1, <2>2
<1>3. QED
  BY <1>1, <1>2, AbandonStep

\* The caller of a request that adds a record is told so, is left in doubt, or
\* has given up before.
LEMMA AddedHasOrigin ==
    ASSUME TypeInv, TypeInv', AbandonedCreates, [Steady]_vars,
           NEW q \in creates, Adds(q), DestinationHandles(q)
    PROVE  Claimed(q.key, q.gen)' \/ Unsure(q.key, q.gen)'
<1>1. q \in CreateRequests /\ q.key \in Keys /\ q.gen \in Ids
  BY DEF TypeInv, TypeOK, CreateRequests, Ids
<1>2. CASE q.by = Nobody
  BY <1>1, <1>2, UnsureStays DEF AbandonedCreates
<1>3. CASE q.by # Nobody
  <2>. DEFINE w == q.by
  <2>1. w \in Pushers /\ q.key = current[w] /\ q.gen = gens[w][q.key]
    BY <1>1, <1>3 DEF TypeInv, CreateShape, CreateRequests
  <2>2. PICK status \in Statuses, id \in {NoId, Phantom, q.gen} :
          HandleNew(q, Answer(status, id)) /\ Hears(q, Answer(status, id))
    BY DEF DestinationHandles
  <2>3. records' # records
    <3>. DEFINE new == [key |-> q.key, gen |-> q.gen, payload |-> q.payload,
                        state |-> "accepted"]
    <3>1. new \in records' /\ new.key = q.key /\ new.gen = q.gen
      BY DEF Adds
    <3>. HIDE DEF new
    <3>2. new \notin records
      BY <3>1 DEF Adds, StoredIn
    <3>3. QED
      BY <3>1, <3>2
  <2>4. status \in {"accepted", "internal_error"}
    BY <2>2, <2>3 DEF HandleNew, FailOnPurpose, ValidateAndStore, Answer
  <2>5. Classify(status) \in SendOutcomes
        /\ (Classify(status) \in Successes \/ Classify(status) \in Retryables)
    BY <2>4 DEF Classify, SendOutcomes, Successes, Retryables, Refusals
  <2>6. Concludes(w, Classify(status), id) /\ id \in Ids /\ UNCHANGED <<current, gens>>
    BY <1>1, <1>3, <2>2 DEF Hears, Answer, DestinationHandles, Ids, NoId
  <2>7. /\ pc'[w] \in Sending
        /\ \E i \in DOMAIN tried'[w] : tried'[w][i].outcome = Classify(status)
    BY <2>1, <2>5, <2>6, ConcludesKeepsAttempts DEF TypeInv
  <2>8. /\ Classify(status) \in Successes => HasTried(w, q.key, q.gen, Successes)'
        /\ Classify(status) \in Retryables => HasTried(w, q.key, q.gen, Retryables)'
    BY <2>1, <2>6, <2>7 DEF HasTried
  <2>. HIDE DEF w
  <2>9. QED
    BY <2>1, <2>5, <2>8 DEF Claimed, Unsure
<1>4. QED
  BY <1>2, <1>3

\* What the log accepts it goes on to, or the record is undone.
LEMMA AcceptanceStays ==
    ASSUME OneUndoer, IInv, IInv', GenerationsKnown, GenerationsKnown', UndosCurrent,
           [Steady]_vars, NEW r \in records, r \in records', r.state = "accepted",
           Accepted(log[r.key])
    PROVE  Accepted(log'[r.key])
<1>. DEFINE k == r.key
<1>1. TypeInv /\ TypeInv' /\ [Next]_vars
  BY DEF IInv, TypeInv, Steady
<1>2. k \in Keys /\ r.gen = Generation(log[k])
  BY HeldIsCurrent
<1>3. r.gen = Generation(log'[k])
  <2>. DEFINE G == Generation(log'[k])
  <2>1. r.gen \in Nat \ {0} /\ r.gen <= G
    BY DEF IInv, TypeInv, TypeOK, DestinationTypeOK, StoredRecords, GenerationsKnown
  <2>2. G \in Nat \ {0} /\ G \in Generations(log'[k])
    BY <1>1, <1>2, GenerationIsTop DEF TypeInv, TypeOK, TopGeneration
  <2>3. ClearedIn(records', k, G)
    <3>1. CASE G = 1
      BY <3>1 DEF ClearedIn
    <3>2. CASE G # 1
      BY <1>2, <2>2, <3>2 DEF Generations, IInv, SafeInv, LogCleared
    <3>3. QED
      BY <3>1, <3>2
  <2>. HIDE DEF G
  <2>4. r.gen = G
    BY <2>1, <2>2, <2>3, HeldIsTop DEF IInv, SafeInv, OnePerGeneration
  <2>5. QED
    BY <2>4 DEF G
<1>4. ASSUME NEW row \in Rows, Adding(k, row), row.gen <= Generation(log[k]),
             row.outcome # "rolled_back"
      PROVE  Accepted(log'[k])
  BY <1>1, <1>2, <1>4, AcceptedStays
<1>5. ASSUME NEW j \in Keys, NEW row \in Rows, Adding(j, row), j # k
      PROVE  Accepted(log'[k])
  BY <1>1, <1>2, <1>5, AddedRow
<1>6. ASSUME NEW w \in Pushers, RecordAttempt(w) PROVE Accepted(log'[k])
  <2>1. /\ current[w] \in Keys /\ AttemptRow(w) \in Rows /\ Adding(current[w], AttemptRow(w))
        /\ AttemptRow(w).gen <= Generation(log[current[w]])
        /\ AttemptRow(w).outcome # "rolled_back"
    BY <1>1, <1>6, AttemptRowAdded DEF GenerationsKnown, SendOutcomes, Successes, Retryables,
       Refusals
  <2>2. QED
    BY <1>4, <1>5, <2>1
<1>7. ASSUME NEW u \in Undoers, RecordUndo(u) PROVE Accepted(log'[k])
  <2>. DEFINE t == target[u]
              row == UndoRow(t, upc[u] = "undone")
  <2>1. /\ t.key \in Keys /\ t.gen \in Nat \ {0} /\ row \in Rows /\ Adding(t.key, row)
        /\ upc[u] \in {"undone", "failed"} /\ t.gen = Generation(log[t.key])
    BY <1>1, <1>7, UndoRowAdded DEF RecordUndo, UndosCurrent, CurrentFor
  <2>2. CASE upc[u] = "failed"
    <3>1. row.gen <= Generation(log[t.key]) /\ row.outcome # "rolled_back"
      BY <1>1, <1>7, <2>1, <2>2, UndoRowAdded
    <3>. HIDE DEF row, t
    <3>2. QED
      BY <1>4, <1>5, <2>1, <3>1
  <2>3. CASE upc[u] = "undone"
    <3>1. row.gen = t.gen + 1
      BY <1>1, <1>7, <2>3, UndoRowAdded
    <3>. HIDE DEF row, t
    <3>2. ASSUME t.key = k PROVE FALSE
      <4>1. Generation(log'[k]) =
              IF row.gen <= Generation(log[k]) THEN Generation(log[k]) ELSE row.gen
        BY <1>1, <2>1, <3>2, AddedRow
      <4>2. row.gen = Generation(log[k]) + 1 /\ Generation(log[k]) \in Nat
        BY <2>1, <3>1, <3>2
      <4>3. QED
        BY <1>2, <1>3, <4>1, <4>2
    <3>3. QED
      BY <1>5, <2>1, <3>2
  <2>4. QED
    BY <2>1, <2>2, <2>3
<1>8. QED
  BY <1>1, <1>6, <1>7, LogStep

LEMMA HeldHasOriginStep ==
    ASSUME OneUndoer, IInv, IInv', GenerationsKnown, GenerationsKnown', UndosCurrent,
           AbandonedCreates, HeldHasOrigin, [Steady]_vars
    PROVE  HeldHasOrigin'
<1>. DEFINE HasOrigin(r) ==
              Accepted(log[r.key]) \/ Claimed(r.key, r.gen) \/ Unsure(r.key, r.gen)
<1>1. TypeInv /\ TypeInv' /\ [Next]_vars
  BY DEF IInv, TypeInv, Steady
<1>. SUFFICES ASSUME NEW r \in records', r.state = "accepted" PROVE HasOrigin(r)'
  BY DEF HeldHasOrigin
<1>2. CASE r \in records
  <2>1. r.key \in Keys /\ r.gen = Generation(log[r.key]) /\ HasOrigin(r)
    BY <1>2, HeldIsCurrent DEF HeldHasOrigin
  <2>2. QED
    BY <1>1, <1>2, <2>1, AcceptanceStays, ClaimStays, UnsureStays
<1>3. CASE r \notin records
  <2>1. PICK q \in creates : Adds(q) /\ DestinationHandles(q)
    <3>1. ASSUME NEW q \in undos, Buries(q.key, q.id) PROVE FALSE
      <4>1. PICK s \in records : r = [s EXCEPT !.state = "rolled_back"]
        BY <1>3, <3>1 DEF Buries
      <4>2. r.state = "rolled_back"
        BY <1>1, <4>1 DEF TypeInv, TypeOK, DestinationTypeOK, StoredRecords
      <4>3. QED
        BY <4>2
    <3>2. QED
      BY <1>1, <1>3, <3>1, RecordsStep
  <2>2. r.key = q.key /\ r.gen = q.gen
    BY <1>3, <2>1 DEF Adds
  <2>3. QED
    BY <1>1, <2>1, <2>2, AddedHasOrigin
<1>4. QED
  BY <1>2, <1>3

-----------------------------------------------------------------------------
(***************************************************************************)
(* What follows for the console and for the log.                           *)
(***************************************************************************)
LEMMA InitLedger == Init => LedgerInv
<1>. SUFFICES ASSUME Init PROVE LedgerInv
  OBVIOUS
<1>1. TypeInv
  BY InitTypeInv
<1>2. \A k \in Keys : Generation(log[k]) \in Nat \ {0}
  BY <1>1, GenerationType
<1>3. GenerationsKnown
  <2>1. \A k \in Keys : 1 <= Generation(log[k])
    BY <1>2
  <2>2. \A u \in Undoers : target[u].gen = 1 /\ target[u].key \in Keys
    BY AnyKeyType DEF Init, NoTarget
  <2>3. QED
    BY <2>1, <2>2 DEF Init, DestinationInit, FirstGenerations, GenerationsKnown
<1>4. UndosCurrent /\ AbandonedUndos
  BY DEF Init, UndosCurrent, CurrentFor, AbandonedUndos
<1>5. TombstonesLogged /\ AbandonedCreates /\ HeldHasOrigin
  BY DEF Init, DestinationInit, TombstonesLogged, AbandonedCreates, HeldHasOrigin
<1>6. QED
  BY <1>3, <1>4, <1>5 DEF LedgerInv

\* No generation of a record is ahead of its log.
THEOREM GenerationsAlwaysKnown == Spec => []GenerationsKnown
<1>1. Init => GenerationsKnown
  BY InitLedger DEF LedgerInv
<1>2. IInv /\ IInv' /\ GenerationsKnown /\ [Next]_vars => GenerationsKnown'
  BY GenerationsKnownStep
<1>3. QED
  BY <1>1, <1>2, Invariance, PTL DEF Spec

LEMMA SteadyIsSpec == SteadySpec => Spec
<1>1. [Steady]_vars => [Next]_vars
  BY DEF Steady
<1>2. QED
  BY <1>1, PTL DEF SteadySpec, Spec

LEMMA LedgerInvariance ==
    ASSUME OneUndoer
    PROVE  SteadySpec => []LedgerInv
<1>1. IInv /\ IInv' /\ LedgerInv /\ [Steady]_vars => LedgerInv'
  <2>. SUFFICES ASSUME IInv, IInv', LedgerInv, [Steady]_vars PROVE LedgerInv'
    OBVIOUS
  <2>1. TypeInv /\ TypeInv' /\ [Next]_vars
    BY DEF IInv, TypeInv, Steady
  <2>2. GenerationsKnown'
    BY <2>1, GenerationsKnownStep DEF LedgerInv
  <2>3. UndosCurrent' /\ AbandonedUndos' /\ TombstonesLogged'
    BY <2>1, UndosCurrentStep, AbandonedUndosStep, TombstonesLoggedStep DEF LedgerInv
  <2>4. AbandonedCreates' /\ HeldHasOrigin'
    BY <2>1, <2>2, AbandonedCreatesStep, HeldHasOriginStep DEF LedgerInv
  <2>5. QED
    BY <2>2, <2>3, <2>4 DEF LedgerInv
<1>2. QED
  BY <1>1, InitLedger, SteadyIsSpec, Invariance, PTL DEF SteadySpec

\* What the console calls delivered the destination holds, unless an undo is in
\* doubt: the acceptance is backed by a record, and were that one a tombstone,
\* the log would have moved on or an undo be open.
THEOREM DeliveredAlwaysHeld ==
    ASSUME OneUndoer
    PROVE  SteadySpec => []DeliveredIsHeld
<1>1. IInv /\ LedgerInv => DeliveredIsHeld
  <2>. SUFFICES ASSUME IInv, LedgerInv, NEW k \in Keys, Accepted(log[k])
                PROVE  Held(k) # {} \/ UndoInDoubt(k)
    BY DEF DeliveredIsHeld
  <2>1. PICK i \in DOMAIN log[k] : IsSuccess(log[k][i]) /\ log[k][i].gen = Generation(log[k])
    BY DEF Accepted, At
  <2>2. PICK r \in records : r.key = k /\ r.gen = Generation(log[k])
    BY <2>1 DEF IInv, SafeInv, LogBacked, BackedIn, StoredIn
  <2>3. r.state \in {"accepted", "rolled_back"}
    BY DEF IInv, TypeInv, TypeOK, DestinationTypeOK, StoredRecords
  <2>4. CASE r.state = "accepted"
    BY <2>2, <2>4 DEF Held
  <2>5. CASE r.state = "rolled_back"
    <3>1. ~(r.gen < Generation(log[k]))
      BY <2>2, GenerationType DEF IInv
    <3>2. UndoOpen(k)
      BY <2>2, <2>5, <3>1 DEF LedgerInv, TombstonesLogged
    <3>3. QED
      BY <3>2 DEF UndoOpen, UndoFailed, UndoInDoubt
  <2>6. QED
    BY <2>3, <2>4, <2>5
<1>2. QED
  BY <1>1, LedgerInvariance, SteadyIsSpec, Invariance, PTL

\* A copy at the destination the log does not account for is one the log is in
\* doubt about: of a request not over, of attempts not written down, or of an
\* attempt that got no clear answer.
THEOREM HeldAlwaysAccountedFor ==
    ASSUME OneUndoer
    PROVE  SteadySpec => []HeldIsAccountedFor
<1>1. LedgerInv => HeldIsAccountedFor
  <2>. SUFFICES ASSUME LedgerInv, NEW k \in Keys, NEW r \in Held(k)
                PROVE  Accepted(log[k]) \/ SendInDoubt(k, r.gen)
    BY DEF HeldIsAccountedFor
  <2>1. Accepted(log[k]) \/ Claimed(k, r.gen) \/ Unsure(k, r.gen)
    BY DEF Held, LedgerInv, HeldHasOrigin
  <2>2. QED
    BY <2>1 DEF Claimed, Unsure, HasTried, Sending, SendInDoubt
<1>2. QED
  BY <1>1, LedgerInvariance, PTL
=============================================================================
