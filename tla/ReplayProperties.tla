-------------------------- MODULE ReplayProperties --------------------------
(***************************************************************************)
(* What must hold of a run that is worked out from its files and the       *)
(* decisions taken on it, whenever a replay is over.                       *)
(***************************************************************************)
EXTENDS Replay

Result == shown.run
ResultRecords == Range(Result.records)
Settled == phase = "idle"

\* The phases follow one another, a record waits on cases there are, and what
\* was applied is a decision that was taken.
TypeOK ==
  /\ scene \in Scenes
  /\ phase \in {"start", "map", "build", "reconcile", "check", "validate", "finalise", "match",
                "look", "idle"}
  /\ pass \in 0..(scene.decisions + 1) /\ outages \in 0..scene.outages /\ failed \in BOOLEAN
  /\ applied \subseteq DOMAIN decisions /\ Len(decisions) <= scene.decisions
  /\ \A r \in Range(run.records) :
       /\ r.open \subseteq DOMAIN run.cases
       /\ DOMAIN r.values \subseteq FieldNames /\ DOMAIN r.origin = DOMAIN r.values
       /\ r.state \in {"processing", "READY", "BLOCKED", "EXCLUDED"}
  /\ DOMAIN proposed \subseteq {scene.sources[i].name : i \in DOMAIN scene.sources}
  /\ look.turn \in 0..MaxSteps

\* A record is ready only if everybody above it is: following its references
\* never ends at a record that waits, however long the chain and whatever the
\* order of the rows (_hold_dependents).  A record left out holds nobody.
ReadyCanBeSent ==
  Settled => \A r \in ResultRecords : r.state = "READY" =>
    /\ r.open = {}
    /\ \A f \in Range(SelfReferences) :
         LET other == Named(Result, Get(r.values, f))
         IN  other # None => other.state \in {"READY", "EXCLUDED"}

\* Nothing is held without a question, and every question a record is held by
\* counts that record, whichever stage raised it, joined it or passed it on
\* (_case, _attach, _merge, _hold_dependents).
BlockedIsAsked ==
  Settled => \A r \in ResultRecords : r.state # "EXCLUDED" =>
    /\ r.state = "BLOCKED" => r.open # {}
    /\ r.open = {n \in DOMAIN Result.cases :
                   r.id \in Result.cases[n].blocks \cup Result.cases[n].children}

\* What a question with the key of an answered one asks and nobody has said:
\* whether two other rows are one, what another value of the column is, how
\* its dates read where the answer was one date.
StillUnsaid(case, said) ==
  CASE case.klass = "UNCERTAIN_IDENTITY" ->
         \A keys \in DOMAIN overrides.merge : Range(keys) # Range(case.pair)
    [] case.perValue -> <<case.file, case.column, case.raw>> \notin DOMAIN overrides.valueMap
    [] case.klass = "AMBIGUOUS_VALUE" /\ ~case.perValue -> said.answer[1] # "format"
    [] OTHER -> FALSE

\* An answer that chose a field, a reading, a value for a column or whether two
\* rows are one settles its question for good: the replay that applied it does
\* not ask again (apply_decision against _map, _apply_value, _reconcile).  Only
\* a question that happens to have the same key may be left.
AnsweredIsGone ==
  Settled /\ ~shown.failed => \A d \in shown.applied :
    LET said == decisions[d]
        asks == {n \in DOMAIN Result.cases : CaseKey(Result.cases[n]) = said.key}
    IN  (/\ said.action = "correct"
         /\ said.key[1] \in {"AMBIGUOUS_MAPPING", "AMBIGUOUS_VALUE", "UNCERTAIN_IDENTITY"})
          => \A n \in asks : StillUnsaid(Result.cases[n], said)

\* No decision whose question is there was passed over, also if its question
\* came up only once another one was answered (the loop of replay).
NoDecisionLeftBehind ==
  Settled /\ ~shown.failed => \A d \in 1..shown.decisions :
    decisions[d].key \in Keys(Result.cases) => d \in shown.applied

\* The loop has as many passes as it needs: it ends on a pass in which no
\* decision found its question, never for want of passes, although it counts
\* them by the decisions and not by what they reveal (range in replay).
EndsWhenNothingIsAnswered ==
  [][(pass # 0 /\ pass' = 0) => Answerable = {}]_vars

\* The row a ready record began as and those merged into it say the same
\* wherever they say something, unless the person has said which file to
\* believe (_merge).  What was merged into a record that is itself merged away
\* does not count: the questions about it hold the record that is gone.
NoSilentDisagreement ==
  Settled /\ overrides.authority = <<>> =>
    \A r \in ResultRecords : r.state = "READY" =>
      LET rows == {b \in Range(Result.built) :
                     b.id = r.id \/ (b.id \in DOMAIN Result.mergedInto /\ Result.mergedInto[b.id] = r.id)}
      IN  \A a, b \in rows : Conflicted(a.values, b.values) = {}

\* The profile of the column a mapping is about.
ProfileFor(mapping) ==
  LET source == CHOOSE s \in Range(scene.sources) : s.name = mapping.file
  IN  ProfileColumn(mapping.column,
                    [j \in DOMAIN source.rows |-> source.rows[j].cells[mapping.column]])

\* The model alone never places a column: a column nobody answered for has at
\* least a third of the measured evidence for its field, whatever the votes
\* say, and breaks none of the field's vetoes (Evidence.score, decide).
VoteNeedsEvidence ==
  Settled => \A i \in DOMAIN Result.mappings :
    LET mapping == Result.mappings[i]
    IN  (/\ mapping.decision = "auto_apply"
         /\ <<mapping.file, mapping.column>> \notin DOMAIN overrides.columnMap)
          => /\ 3 * MeasuredScore(ProfileFor(mapping), mapping.field) >= 9999
             /\ ~Vetoed(ProfileFor(mapping), mapping.field)

\* The records and the questions of a result, without what was suggested.
Outcome(r) ==
  [records |-> r.records, mappings |-> r.mappings,
   cases |-> [n \in DOMAIN r.cases |-> [r.cases[n] EXCEPT !.options = {}, !.recommended = None]]]

\* The same decisions give the same result, however often the run is replayed
\* and whatever the model would say if it were asked again.
StableAcrossReplays ==
  [][(/\ shown' # shown
      /\ shown.decisions = shown'.decisions
      /\ ~shown.failed /\ ~shown'.failed)
       => /\ Outcome(shown'.run) = Outcome(shown.run)
          /\ shown'.applied = shown.applied]_vars

\* Looking into a question changes what is suggested for it at most, and not
\* even that where the data itself recommends an answer (enrich).
MeasuredStands ==
  [][(phase = "look" /\ run' # run) =>
       /\ Outcome(run') = Outcome(run)
       /\ \A n \in DOMAIN run.cases :
            /\ run.cases[n].options \subseteq run'.cases[n].options
            /\ run.cases[n].recommended # None => run'.cases[n] = run.cases[n]]_vars
=============================================================================
