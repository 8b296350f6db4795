---------------------------- MODULE ReplayProofs ----------------------------
(***************************************************************************)
(* Proofs about the replay loop and the recorded answers of the model, for *)
(* every set of scenes, every schema and any number of decisions.  The     *)
(* main one is that a replay is a function: what it ends with follows from *)
(* the sources, the decisions and the recorded answers.                    *)
(***************************************************************************)
EXTENDS ReplayProperties, PipelineProofs

(**************************** the replay loop ******************************)

\* A pass that is not the first was asked for by one that applied a decision,
\* so there are no more passes than decisions applied, and one.
LoopInv ==
  /\ \E S : decisions \in Seq(S)
  /\ applied \subseteq DOMAIN decisions
  /\ pass \in Nat
  /\ pass # 0 => pass <= Cardinality(applied) + 1

\* The places of a sequence are as many as its length.
LEMMA PlacesOfDecisions ==
  ASSUME LoopInv
  PROVE  /\ Len(decisions) \in Nat
         /\ IsFiniteSet(DOMAIN decisions)
         /\ Cardinality(DOMAIN decisions) = Len(decisions)
<1>1. PICK S : decisions \in Seq(S)
  BY DEF LoopInv
<1>2. Len(decisions) \in Nat /\ DOMAIN decisions = 1..Len(decisions)
  BY <1>1, LenProperties
<1>3. /\ IsFiniteSet(1..Len(decisions))
      /\ Cardinality(1..Len(decisions)) = IF 1 > Len(decisions) THEN 0 ELSE Len(decisions) - 1 + 1
  BY <1>2, FS_Interval
<1>4. QED
  BY <1>2, <1>3

\* What a pass applies was not applied before.
LEMMA AppliedGrows ==
  ASSUME LoopInv, Answerable # {}
  PROVE  /\ Cardinality(applied) \in Nat
         /\ Cardinality(applied \cup Answerable) >= Cardinality(applied) + 1
<1> DEFINE after == applied \cup Answerable
<1>1. IsFiniteSet(applied) /\ IsFiniteSet(after)
  <2>1. applied \in SUBSET DOMAIN decisions /\ after \in SUBSET DOMAIN decisions
    BY DEF LoopInv, Answerable
  <2>2. IsFiniteSet(DOMAIN decisions)
    BY PlacesOfDecisions
  <2>3. QED
    BY <2>1, <2>2, FS_Subset
<1>2. PICK d \in Answerable : d \notin applied
  BY DEF Answerable
<1>3. /\ IsFiniteSet(applied \cup {d})
      /\ Cardinality(applied \cup {d}) = Cardinality(applied) + 1
  BY <1>1, <1>2, FS_AddElement
<1>4. Cardinality(applied \cup {d}) <= Cardinality(after)
  BY <1>1, <1>2, FS_Subset
<1>5. Cardinality(applied) \in Nat /\ Cardinality(after) \in Nat
  BY <1>1, FS_CardinalityType
<1>6. QED
  BY <1>3, <1>4, <1>5

\* Most steps leave the loop alone.
LEMMA LoopUnchanged ==
  ASSUME LoopInv, UNCHANGED <<decisions, applied, pass>>
  PROVE  LoopInv'
BY DEF LoopInv

\* A new replay begins with the first pass.
LEMMA LoopBegins ==
  ASSUME LoopInv, NEW investigate, Begin(investigate), \E S : decisions' \in Seq(S)
  PROVE  LoopInv'
<1>1. applied' = {} /\ pass' = 1
  BY DEF Begin
<1>2. Cardinality({}) = 0
  BY FS_EmptySet
<1>3. QED
  BY <1>1, <1>2 DEF LoopInv

\* Only a pass that applied a decision asks for another.
LEMMA LoopStep ==
  ASSUME LoopInv, [Next]_vars
  PROVE  LoopInv'
<1>1. CASE Open
  <2>1. \E S : decisions' \in Seq(S)
    BY <1>1 DEF Open, LoopInv
  <2>2. Begin(TRUE)
    BY <1>1 DEF Open
  <2>3. QED
    BY <2>1, <2>2, LoopBegins
<1>2. CASE Decide
  <2>1. PICK taken : decisions' = Append(decisions, taken)
    BY <1>2 DEF Decide
  <2>2. PICK S : decisions \in Seq(S)
    BY DEF LoopInv
  <2>3. decisions \in Seq(S \cup {taken})
    BY <2>2, SeqMonotonic
  <2>4. decisions' \in Seq(S \cup {taken})
    BY <2>1, <2>3, AppendProperties
  <2>5. Begin(FALSE)
    BY <1>2 DEF Decide
  <2>6. QED
    BY <2>4, <2>5, LoopBegins
<1>3. CASE MatchDecisions
  <2>1. PICK p : /\ p = IF Answerable = {} \/ pass > Len(decisions) THEN 0 ELSE pass + 1
                 /\ pass' = p /\ pass # 0 /\ applied' = applied \cup Answerable
                 /\ decisions' = decisions
    BY <1>3 DEF MatchDecisions, RunAgain
  <2>2. applied' \subseteq DOMAIN decisions'
    BY <2>1 DEF LoopInv, Answerable
  <2>3. pass' \in Nat
    BY <2>1 DEF LoopInv
  <2>4. ASSUME pass' # 0 PROVE pass' <= Cardinality(applied') + 1
    <3>1. Answerable # {} /\ pass' = pass + 1
      BY <2>1, <2>4
    <3>2. /\ Cardinality(applied) \in Nat
          /\ Cardinality(applied') >= Cardinality(applied) + 1
      BY <2>1, <3>1, AppliedGrows
    <3>3. IsFiniteSet(applied')
      BY <2>1, <2>2, PlacesOfDecisions, FS_Subset
    <3>4. Cardinality(applied') \in Nat
      BY <3>3, FS_CardinalityType
    <3>5. pass \in Nat /\ pass <= Cardinality(applied) + 1
      BY <2>1 DEF LoopInv
    <3>6. QED
      BY <3>1, <3>2, <3>4, <3>5
  <2>5. QED
    BY <2>1, <2>2, <2>3, <2>4 DEF LoopInv
<1>4. CASE MapNext
  <2>1. UNCHANGED <<decisions, applied, pass>>
    BY <1>4 DEF MapNext, MapWith, Passed
  <2>2. QED
    BY <2>1, LoopUnchanged
<1>5. CASE AskUnmapped \/ BuildRecords \/ MergeRecords \/ CheckFormats \/ CheckRecords \/ SettleRecords
  <2>1. UNCHANGED <<decisions, applied, pass>>
    BY <1>5 DEF AskUnmapped, BuildRecords, MergeRecords, CheckFormats, CheckRecords, SettleRecords,
                Stage, Passed
  <2>2. QED
    BY <2>1, LoopUnchanged
<1>6. CASE Mark \/ Finish
  <2>1. UNCHANGED <<decisions, applied, pass>>
    BY <1>6 DEF Mark, Finish
  <2>2. QED
    BY <2>1, LoopUnchanged
<1>7. CASE Recall \/ Turn \/ Conclude \/ GiveUp
  <2>1. UNCHANGED <<decisions, applied, pass>>
    BY <1>7 DEF Recall, Turn, Conclude, GiveUp, Rest
  <2>2. QED
    BY <2>1, LoopUnchanged
<1>8. CASE UNCHANGED vars
  <2>1. UNCHANGED <<decisions, applied, pass>>
    BY <1>8 DEF vars
  <2>2. QED
    BY <2>1, LoopUnchanged
<1>9. QED
  BY <1>1, <1>2, <1>3, <1>4, <1>5, <1>6, <1>7, <1>8 DEF Next

\* No decision, nothing applied, the first pass.
LEMMA LoopInit == Init => LoopInv
<1> SUFFICES ASSUME Init PROVE LoopInv
  OBVIOUS
<1>1. decisions = <<>> /\ applied = {} /\ pass = 1
  BY DEF Init
<1>2. decisions \in Seq({})
  BY <1>1, EmptySeq
<1>3. Cardinality({}) = 0
  BY FS_EmptySet
<1>4. QED
  BY <1>1, <1>2, <1>3 DEF LoopInv

\* However many decisions there are and whatever order their questions come up
\* in, a pass beyond the first was earned by a decision applied before it
\* (replay, runtime.py).
THEOREM PassesAreEarned == Spec => []LoopInv
<1>1. LoopInv /\ [Next]_vars => LoopInv'
  BY LoopStep
<1>2. QED
  BY LoopInit, <1>1, PTL DEF Spec

\* The last pass is asked for by one in which no decision found its question.
LEMMA LastPassIsEarned ==
  ASSUME LoopInv, MatchDecisions, pass' = 0
  PROVE  Answerable = {}
<1> SUFFICES ASSUME Answerable # {} PROVE FALSE
  OBVIOUS
<1>1. pass > Len(decisions)
  <2>1. pass' = IF Answerable = {} \/ pass > Len(decisions) THEN 0 ELSE pass + 1
    BY DEF MatchDecisions, RunAgain
  <2>2. pass \in Nat
    BY DEF LoopInv
  <2>3. QED
    BY <2>1, <2>2
<1>2. /\ Len(decisions) \in Nat /\ IsFiniteSet(DOMAIN decisions)
      /\ Cardinality(DOMAIN decisions) = Len(decisions)
  BY PlacesOfDecisions
<1>3. applied \cup Answerable \in SUBSET DOMAIN decisions
  BY DEF LoopInv, Answerable
<1>4. /\ IsFiniteSet(applied \cup Answerable)
      /\ Cardinality(applied \cup Answerable) <= Len(decisions)
  BY <1>2, <1>3, FS_Subset
<1>5. /\ Cardinality(applied) \in Nat
      /\ Cardinality(applied \cup Answerable) >= Cardinality(applied) + 1
  BY AppliedGrows
<1>6. Cardinality(applied \cup Answerable) \in Nat
  BY <1>4, FS_CardinalityType
<1>7. pass \in Nat /\ pass <= Cardinality(applied) + 1
  BY DEF LoopInv, MatchDecisions
<1>8. QED
  BY <1>1, <1>2, <1>4, <1>5, <1>6, <1>7

\* The cap on the passes is never what ends the loop: a pass beyond it would
\* be one in which every decision had been applied (replay, runtime.py).
THEOREM LoopIsLongEnough == Spec => EndsWhenNothingIsAnswered
<1>1. ASSUME LoopInv, [Next]_vars PROVE [(pass # 0 /\ pass' = 0) => Answerable = {}]_vars
  <2> SUFFICES ASSUME Next, pass # 0, pass' = 0 PROVE Answerable = {}
    BY <1>1
  <2>1. MatchDecisions
    <3>1. ~(Open \/ Decide)
      BY DEF Open, Decide, Begin
    <3>2. ~(MapNext \/ AskUnmapped \/ BuildRecords \/ MergeRecords \/ CheckFormats \/ CheckRecords
              \/ SettleRecords)
      BY DEF MapNext, MapWith, AskUnmapped, BuildRecords, MergeRecords, CheckFormats, CheckRecords,
             SettleRecords, Stage, Passed
    <3>3. ~(Mark \/ Finish \/ Recall \/ Turn \/ Conclude \/ GiveUp)
      BY DEF Mark, Finish, Recall, Turn, Conclude, GiveUp, Rest
    <3>4. QED
      BY <3>1, <3>2, <3>3 DEF Next
  <2>2. QED
    BY <1>1, <2>1, LastPassIsEarned
<1>2. QED
  BY <1>1, PassesAreEarned, PTL DEF Spec, EndsWhenNothingIsAnswered

(************************** the recorded answers ***************************)

Kept(before, after) == \A x \in DOMAIN before : x \in DOMAIN after /\ after[x] = before[x]

\* An entry that was not there.
LEMMA NewEntryKeeps ==
  ASSUME NEW f, NEW x, NEW value, x \notin DOMAIN f
  PROVE  Kept(f, Put(f, x, value))
BY DEF Kept, Put

\* Nothing new.
LEMMA SameKeeps ==
  ASSUME NEW f, NEW g, g = f
  PROVE  Kept(f, g)
BY DEF Kept

\* What the model said of a file and what it found out about a question is
\* never asked again, changed or forgotten, however often the run is replayed:
\* a second answer could move a column nobody touched (CachingProvider).
THEOREM RecordedAnswersStand == Spec => [][Kept(proposed, proposed') /\ Kept(found, found')]_vars
<1>1. ASSUME [Next]_vars PROVE [Kept(proposed, proposed') /\ Kept(found, found')]_vars
  <2> SUFFICES ASSUME Next PROVE Kept(proposed, proposed') /\ Kept(found, found')
    BY <1>1
  <2>1. CASE Open \/ Decide
    BY <2>1, SameKeeps DEF Open, Decide
  <2>2. CASE MapNext
    <3>1. Kept(found, found')
      BY <2>2, SameKeeps DEF MapNext
    <3>2. proposed' = proposed \/ \E file, said : file \notin DOMAIN proposed /\ proposed' = Put(proposed, file, said)
      <4> DEFINE source == scene.sources[next]
      <4>1. \/ proposed' = proposed
            \/ /\ source.name \notin DOMAIN proposed
               /\ \E said \in scene.proposals[source.name] : proposed' = Recorded(source.name, said)
        <5> USE <2>2 DEF MapNext
        <5> HIDE DEF MapWith
        <5>1. QED
          OBVIOUS
      <4>2. QED
        BY <4>1 DEF Recorded
    <3>3. Kept(proposed, proposed')
      BY <3>2, SameKeeps, NewEntryKeeps
    <3>4. QED
      BY <3>1, <3>3
  <2>3. CASE AskUnmapped \/ BuildRecords \/ MergeRecords \/ CheckFormats \/ CheckRecords \/ SettleRecords
    BY <2>3, SameKeeps DEF AskUnmapped, BuildRecords, MergeRecords, CheckFormats, CheckRecords,
                           SettleRecords, Stage
  <2>4. CASE MatchDecisions
    <3>1. proposed' = proposed /\ found' = found
      BY <2>4 DEF MatchDecisions, RunAgain
    <3>2. QED
      BY <3>1, SameKeeps
  <2>5. CASE Mark \/ Finish
    BY <2>5, SameKeeps DEF Mark, Finish
  <2>6. CASE Recall \/ Turn \/ GiveUp
    BY <2>6, SameKeeps DEF Recall, Turn, GiveUp, Rest
  <2>7. CASE Conclude
    <3>1. proposed' = proposed
      BY <2>7 DEF Conclude, Rest
    <3>2. \E question, finding : question \notin DOMAIN found /\ found' = Put(found, question, finding)
      BY <2>7 DEF Conclude, Asking
    <3>3. QED
      BY <3>1, <3>2, SameKeeps, NewEntryKeeps
  <2>8. QED
    BY <2>1, <2>2, <2>3, <2>4, <2>5, <2>6, <2>7 DEF Next
<1>2. QED
  BY <1>1, PTL DEF Spec

ShapedInv == scene \in Scenes /\ next \in Nat \ {0} /\ Shaped(run) /\ Shaped(shown.run)

\* The files of a run.
LEMMA SourcesAreSheets ==
  ASSUME NEW s \in Scenes
  PROVE  IsSeq(s.sources) /\ \A i \in DOMAIN s.sources : Sheet(s.sources[i])
<1>1. s.sources \in Seq(Range(s.sources))
  BY ScenesAssumption
<1>2. \A i \in DOMAIN s.sources : s.sources[i] \in Range(s.sources)
  BY DEF Range
<1>3. \A file \in Range(s.sources) :
        file.headers \in Seq(Range(file.headers)) /\ file.rows \in Seq(Range(file.rows))
  BY ScenesAssumption
<1>4. QED
  BY <1>1, <1>2, <1>3 DEF IsSeq, Sheet

\* And those that nobody left out.
LEMMA ReadIsSheets ==
  ASSUME scene \in Scenes
  PROVE  IsSeq(Read) /\ \A i \in DOMAIN Read : Sheet(Read[i])
<1> DEFINE kept == {s \in Range(scene.sources) : s.name \notin overrides.ignored}
<1>1. IsSeq(scene.sources) /\ \A i \in DOMAIN scene.sources : Sheet(scene.sources[i])
  BY SourcesAreSheets
<1>2. \A s \in kept : Sheet(s)
  BY <1>1 DEF Range
<1> HIDE DEF kept
<1>3. /\ IsSeq(Those(scene.sources, kept))
      /\ \A i \in DOMAIN Those(scene.sources, kept) : Those(scene.sources, kept)[i] \in kept
  BY <1>1, ThoseIs
<1>4. Read = Those(scene.sources, kept)
  BY DEF Read, kept
<1>5. QED
  BY <1>2, <1>3, <1>4

\* Nothing is worked out yet.
LEMMA ShapedInit == Init => ShapedInv
BY NewRunShaped DEF Init, ShapedInv, NoResult

\* A finding changes the question looked into.
LEMMA LookedFormed ==
  ASSUME Shaped(run), NEW finding
  PROVE  Formed(run, Looked(run.cases[Queue[next]], finding))
<1> DEFINE q == Queue[next]
           case == Suggest(run.cases[q], finding)
<1>1. DOMAIN case = DOMAIN run.cases[q]
  BY DEF Suggest
<1>2. Looked(run.cases[q], finding) = [run EXCEPT !.cases[q] = case]
  BY DEF Looked
<1> HIDE DEF case, q
<1>3. Formed(run, [run EXCEPT !.cases[q] = case])
  BY <1>1, FormedCase DEF Formed
<1>4. QED
  BY <1>2, <1>3 DEF q

\* Marking the answered questions drops none.
LEMMA MarkedFormed ==
  ASSUME Shaped(run)
  PROVE  Formed(run, [run EXCEPT !.cases = Marked(run.cases)])
<1> DEFINE cases == Marked(run.cases)
<1>1. /\ cases = [n \in DOMAIN run.cases |-> cases[n]]
      /\ \A n \in DOMAIN run.cases : DOMAIN cases[n] = DOMAIN run.cases[n]
  BY DEF Marked
<1> HIDE DEF cases
<1>2. Formed(run, [run EXCEPT !.cases = cases])
  BY <1>1, FormedCases DEF Formed
<1>3. QED
  BY <1>2 DEF cases

\* Once the columns are mapped they stay as they are to the end of the replay.
Later == \/ AskUnmapped \/ BuildRecords \/ MergeRecords \/ CheckFormats \/ CheckRecords \/ SettleRecords
         \/ Mark \/ Recall \/ Turn \/ Conclude \/ GiveUp \/ Finish \/ UNCHANGED vars

\* What follows the mapping keeps the mappings.
LEMMA LaterForms ==
  ASSUME scene \in Scenes, Shaped(run), Later
  PROVE  Formed(run, run')
<1>0. Formed(run, run)
  BY DEF Formed
<1>1. CASE AskUnmapped
  <2> DEFINE files == [i \in DOMAIN Read |-> Read[i].name]
  <2>1. run' = UnmappedRequired(run, files)
    BY <1>1 DEF AskUnmapped, Stage, Passed
  <2>2. IsSeq(files)
    <3>1. files = [i \in DOMAIN Read |-> files[i]] /\ IsSeq(Read)
      BY ReadIsSheets
    <3> HIDE DEF files
    <3>2. QED
      BY <3>1, SeqChanged
  <2> HIDE DEF files
  <2>3. QED
    BY <1>0, <2>1, <2>2, UnmappedFormed
<1>2. CASE BuildRecords
  <2>1. run' = Build(run, overrides, Read)
    BY <1>2 DEF BuildRecords, Stage, Passed
  <2>2. QED
    BY <1>0, <2>1, ReadIsSheets, BuildFormed
<1>3. CASE MergeRecords \/ CheckFormats \/ CheckRecords \/ SettleRecords
  <2>1. run' \in {Reconcile(run, overrides), CrossCheckFormats(run), Validate(run),
                   Finalise(run, overrides)}
    BY <1>3 DEF MergeRecords, CheckFormats, CheckRecords, SettleRecords, Stage, Passed
  <2>2. QED
    BY <1>0, <2>1, ReconcileFormed, CrossCheckFormed, ValidateFormed, FinaliseFormed
<1>4. CASE Mark
  <2>1. run' = [run EXCEPT !.cases = Marked(run.cases)]
    BY <1>4 DEF Mark
  <2>2. QED
    BY <2>1, MarkedFormed
<1>5. CASE Recall \/ Conclude
  <2>1. \E finding : run' = Looked(run.cases[Queue[next]], finding)
    BY <1>5 DEF Recall, Conclude, Rest
  <2>2. QED
    BY <2>1, LookedFormed
<1>6. CASE Turn \/ GiveUp \/ Finish \/ UNCHANGED vars
  <2>1. run' = run
    BY <1>6 DEF Turn, GiveUp, Finish, Rest, vars
  <2>2. QED
    BY <1>0, <2>1
<1>7. QED
  BY <1>1, <1>2, <1>3, <1>4, <1>5, <1>6 DEF Later

\* Every stage keeps the shape.
LEMMA ShapedStep == ShapedInv /\ [Next]_vars => ShapedInv'
<1> SUFFICES ASSUME ShapedInv, [Next]_vars PROVE ShapedInv'
  OBVIOUS
<1>0. scene \in Scenes /\ next \in Nat \ {0} /\ Shaped(run) /\ Shaped(shown.run)
  BY DEF ShapedInv
<1>1. CASE Open \/ Decide \/ MatchDecisions
  <2>1. run' = NewRun /\ UNCHANGED <<scene, shown>> /\ next' = 1
    BY <1>1 DEF Open, Decide, MatchDecisions, Begin, RunAgain
  <2>2. QED
    BY <1>0, <2>1, NewRunShaped DEF ShapedInv
<1>2. CASE MapNext
  <2>1. /\ UNCHANGED <<scene, shown>> /\ next' = next + 1
        /\ run' = run \/ \E votes : run' = MapFile(run, overrides, scene.sources[next], votes)
    BY <1>2 DEF MapNext, MapWith, Passed
  <2>2. next <= Len(scene.sources)
    BY <1>2 DEF MapNext
  <2>3. IsSeq(scene.sources[next].headers)
    <3>1. IsSeq(scene.sources) /\ \A i \in DOMAIN scene.sources : Sheet(scene.sources[i])
      BY <1>0, SourcesAreSheets
    <3>2. next \in DOMAIN scene.sources
      BY <1>0, <2>2, <3>1, SeqIs
    <3>3. QED
      BY <3>1, <3>2 DEF Sheet
  <2>4. QED
    BY <1>0, <2>1, <2>3, MapFileShaped DEF ShapedInv
<1>3. CASE Later
  <2>1. Shaped(run')
    BY <1>0, <1>3, LaterForms DEF Formed
  <2>2. UNCHANGED scene /\ shown'.run \in {run, shown.run} /\ next' \in {next, next + 1, 1}
    <3>1. CASE AskUnmapped \/ BuildRecords \/ MergeRecords \/ CheckFormats \/ CheckRecords \/ SettleRecords
      BY <3>1 DEF AskUnmapped, BuildRecords, MergeRecords, CheckFormats, CheckRecords, SettleRecords,
                  Stage, Passed
    <3>2. CASE Mark
      BY <3>2 DEF Mark
    <3>3. CASE Recall \/ Conclude
      BY <3>3 DEF Recall, Conclude, Rest
    <3>4. CASE Turn \/ GiveUp \/ Finish \/ UNCHANGED vars
      BY <3>4 DEF Turn, GiveUp, Finish, Rest, vars
    <3>5. QED
      BY <1>3, <3>1, <3>2, <3>3, <3>4 DEF Later
  <2>3. QED
    BY <1>0, <2>1, <2>2 DEF ShapedInv
<1>4. QED
  BY <1>1, <1>2, <1>3 DEF Next, Later

\* Whatever a replay has come to, its questions are review cases one after
\* another and its records a list: the shape of class Pipeline (pipeline.py).
THEOREM RunAlwaysShaped == Spec => []ShapedInv
BY ShapedInit, ShapedStep, PTL DEF Spec

\* What comes of looking into a question.
LEMMA LookedChanges ==
  ASSUME Shaped(run), NEW finding, NEW after, after = Looked(run.cases[Queue[next]], finding)
  PROVE  /\ Outcome(after) = Outcome(run)
         /\ \A n \in DOMAIN run.cases :
              /\ run.cases[n].options \subseteq after.cases[n].options
              /\ run.cases[n].recommended # None => after.cases[n] = run.cases[n]
<1> DEFINE q == Queue[next]
           case == Suggest(run.cases[q], finding)
<1>1. after = [run EXCEPT !.cases[q] = case]
  BY DEF Looked
<1>2. DOMAIN run = RunFields /\ \A n \in DOMAIN run.cases : DOMAIN run.cases[n] = DOMAIN NoCase
  BY FieldsOfRun DEF Shaped, Asked
<1> HIDE DEF q
<1>3. /\ after.cases = [n \in DOMAIN run.cases |-> IF n = q THEN case ELSE run.cases[n]]
      /\ after.records = run.records /\ after.mappings = run.mappings
  BY <1>1, <1>2 DEF RunFields
<1> HIDE DEF case
<1>4. ASSUME q \in DOMAIN run.cases
      PROVE  /\ run.cases[q].options \subseteq case.options
             /\ run.cases[q].recommended # None => case = run.cases[q]
             /\ [case EXCEPT !.options = {}, !.recommended = None]
                  = [run.cases[q] EXCEPT !.options = {}, !.recommended = None]
  BY <1>2, <1>4 DEF case, Suggest, NoCase
<1>5. Outcome(after) = Outcome(run)
  BY <1>3, <1>4 DEF Outcome
<1>6. QED
  BY <1>3, <1>4, <1>5

\* Looking into a question leaves the records, the mappings and what is asked
\* as they were, takes no option away, and touches nothing of a question for
\* which the data recommends an answer (enrich, investigate.py).
THEOREM MeasuredAlwaysStands == Spec => MeasuredStands
<1> DEFINE Stands == (phase = "look" /\ run' # run) =>
       /\ Outcome(run') = Outcome(run)
       /\ \A n \in DOMAIN run.cases :
            /\ run.cases[n].options \subseteq run'.cases[n].options
            /\ run.cases[n].recommended # None => run'.cases[n] = run.cases[n]
<1>1. ASSUME ShapedInv, [Next]_vars PROVE [Stands]_vars
  <2> SUFFICES ASSUME Next, phase = "look", run' # run PROVE Stands
    BY <1>1
  <2>1. \E finding : run' = Looked(run.cases[Queue[next]], finding)
    <3>1. ~(Open \/ Decide \/ MapNext \/ AskUnmapped \/ BuildRecords \/ MergeRecords \/ CheckFormats
             \/ CheckRecords \/ SettleRecords \/ MatchDecisions \/ Mark)
      BY DEF Open, Decide, MapNext, AskUnmapped, BuildRecords, MergeRecords, CheckFormats,
             CheckRecords, SettleRecords, MatchDecisions, Mark, Stage
    <3>2. ~(Turn \/ GiveUp \/ Finish)
      BY DEF Turn, GiveUp, Finish
    <3>3. Recall \/ Conclude
      BY <3>1, <3>2 DEF Next
    <3>4. QED
      BY <3>3 DEF Recall, Conclude
  <2>2. PICK after : after = run'
    OBVIOUS
  <2>3. /\ Outcome(after) = Outcome(run)
        /\ \A n \in DOMAIN run.cases :
             /\ run.cases[n].options \subseteq after.cases[n].options
             /\ run.cases[n].recommended # None => after.cases[n] = run.cases[n]
    BY <1>1, <2>1, <2>2, LookedChanges DEF ShapedInv
  <2>4. Outcome(run') = Outcome(after)
    BY <2>2
  <2>5. QED
    BY <2>2, <2>3, <2>4
<1>2. QED
  BY <1>1, RunAlwaysShaped, PTL DEF Spec, MeasuredStands

(***************** what a pass makes of the recorded answers ***************)

\* Whether a file is mapped, and what that makes of the run.
Used(o, source) == source.name \notin o.ignored /\ source.rows # <<>>
FileStep(o, said, done, source) ==
  IF Used(o, source) THEN MapFile(done, o, source, Votes(source, said[source.name])) ELSE done
Mapping == INSTANCE FoldInduction WITH Step <- FileStep, Inv <- ShapedLoop

ReadOf(sources, o) == Those(sources, {s \in Range(sources) : s.name \notin o.ignored})

Mapped(sources, o, said, n) == Mapping!After(o, said, NewRun, sources, n)
AfterAsking(sources, o, said) ==
  UnmappedRequired(Mapped(sources, o, said, Len(sources)),
                   [i \in DOMAIN ReadOf(sources, o) |-> ReadOf(sources, o)[i].name])
AfterBuilding(sources, o, said) == Build(AfterAsking(sources, o, said), o, ReadOf(sources, o))
AfterMerging(sources, o, said) == Reconcile(AfterBuilding(sources, o, said), o)
AfterDates(sources, o, said) == CrossCheckFormats(AfterMerging(sources, o, said))
AfterChecking(sources, o, said) == Validate(AfterDates(sources, o, said))
Worked(sources, o, said) == Finalise(AfterChecking(sources, o, said), o)

\* The model has answered for every file mapped.
Known(sources, o, said, n) == \A i \in 1..n : Used(o, sources[i]) => sources[i].name \in DOMAIN said
Answered(sources, o, said) == Known(sources, o, said, Len(sources))

\* Mapping goes from file to file.
LEMMA MappedSteps ==
  ASSUME NEW sources, IsSeq(sources), NEW o, NEW said
  PROVE  /\ Mapped(sources, o, said, 0) = NewRun
         /\ \A n \in 1..Len(sources) :
              Mapped(sources, o, said, n) = FileStep(o, said, Mapped(sources, o, said, n - 1), sources[n])
<1>1. Mapping!Sequence(sources)
  BY SeqReached DEF Mapping!Sequence, Mapping!Reached
<1>2. Mapping!After(o, said, NewRun, sources, 0) = NewRun
  BY <1>1, Mapping!FoldSteps
<1>3. \A n \in 1..Len(sources) :
        Mapping!After(o, said, NewRun, sources, n) =
          FileStep(o, said, Mapping!After(o, said, NewRun, sources, n - 1), sources[n])
  BY <1>1, Mapping!FoldSteps
<1>4. QED
  BY <1>2, <1>3 DEF Mapped

\* An answer for a file that comes later changes none of what came of the
\* files before.
LEMMA MappedKept ==
  ASSUME NEW sources, IsSeq(sources), NEW o, NEW said, NEW more, Kept(said, more),
         NEW n \in 0..Len(sources), Known(sources, o, said, n)
  PROVE  Mapped(sources, o, more, n) = Mapped(sources, o, said, n) /\ Known(sources, o, more, n)
<1> DEFINE T == {k \in 0..n : Mapped(sources, o, more, k) = Mapped(sources, o, said, k)}
<1>0. Len(sources) \in Nat /\ n \in Nat
  BY SeqIs
<1>1. 0 \in T
  BY <1>0, MappedSteps
<1>2. ASSUME NEW k \in 0..(n - 1), k \in T PROVE k + 1 \in T
  <2>1. k + 1 \in 1..n /\ k + 1 \in 1..Len(sources) /\ (k + 1) - 1 = k
    BY <1>0
  <2>2. Mapped(sources, o, more, k + 1) = FileStep(o, more, Mapped(sources, o, more, k), sources[k + 1])
    BY <2>1, MappedSteps
  <2>3. Mapped(sources, o, said, k + 1) = FileStep(o, said, Mapped(sources, o, said, k), sources[k + 1])
    BY <2>1, MappedSteps
  <2>4. Used(o, sources[k + 1]) => more[sources[k + 1].name] = said[sources[k + 1].name]
    BY <2>1 DEF Known, Kept
  <2>5. FileStep(o, more, Mapped(sources, o, said, k), sources[k + 1])
          = FileStep(o, said, Mapped(sources, o, said, k), sources[k + 1])
    BY <2>4 DEF FileStep
  <2>6. QED
    BY <1>2, <2>1, <2>2, <2>3, <2>5
<1>3. n \in T
  <2> HIDE DEF T
  <2>1. \A m \in 0..n : m \in T
    BY <1>0, <1>1, <1>2, Counting
  <2>2. QED
    BY <1>0, <2>1
<1>4. QED
  BY <1>3 DEF Known, Kept

\* An answer for a file that is not mapped changes nothing at all.
LEMMA WorkedKept ==
  ASSUME NEW sources, IsSeq(sources), NEW o, NEW said, NEW more, Kept(said, more), Answered(sources, o, said)
  PROVE  /\ Answered(sources, o, more)
         /\ AfterAsking(sources, o, more) = AfterAsking(sources, o, said)
         /\ Worked(sources, o, more) = Worked(sources, o, said)
<1>1. Len(sources) \in 0..Len(sources)
  BY SeqIs
<1>2. Mapped(sources, o, more, Len(sources)) = Mapped(sources, o, said, Len(sources))
  BY <1>1, MappedKept DEF Answered
<1>3. Answered(sources, o, more)
  BY <1>1, MappedKept DEF Answered
<1>4. AfterAsking(sources, o, more) = AfterAsking(sources, o, said)
  BY <1>2 DEF AfterAsking
<1>5. QED
  BY <1>3, <1>4 DEF Worked, AfterChecking, AfterDates, AfterMerging, AfterBuilding

(********************* what a pass makes of the decisions ******************)

Sorted(T) == [i \in 1..Cardinality(T) |-> CHOOSE d \in T : Cardinality({e \in T : e < d}) = i - 1]
DecideStep(cases, taken, o, d) ==
  ApplyDecision(o, cases[CaseWith(cases, taken[d].key)], taken[d].action, taken[d].answer)
Deciding == INSTANCE FoldInduction WITH Step <- DecideStep, Inv <- ShapedLoop

\* The decisions that find their question in a pass.
Finds(sources, taken, said, loop) ==
  {d \in DOMAIN taken :
     d \notin loop.applied /\ taken[d].key \in Keys(Worked(sources, loop.overrides, said).cases)}

PassOn(sources, taken, said, loop) ==
  [overrides |-> Deciding!Over(Worked(sources, loop.overrides, said).cases, taken, loop.overrides,
                               Sorted(Finds(sources, taken, said, loop))),
   applied   |-> loop.applied \cup Finds(sources, taken, said, loop)]

Loop == [overrides |-> overrides, applied |-> applied]

\* The decisions a pass applies are those that found their question in it.
LEMMA AnswerableIsFound ==
  ASSUME run = Worked(scene.sources, overrides, proposed)
  PROVE  Answerable = Finds(scene.sources, decisions, proposed, Loop)
BY DEF Answerable, Finds, Loop

\* What the loop hands to its next pass.
LEMMA RunAgainPassesOn ==
  ASSUME run = Worked(scene.sources, overrides, proposed), NEW p, RunAgain(p)
  PROVE  Loop' = PassOn(scene.sources, decisions, proposed, Loop)
<1> DEFINE there == Answerable
           at(i) == CHOOSE d \in there : Cardinality({e \in there : e < d}) = i - 1
           order == InOrder(there, LAMBDA d, e : d < e)
<1>1. order = [i \in 1..Cardinality(there) |-> at(i)]
  BY Zenon DEF InOrder
<1>2. order = Sorted(there)
  BY <1>1, Zenon DEF Sorted
<1>3. overrides' = FoldLeft(Apply, overrides, order)
  BY Zenon DEF RunAgain
<1> HIDE DEF order, at
<1>4. FoldLeft(Apply, overrides, order) = Deciding!Over(run.cases, decisions, overrides, order)
  BY DEF Apply, Deciding!Over, DecideStep, Deciding!Unfolding, FoldLeft,
         MapThenFoldSet, Deciding!Last, Max
<1>5. applied' = applied \cup Answerable
  BY DEF RunAgain
<1>6. Answerable = Finds(scene.sources, decisions, proposed, Loop)
  BY AnswerableIsFound
<1>7. Loop.overrides = overrides /\ Loop.applied = applied
  BY DEF Loop
<1>8. Loop' = [overrides |-> overrides', applied |-> applied']
  BY DEF Loop
<1> HIDE DEF Loop
<1>9. QED
  BY <1>2, <1>3, <1>4, <1>5, <1>6, <1>7, <1>8 DEF PassOn

\* A pass in which no decision finds its question leaves the overrides.
LEMMA NothingFound ==
  ASSUME NEW sources, NEW taken, NEW said, NEW loop,
         loop = [overrides |-> loop.overrides, applied |-> loop.applied],
         Finds(sources, taken, said, loop) = {}
  PROVE  PassOn(sources, taken, said, loop) = loop
<1> DEFINE cases == Worked(sources, loop.overrides, said).cases
<1>1. Sorted({}) = <<>>
  <2>1. Cardinality({}) = 0
    BY FS_EmptySet
  <2>2. QED
    BY <2>1 DEF Sorted
<1>2. Deciding!Sequence(<<>>) /\ Len(<<>>) = 0
  BY SeqEmpty, SeqReached DEF Deciding!Sequence, Deciding!Reached
<1>3. Deciding!Over(cases, taken, loop.overrides, <<>>) = loop.overrides
  BY <1>2, Deciding!FoldSteps
<1>4. QED
  BY <1>1, <1>3 DEF PassOn

(************************ the passes of a replay ***************************)

Begun == [overrides |-> NoOverrides, applied |-> {}]

\* t has what the first k passes of a replay make of the overrides, each of
\* them answered for by the model.
Passes(sources, taken, said, t, k) ==
  /\ k \in Nat /\ t[0] = Begun
  /\ \A j \in 1..k : /\ Answered(sources, t[j - 1].overrides, said)
                     /\ t[j] = PassOn(sources, taken, said, t[j - 1])

\* Those passes are all: in the next no decision finds its question.
Ends(sources, taken, said, t, k) ==
  /\ Passes(sources, taken, said, t, k)
  /\ Answered(sources, t[k].overrides, said)
  /\ Finds(sources, taken, said, t[k]) = {}

\* What a pass is handed: overrides and the decisions applied.
LEMMA PassIsLoop ==
  ASSUME NEW sources, NEW taken, NEW said, NEW t, NEW k, Passes(sources, taken, said, t, k), NEW j \in 0..k
  PROVE  t[j] = [overrides |-> t[j].overrides, applied |-> t[j].applied]
<1>1. CASE j = 0
  BY <1>1 DEF Passes, Begun
<1>2. CASE j \in 1..k
  <2>1. t[j] = PassOn(sources, taken, said, t[j - 1])
    BY <1>2 DEF Passes
  <2>2. QED
    BY <2>1 DEF PassOn
<1>3. QED
  BY <1>1, <1>2 DEF Passes

\* More answers of the model make no difference to a pass answered for.
LEMMA PassOnKept ==
  ASSUME NEW sources, IsSeq(sources), NEW taken, NEW said, NEW more, Kept(said, more), NEW loop,
         Answered(sources, loop.overrides, said)
  PROVE  /\ Finds(sources, taken, more, loop) = Finds(sources, taken, said, loop)
         /\ PassOn(sources, taken, more, loop) = PassOn(sources, taken, said, loop)
<1>1. Worked(sources, loop.overrides, more) = Worked(sources, loop.overrides, said)
  BY WorkedKept
<1>2. Finds(sources, taken, more, loop) = Finds(sources, taken, said, loop)
  BY <1>1 DEF Finds
<1>3. QED
  BY <1>1, <1>2 DEF PassOn

\* Nor to those before it.
LEMMA PassesKept ==
  ASSUME NEW sources, IsSeq(sources), NEW taken, NEW said, NEW more, Kept(said, more), NEW t, NEW k,
         Passes(sources, taken, said, t, k)
  PROVE  Passes(sources, taken, more, t, k)
<1>1. ASSUME NEW j \in 1..k
      PROVE  /\ Answered(sources, t[j - 1].overrides, more)
             /\ t[j] = PassOn(sources, taken, more, t[j - 1])
  <2>1. Answered(sources, t[j - 1].overrides, said) /\ t[j] = PassOn(sources, taken, said, t[j - 1])
    BY DEF Passes
  <2>2. QED
    BY <2>1, WorkedKept, PassOnKept
<1>2. QED
  BY <1>1 DEF Passes

\* Nor to where they end.
LEMMA EndsKept ==
  ASSUME NEW sources, IsSeq(sources), NEW taken, NEW said, NEW more, Kept(said, more), NEW t, NEW k,
         Ends(sources, taken, said, t, k)
  PROVE  /\ Ends(sources, taken, more, t, k)
         /\ Worked(sources, t[k].overrides, more) = Worked(sources, t[k].overrides, said)
BY PassesKept, PassOnKept, WorkedKept DEF Ends

\* One pass more.
LEMMA PassesGoOn ==
  ASSUME NEW sources, NEW taken, NEW said, NEW t, NEW k, Passes(sources, taken, said, t, k),
         Answered(sources, t[k].overrides, said)
  PROVE  \E u : /\ Passes(sources, taken, said, u, k + 1)
                /\ u[k + 1] = PassOn(sources, taken, said, t[k])
<1> DEFINE u == [j \in 0..(k + 1) |-> IF j = k + 1 THEN PassOn(sources, taken, said, t[k]) ELSE t[j]]
<1>0. k \in Nat
  BY DEF Passes
<1>1. \A j \in 0..k : u[j] = t[j]
  BY <1>0
<1>2. u[k + 1] = PassOn(sources, taken, said, t[k])
  BY <1>0
<1> HIDE DEF u
<1>3. ASSUME NEW j \in 1..(k + 1)
      PROVE  /\ Answered(sources, u[j - 1].overrides, said)
             /\ u[j] = PassOn(sources, taken, said, u[j - 1])
  <2>1. CASE j = k + 1
    <3>1. u[j - 1] = t[k] /\ u[j] = PassOn(sources, taken, said, t[k])
      BY <1>0, <1>1, <1>2, <2>1
    <3>2. QED
      BY <3>1
  <2>2. CASE j # k + 1
    <3>1. j \in 1..k /\ j \in 0..k /\ j - 1 \in 0..k
      BY <1>0, <2>2
    <3>2. u[j - 1] = t[j - 1] /\ u[j] = t[j]
      BY <1>1, <3>1
    <3>3. QED
      BY <3>1, <3>2 DEF Passes
  <2>3. QED
    BY <2>1, <2>2
<1>4. u[0] = Begun
  BY <1>0, <1>1 DEF Passes
<1>5. QED
  BY <1>0, <1>2, <1>3, <1>4 DEF Passes

\* A replay that has ended stays where it is, however many passes follow.
LEMMA EndsReached ==
  ASSUME NEW sources, NEW taken, NEW said, NEW t, NEW k, NEW u, NEW m,
         Ends(sources, taken, said, t, k), Passes(sources, taken, said, u, m), k <= m
  PROVE  u[m] = t[k]
<1> DEFINE T == {j \in 0..m : u[j] = IF j <= k THEN t[j] ELSE t[k]}
<1>0. k \in Nat /\ m \in Nat /\ Passes(sources, taken, said, t, k)
  BY DEF Ends, Passes
<1>1. 0 \in T
  BY <1>0 DEF Passes
<1>2. ASSUME NEW j \in 0..(m - 1), j \in T PROVE j + 1 \in T
  <2>0. j + 1 \in 1..m /\ j + 1 \in 0..m /\ (j + 1) - 1 = j /\ j \in Nat
    BY <1>0
  <2>1. u[j + 1] = PassOn(sources, taken, said, u[j])
    BY <1>0, <2>0 DEF Passes
  <2>2. CASE j < k
    <3>1. j + 1 \in 1..k /\ j + 1 <= k /\ j <= k
      BY <1>0, <2>0, <2>2
    <3>2. t[j + 1] = PassOn(sources, taken, said, t[j])
      BY <1>0, <2>0, <3>1 DEF Passes
    <3>3. QED
      BY <1>2, <2>0, <2>1, <3>1, <3>2
  <2>3. CASE ~(j < k)
    <3>1. u[j] = t[k] /\ ~(j + 1 <= k)
      BY <1>0, <1>2, <2>0, <2>3
    <3>2. t[k] = [overrides |-> t[k].overrides, applied |-> t[k].applied]
      BY <1>0, PassIsLoop
    <3>3. PassOn(sources, taken, said, t[k]) = t[k]
      BY <3>2, NothingFound DEF Ends
    <3>4. QED
      BY <2>0, <2>1, <3>1, <3>3
  <2>4. QED
    BY <2>2, <2>3
<1>3. \A j \in 0..m : j \in T
  <2> HIDE DEF T
  <2>1. QED
    BY <1>0, <1>1, <1>2, Counting
<1>4. m \in T
  BY <1>0, <1>3
<1>5. QED
  BY <1>0, <1>4

\* The same answers and the same decisions end in the same overrides.
LEMMA EndsAlike ==
  ASSUME NEW sources, NEW taken, NEW said, NEW t, NEW k, NEW u, NEW m,
         Ends(sources, taken, said, t, k), Ends(sources, taken, said, u, m)
  PROVE  u[m] = t[k]
<1>1. Passes(sources, taken, said, t, k) /\ Passes(sources, taken, said, u, m)
  BY DEF Ends
<1>2. k \in Nat /\ m \in Nat
  BY <1>1 DEF Passes
<1>3. k <= m \/ m <= k
  BY <1>2
<1>4. QED
  BY <1>1, <1>3, EndsReached

(************************** what a replay ends with ************************)

\* Marked, for the decisions named.
Closed(taken, cases) ==
  LET answered == {taken[d].key : d \in DOMAIN taken}
  IN  [n \in DOMAIN cases |-> [cases[n] EXCEPT !.resolved = CaseKey(cases[n]) \in answered]]

\* A run and the decisions applied to it are where a replay ends.
Replayed(sources, taken, said, done, these) ==
  \E t, k :
    LET worked == Worked(sources, t[k].overrides, said)
    IN  /\ Ends(sources, taken, said, t, k)
        /\ these = t[k].applied
        /\ Shaped(worked) /\ Shaped(done)
        /\ Outcome(done) = Outcome([worked EXCEPT !.cases = Closed(taken, worked.cases)])

\* More answers of the model leave the end of a replay.
LEMMA ReplayedKept ==
  ASSUME NEW sources, IsSeq(sources), NEW taken, NEW said, NEW more, Kept(said, more),
         NEW done, NEW these,
         Replayed(sources, taken, said, done, these)
  PROVE  Replayed(sources, taken, more, done, these)
<1>1. PICK t, k :
        LET worked == Worked(sources, t[k].overrides, said)
        IN  /\ Ends(sources, taken, said, t, k)
            /\ these = t[k].applied
            /\ Shaped(worked) /\ Shaped(done)
            /\ Outcome(done) = Outcome([worked EXCEPT !.cases = Closed(taken, worked.cases)])
  BY DEF Replayed
<1>2. /\ Ends(sources, taken, more, t, k)
      /\ Worked(sources, t[k].overrides, more) = Worked(sources, t[k].overrides, said)
  BY <1>1, EndsKept
<1>3. QED
  BY <1>1, <1>2 DEF Replayed

\* There is one end to a replay of the same decisions with the same answers.
LEMMA ReplayedAlike ==
  ASSUME NEW sources, NEW taken, NEW said, NEW run1, NEW applied1, NEW run2, NEW applied2,
         Replayed(sources, taken, said, run1, applied1), Replayed(sources, taken, said, run2, applied2)
  PROVE  applied2 = applied1 /\ Outcome(run2) = Outcome(run1)
<1>1. PICK t, k :
        LET worked == Worked(sources, t[k].overrides, said)
        IN  /\ Ends(sources, taken, said, t, k)
            /\ applied1 = t[k].applied
            /\ Outcome(run1) = Outcome([worked EXCEPT !.cases = Closed(taken, worked.cases)])
  BY DEF Replayed
<1>2. PICK u, m :
        LET worked == Worked(sources, u[m].overrides, said)
        IN  /\ Ends(sources, taken, said, u, m)
            /\ applied2 = u[m].applied
            /\ Outcome(run2) = Outcome([worked EXCEPT !.cases = Closed(taken, worked.cases)])
  BY DEF Replayed
<1>3. u[m] = t[k]
  BY <1>1, <1>2, EndsAlike
<1>4. QED
  BY <1>1, <1>2, <1>3

\* The questions of a result have the keys of the ones that came up.
LEMMA SameKeys ==
  ASSUME NEW run1, Shaped(run1), NEW run2, Shaped(run2), NEW taken,
         Outcome(run1) = Outcome([run2 EXCEPT !.cases = Closed(taken, run2.cases)])
  PROVE  Keys(run1.cases) = Keys(run2.cases)
<1> DEFINE bare(case) == [case EXCEPT !.options = {}, !.recommended = None]
           closed == Closed(taken, run2.cases)
<1>1. \A case : DOMAIN case = DOMAIN NoCase => CaseKey(bare(case)) = CaseKey(case)
  BY DEF CaseKey, NoCase
<1>2. /\ \A n \in DOMAIN run1.cases : DOMAIN run1.cases[n] = DOMAIN NoCase
      /\ \A n \in DOMAIN run2.cases : DOMAIN run2.cases[n] = DOMAIN NoCase
      /\ DOMAIN run2 = RunFields
  BY FieldsOfRun DEF Shaped, Asked
<1>3. /\ DOMAIN closed = DOMAIN run2.cases
      /\ \A n \in DOMAIN run2.cases :
           DOMAIN closed[n] = DOMAIN NoCase /\ CaseKey(closed[n]) = CaseKey(run2.cases[n])
  BY <1>2 DEF Closed, CaseKey, NoCase
<1>4. [run2 EXCEPT !.cases = closed].cases = closed
  BY <1>2 DEF RunFields
<1>5. [n \in DOMAIN run1.cases |-> bare(run1.cases[n])] = [n \in DOMAIN closed |-> bare(closed[n])]
  <2>1. Outcome(run1).cases = Outcome([run2 EXCEPT !.cases = closed]).cases
    OBVIOUS
  <2>2. \A r : Outcome(r).cases = [n \in DOMAIN r.cases |-> bare(r.cases[n])]
    BY DEF Outcome
  <2> DEFINE other == [run2 EXCEPT !.cases = closed]
  <2>3. Outcome(run1).cases = [n \in DOMAIN run1.cases |-> bare(run1.cases[n])]
    BY <2>2
  <2>4. Outcome(other).cases = [n \in DOMAIN other.cases |-> bare(other.cases[n])]
    BY <2>2
  <2>5. other.cases = closed
    BY <1>4
  <2> HIDE DEF other, bare
  <2>6. Outcome(other).cases = [n \in DOMAIN closed |-> bare(closed[n])]
    BY <2>4, <2>5
  <2>7. Outcome(run1).cases = Outcome(other).cases
    BY <2>1 DEF other
  <2>8. QED
    BY <2>3, <2>6, <2>7
<1> HIDE DEF closed, bare
<1>6. DOMAIN run1.cases = DOMAIN run2.cases
  BY <1>3, <1>5
<1>7. \A n \in DOMAIN run1.cases : bare(run1.cases[n]) = bare(closed[n])
  BY <1>3, <1>5, <1>6
<1>8. \A n \in DOMAIN run1.cases : CaseKey(run1.cases[n]) = CaseKey(run2.cases[n])
  BY <1>1, <1>2, <1>3, <1>6, <1>7
<1>9. QED
  BY <1>6, <1>8 DEF Keys

(************************* a replay as it goes on **************************)

Sources == scene.sources
Working == {"map", "build", "reconcile", "check", "validate", "finalise", "match"}

\* Every stage has what the stages before it make of the overrides and of what
\* the model said of the files mapped so far.
StageInv ==
  /\ phase = "map" => /\ next <= Len(Sources) + 1
                      /\ Known(Sources, overrides, proposed, next - 1)
                      /\ run = Mapped(Sources, overrides, proposed, next - 1)
  /\ phase \in Working \ {"map"} => Answered(Sources, overrides, proposed)
  /\ phase = "build"     => run = AfterAsking(Sources, overrides, proposed)
  /\ phase = "reconcile" => run = AfterBuilding(Sources, overrides, proposed)
  /\ phase = "check"     => run = AfterMerging(Sources, overrides, proposed)
  /\ phase = "validate"  => run = AfterDates(Sources, overrides, proposed)
  /\ phase = "finalise"  => run = AfterChecking(Sources, overrides, proposed)
  /\ phase = "match"     => run = Worked(Sources, overrides, proposed)

\* The overrides are what the passes so far make of the decisions, and the
\* last pass is one in which none is left to be applied.
PassInv ==
  phase \in Working =>
    /\ \E t, k : Passes(Sources, decisions, proposed, t, k) /\ t[k] = Loop
    /\ pass = 0 => /\ Answered(Sources, overrides, proposed)
                   /\ Finds(Sources, decisions, proposed, Loop) = {}

\* What is looked into, and what was shown last, is the end of a replay of the
\* decisions.
EndInv ==
  /\ phase = "look" /\ ~failed => Replayed(Sources, decisions, proposed, run, applied)
  /\ phase = "idle" => shown.decisions = Len(decisions)
  /\ (shown.decisions = Len(decisions) /\ ~shown.failed) =>
       Replayed(Sources, decisions, proposed, shown.run, shown.applied)

ReplayInv == (~failed => StageInv /\ PassInv) /\ EndInv

\* Nothing is on its way or shown.
LEMMA ReplayInit == Init => ReplayInv
<1> SUFFICES ASSUME Init PROVE ReplayInv
  OBVIOUS
<1>1. phase = "start" /\ shown.decisions = -1 /\ decisions = <<>>
  BY DEF Init, NoResult
<1>2. Len(decisions) = 0
  BY <1>1, SeqEmpty
<1>3. QED
  BY <1>1, <1>2 DEF ReplayInv, StageInv, PassInv, EndInv, Working

\* A replay begins with no overrides and nothing mapped.
LEMMA BeginsAnew ==
  ASSUME scene \in Scenes, scene' = scene, run' = NewRun, next' = 1, phase' = "map"
  PROVE  StageInv'
<1>1. IsSeq(scene.sources)
  BY SourcesAreSheets
<1>2. Mapped(scene.sources, overrides', proposed', 0) = NewRun
  BY <1>1, MappedSteps
<1>3. Len(scene.sources) \in Nat
  BY <1>1, SeqIs
<1>4. Known(scene.sources, overrides', proposed', 0)
  BY DEF Known
<1>5. next' - 1 = 0 /\ 1 <= Len(scene.sources) + 1
  BY <1>3
<1>6. QED
  BY <1>2, <1>4, <1>5 DEF StageInv, Sources, Working

\* Begin, the first pass of a replay.
LEMMA BeginStep ==
  ASSUME scene \in Scenes, scene' = scene, NEW investigate, Begin(investigate)
  PROVE  StageInv' /\ PassInv'
<1>1. StageInv'
  BY BeginsAnew DEF Begin
<1>2. overrides' = NoOverrides /\ applied' = {} /\ pass' = 1
  BY DEF Begin
<1>3. Loop' = Begun
  BY <1>2 DEF Loop, Begun
<1> DEFINE t == [j \in {0} |-> Begun]
<1>4. Passes(Sources', decisions', proposed', t, 0) /\ t[0] = Loop'
  BY <1>3 DEF Passes
<1> HIDE DEF t
<1>5. QED
  BY <1>1, <1>2, <1>4 DEF PassInv

\* A replay without a new decision.
LEMMA OpenStep ==
  ASSUME scene \in Scenes, ReplayInv, Open
  PROVE  ReplayInv'
<1>1. UNCHANGED <<scene, decisions, proposed, shown>> /\ Begin(TRUE) /\ phase' = "map"
  BY DEF Open, Begin
<1>2. StageInv' /\ PassInv'
  BY <1>1, BeginStep
<1>3. EndInv'
  BY <1>1 DEF ReplayInv, EndInv, Sources
<1>4. QED
  BY <1>2, <1>3 DEF ReplayInv

\* A decision is taken: what is shown is not its replay yet.
LEMMA DecisionStep ==
  ASSUME scene \in Scenes, LoopInv, ReplayInv, Decide
  PROVE  ReplayInv'
<1>1. UNCHANGED <<scene, proposed, shown>> /\ Begin(FALSE) /\ phase = "idle" /\ phase' = "map"
  BY DEF Decide, Begin
<1>2. StageInv' /\ PassInv'
  BY <1>1, BeginStep
<1>3. shown.decisions # Len(decisions')
  <2>1. PICK said : decisions' = Append(decisions, said)
    BY DEF Decide
  <2>2. IsSeq(decisions)
    BY DEF LoopInv, IsSeq
  <2>3. Len(decisions') = Len(decisions) + 1 /\ Len(decisions) \in Nat
    BY <2>1, <2>2, SeqAppend, SeqIs
  <2>4. shown.decisions = Len(decisions)
    BY <1>1 DEF ReplayInv, EndInv
  <2>5. QED
    BY <2>3, <2>4
<1>4. EndInv'
  BY <1>1, <1>3 DEF EndInv
<1>5. QED
  BY <1>2, <1>4 DEF ReplayInv

\* What was shown stays the end of a replay when the model is asked more.
LEMMA ShownKept ==
  ASSUME scene \in Scenes, ReplayInv, UNCHANGED <<scene, decisions, shown>>, Kept(proposed, proposed'),
         phase' \notin {"look", "idle"}
  PROVE  EndInv'
<1>1. IsSeq(scene.sources)
  BY SourcesAreSheets
<1>2. (shown.decisions = Len(decisions) /\ ~shown.failed) =>
         Replayed(scene.sources, decisions, proposed', shown.run, shown.applied)
  BY <1>1, ReplayedKept DEF ReplayInv, EndInv, Sources
<1>3. QED
  BY <1>2 DEF EndInv, Sources

\* One file is mapped; if its answer is new it changes none of those before.
LEMMA MapStep ==
  ASSUME ShapedInv, ReplayInv, MapNext
  PROVE  ReplayInv'
<1> DEFINE source == scene.sources[next]
<1>0. scene \in Scenes /\ next \in Nat \ {0} /\ IsSeq(scene.sources)
  BY SourcesAreSheets DEF ShapedInv
<1>1. /\ phase = "map" /\ phase' = "map" /\ next' = next + 1 /\ next <= Len(scene.sources)
      /\ UNCHANGED <<scene, decisions, pass, applied, overrides, shown>>
  BY DEF MapNext, MapWith, Passed
<1>2. \/ /\ ~Used(overrides, source) /\ UNCHANGED <<run, proposed, failed>>
      \/ /\ Used(overrides, source) /\ source.name \in DOMAIN proposed
         /\ run' = MapFile(run, overrides, source, Votes(source, proposed[source.name]))
         /\ UNCHANGED <<proposed, failed>>
      \/ /\ Used(overrides, source) /\ source.name \notin DOMAIN proposed /\ failed' = failed
         /\ \E proposal : /\ proposed' = Put(proposed, source.name, proposal)
                          /\ run' = MapFile(run, overrides, source, Votes(source, proposal))
      \/ failed' = TRUE /\ proposed' = proposed
  BY DEF MapNext, MapWith, Recorded, Used
<1> HIDE DEF source
<1>3. Kept(proposed, proposed')
  BY <1>2 DEF Kept, Put
<1>4. EndInv'
  BY <1>0, <1>1, <1>3, ShownKept
<1>5. ASSUME ~failed' PROVE StageInv' /\ PassInv'
  <2>0. ~failed /\ StageInv /\ PassInv
    BY <1>2, <1>5 DEF ReplayInv
  <2>1. next \in 1..Len(scene.sources) /\ next - 1 \in 0..Len(scene.sources) /\ (next + 1) - 1 = next
    BY <1>0, <1>1, SeqIs
  <2>2. /\ Known(scene.sources, overrides, proposed, next - 1)
        /\ run = Mapped(scene.sources, overrides, proposed, next - 1)
    BY <1>1, <2>0 DEF StageInv, Sources
  <2>3. /\ Known(scene.sources, overrides, proposed', next - 1)
        /\ run = Mapped(scene.sources, overrides, proposed', next - 1)
    BY <1>0, <1>3, <2>1, <2>2, MappedKept
  <2>4. Mapped(scene.sources, overrides, proposed', next) = FileStep(overrides, proposed', run, source)
    BY <1>0, <2>1, <2>3, MappedSteps DEF source
  <2>5. /\ Used(overrides, source) => source.name \in DOMAIN proposed'
        /\ run' = FileStep(overrides, proposed', run, source)
    <3>1. CASE ~Used(overrides, source) /\ UNCHANGED <<run, proposed, failed>>
      BY <3>1 DEF FileStep
    <3>2. CASE /\ Used(overrides, source) /\ source.name \in DOMAIN proposed
               /\ run' = MapFile(run, overrides, source, Votes(source, proposed[source.name]))
               /\ UNCHANGED <<proposed, failed>>
      BY <3>2 DEF FileStep
    <3>3. CASE Used(overrides, source) /\ \E proposal :
                 /\ proposed' = Put(proposed, source.name, proposal)
                 /\ run' = MapFile(run, overrides, source, Votes(source, proposal))
      <4>1. PICK proposal : /\ proposed' = Put(proposed, source.name, proposal)
                            /\ run' = MapFile(run, overrides, source, Votes(source, proposal))
        BY <3>3
      <4>2. source.name \in DOMAIN proposed' /\ proposed'[source.name] = proposal
        BY <4>1 DEF Put
      <4>3. QED
        BY <3>3, <4>1, <4>2 DEF FileStep
    <3>4. QED
      BY <1>2, <1>5, <3>1, <3>2, <3>3
  <2>6. Known(scene.sources, overrides, proposed', next)
    BY <1>0, <2>1, <2>3, <2>5 DEF Known, source
  <2>7. StageInv'
    <3>1. next + 1 <= Len(scene.sources) + 1
      BY <2>1, SeqIs
    <3>2. QED
      BY <1>1, <2>1, <2>4, <2>5, <2>6, <3>1 DEF StageInv, Sources, Working
  <2>8. PassInv'
    <3>1. Loop' = Loop
      BY <1>1 DEF Loop
    <3>2. PICK t, k : Passes(scene.sources, decisions, proposed, t, k) /\ t[k] = Loop
      BY <1>1, <2>0 DEF PassInv, Sources, Working
    <3>3. Passes(scene.sources, decisions, proposed', t, k)
      BY <1>0, <1>3, <3>2, PassesKept
    <3>4. ASSUME pass = 0
          PROVE  /\ Answered(scene.sources, overrides, proposed')
                 /\ Finds(scene.sources, decisions, proposed', Loop) = {}
      <4>1. /\ Answered(scene.sources, Loop.overrides, proposed)
            /\ Finds(scene.sources, decisions, proposed, Loop) = {}
        BY <1>1, <2>0, <3>4 DEF PassInv, Sources, Working, Loop
      <4>2. /\ Answered(scene.sources, Loop.overrides, proposed')
            /\ Finds(scene.sources, decisions, proposed', Loop) = {}
        BY <1>0, <1>3, <4>1, WorkedKept, PassOnKept
      <4>3. QED
        BY <4>2 DEF Loop
    <3>5. QED
      BY <1>1, <3>1, <3>2, <3>3, <3>4 DEF PassInv, Sources
  <2>9. QED
    BY <2>7, <2>8
<1>6. QED
  BY <1>4, <1>5 DEF ReplayInv

\* The stages after mapping leave all but the run and the phase alone.
LEMMA StageStep ==
  ASSUME scene \in Scenes, ReplayInv, phase \in Working, phase' \in Working \ {"map"},
         UNCHANGED <<scene, decisions, pass, applied, overrides, shown, proposed, failed>>,
         ~failed /\ StageInv => StageInv'
  PROVE  ReplayInv'
<1>1. EndInv'
  <2>1. Kept(proposed, proposed')
    BY DEF Kept
  <2>2. phase' \notin {"look", "idle"}
    BY DEF Working
  <2>3. QED
    BY <2>1, <2>2, ShownKept
<1>2. ASSUME ~failed PROVE PassInv'
  <2>1. PassInv
    BY <1>2 DEF ReplayInv
  <2>2. Loop' = Loop
    BY DEF Loop
  <2>3. QED
    BY <2>1, <2>2 DEF PassInv, Sources
<1>3. QED
  BY <1>1, <1>2 DEF ReplayInv

\* The stages after mapping follow one another.
LEMMA StagesStep ==
  ASSUME ShapedInv, ReplayInv,
         AskUnmapped \/ BuildRecords \/ MergeRecords \/ CheckFormats \/ CheckRecords \/ SettleRecords
  PROVE  ReplayInv'
<1>0. scene \in Scenes /\ next \in Nat \ {0} /\ IsSeq(scene.sources)
  BY SourcesAreSheets DEF ShapedInv
<1>1. /\ UNCHANGED <<scene, decisions, pass, applied, overrides, shown, proposed, failed>>
      /\ phase \in Working /\ phase' \in Working \ {"map"}
  BY DEF AskUnmapped, BuildRecords, MergeRecords, CheckFormats, CheckRecords, SettleRecords,
         Stage, Passed, Working
<1>2. Read = ReadOf(scene.sources, overrides)
  BY DEF Read, ReadOf
<1>3. ASSUME StageInv PROVE StageInv'
  <2>1. CASE AskUnmapped
    <3>1. /\ phase = "map" /\ phase' = "build" /\ next > Len(scene.sources)
          /\ run' = UnmappedRequired(run, [i \in DOMAIN Read |-> Read[i].name])
      BY <2>1 DEF AskUnmapped, Stage
    <3>2. next - 1 = Len(scene.sources)
      <4>1. next <= Len(scene.sources) + 1 /\ Len(scene.sources) \in Nat
        BY <1>0, <1>3, <3>1, SeqIs DEF StageInv, Sources
      <4>2. QED
        BY <1>0, <3>1, <4>1
    <3>3. /\ Answered(scene.sources, overrides, proposed)
          /\ run = Mapped(scene.sources, overrides, proposed, Len(scene.sources))
      BY <1>3, <3>1, <3>2 DEF StageInv, Sources, Answered
    <3>4. run' = AfterAsking(scene.sources, overrides, proposed)
      BY <1>2, <3>1, <3>3 DEF AfterAsking
    <3>5. QED
      BY <1>1, <3>1, <3>3, <3>4 DEF StageInv, Sources, Working
  <2>2. CASE BuildRecords
    BY <1>1, <1>2, <1>3, <2>2 DEF BuildRecords, Stage, StageInv, Sources, Working, AfterBuilding
  <2>3. CASE MergeRecords
    BY <1>1, <1>3, <2>3 DEF MergeRecords, Stage, StageInv, Sources, Working, AfterMerging
  <2>4. CASE CheckFormats
    BY <1>1, <1>3, <2>4 DEF CheckFormats, Stage, StageInv, Sources, Working, AfterDates
  <2>5. CASE CheckRecords
    BY <1>1, <1>3, <2>5 DEF CheckRecords, Stage, StageInv, Sources, Working, AfterChecking
  <2>6. CASE SettleRecords
    BY <1>1, <1>3, <2>6 DEF SettleRecords, Stage, StageInv, Sources, Working, Worked
  <2>7. QED
    BY <2>1, <2>2, <2>3, <2>4, <2>5, <2>6
<1>4. QED
  BY <1>0, <1>1, <1>3, StageStep

\* A pass is handed on, or is the last.
LEMMA MatchStep ==
  ASSUME ShapedInv, LoopInv, ReplayInv, MatchDecisions
  PROVE  ReplayInv'
<1>1. PICK p : RunAgain(p)
  BY DEF MatchDecisions
<1>2. /\ UNCHANGED <<scene, decisions, shown, proposed, failed>> /\ phase = "match" /\ phase' = "map"
      /\ run' = NewRun /\ next' = 1
  BY <1>1 DEF MatchDecisions, RunAgain
<1>3. scene \in Scenes
  BY DEF ShapedInv
<1>4. StageInv'
  BY <1>2, <1>3, BeginsAnew
<1>5. EndInv'
  <2>1. Kept(proposed, proposed')
    BY <1>2 DEF Kept
  <2>2. QED
    BY <1>2, <1>3, <2>1, ShownKept
<1>6. ASSUME ~failed' PROVE PassInv'
  <2>1. StageInv /\ PassInv
    BY <1>2, <1>6 DEF ReplayInv
  <2>2. run = Worked(scene.sources, overrides, proposed) /\ Answered(scene.sources, overrides, proposed)
    BY <1>2, <2>1 DEF StageInv, Sources, Working
  <2>3. Loop' = PassOn(scene.sources, decisions, proposed, Loop)
    BY <1>1, <2>2, RunAgainPassesOn
  <2>4. PICK t, k : Passes(scene.sources, decisions, proposed, t, k) /\ t[k] = Loop
    BY <1>2, <2>1 DEF PassInv, Sources, Working
  <2>5. Loop.overrides = overrides /\ Loop = [overrides |-> Loop.overrides, applied |-> Loop.applied]
    BY DEF Loop
  <2>6. CASE pass' = 0
    <3>1. Answerable = {}
      BY <2>6, LastPassIsEarned
    <3>2. Finds(scene.sources, decisions, proposed, Loop) = {}
      BY <2>2, <3>1, AnswerableIsFound
    <3>3. Loop' = Loop
      BY <2>3, <2>5, <3>2, NothingFound
    <3>4. overrides' = overrides
      BY <2>5, <3>3 DEF Loop
    <3>5. QED
      BY <1>2, <2>2, <2>4, <3>2, <3>3, <3>4 DEF PassInv, Sources
  <2>7. CASE pass' # 0
    <3>1. PICK u : /\ Passes(scene.sources, decisions, proposed, u, k + 1)
                   /\ u[k + 1] = PassOn(scene.sources, decisions, proposed, t[k])
      BY <2>2, <2>4, <2>5, PassesGoOn
    <3>2. QED
      BY <1>2, <2>3, <2>4, <2>7, <3>1 DEF PassInv, Sources
  <2>8. QED
    BY <2>6, <2>7
<1>7. QED
  BY <1>4, <1>5, <1>6 DEF ReplayInv

\* A replay ends with the last pass.
LEMMA MarkStep ==
  ASSUME ShapedInv, ShapedInv', ReplayInv, Mark
  PROVE  ReplayInv'
<1>1. /\ UNCHANGED <<scene, decisions, shown, proposed, failed, overrides, applied>>
      /\ phase = "match" /\ phase' = "look" /\ pass = 0
      /\ run' = [run EXCEPT !.cases = Marked(run.cases)]
  BY DEF Mark
<1>2. Shaped(run) /\ Shaped(run')
  BY DEF ShapedInv
<1>3. ASSUME ~failed PROVE Replayed(scene.sources, decisions, proposed, run', applied)
  <2>1. StageInv /\ PassInv
    BY <1>3 DEF ReplayInv
  <2>2. run = Worked(scene.sources, overrides, proposed)
    BY <1>1, <2>1 DEF StageInv, Sources
  <2>3. PICK t, k : Passes(scene.sources, decisions, proposed, t, k) /\ t[k] = Loop
    BY <1>1, <2>1 DEF PassInv, Sources, Working
  <2>4. Answered(scene.sources, overrides, proposed) /\ Finds(scene.sources, decisions, proposed, Loop) = {}
    BY <1>1, <2>1 DEF PassInv, Sources, Working
  <2>5. t[k].overrides = overrides /\ t[k].applied = applied
    BY <2>3 DEF Loop
  <2>6. Ends(scene.sources, decisions, proposed, t, k)
    BY <2>3, <2>4, <2>5 DEF Ends
  <2>7. Marked(run.cases) = Closed(decisions, run.cases)
    BY DEF Marked, Closed
  <2>8. Outcome(run') = Outcome([run EXCEPT !.cases = Closed(decisions, run.cases)])
    BY <1>1, <2>7
  <2>9. QED
    BY <1>2, <2>2, <2>5, <2>6, <2>8 DEF Replayed
<1>4. StageInv' /\ PassInv'
  BY <1>1 DEF StageInv, PassInv, Working
<1>5. EndInv'
  BY <1>1, <1>3 DEF ReplayInv, EndInv, Sources
<1>6. QED
  BY <1>4, <1>5 DEF ReplayInv

\* A finding leaves the end of the replay.
LEMMA LookStep ==
  ASSUME ShapedInv, ShapedInv', ReplayInv, Recall \/ Conclude
  PROVE  ReplayInv'
<1>1. /\ UNCHANGED <<scene, decisions, phase, overrides, applied, proposed, shown, failed>>
      /\ phase = "look" /\ \E finding : run' = Looked(run.cases[Queue[next]], finding)
  BY DEF Recall, Conclude, Rest, Asking, Looking
<1>2. Shaped(run) /\ Shaped(run')
  BY DEF ShapedInv
<1>3. Outcome(run') = Outcome(run)
  BY <1>1, <1>2, LookedChanges
<1>4. ASSUME ~failed PROVE Replayed(scene.sources, decisions, proposed, run', applied)
  <2>1. Replayed(scene.sources, decisions, proposed, run, applied)
    BY <1>1, <1>4 DEF ReplayInv, EndInv, Sources
  <2>2. QED
    BY <1>2, <1>3, <2>1 DEF Replayed
<1>5. StageInv' /\ PassInv'
  BY <1>1 DEF StageInv, PassInv, Working
<1>6. EndInv'
  BY <1>1, <1>4 DEF ReplayInv, EndInv, Sources
<1>7. QED
  BY <1>5, <1>6 DEF ReplayInv

\* Nothing else moves a replay that did not fail.
LEMMA RestStep ==
  ASSUME ReplayInv, Turn \/ GiveUp \/ Finish \/ UNCHANGED vars
  PROVE  ReplayInv'
<1>1. CASE Turn
  <2>1. phase = "look" /\ UNCHANGED <<scene, decisions, phase, applied, proposed, shown, failed, run>>
    BY <1>1 DEF Turn, Asking, Looking, Rest
  <2>2. QED
    BY <2>1 DEF ReplayInv, StageInv, PassInv, EndInv, Working, Sources
<1>2. CASE GiveUp
  <2>1. phase = "look" /\ failed' = TRUE /\ UNCHANGED <<scene, decisions, phase, proposed, shown>>
    BY <1>2 DEF GiveUp, Asking, Looking, Rest
  <2>2. QED
    BY <2>1 DEF ReplayInv, EndInv, Sources
<1>3. CASE Finish
  <2>1. /\ phase = "look" /\ phase' = "idle" /\ UNCHANGED <<scene, decisions, proposed, failed, run, applied>>
        /\ shown' = [run |-> run, decisions |-> Len(decisions), failed |-> failed, applied |-> applied]
    BY <1>3 DEF Finish
  <2>2. StageInv' /\ PassInv'
    BY <2>1 DEF StageInv, PassInv, Working
  <2>3. EndInv'
    BY <2>1 DEF ReplayInv, EndInv, Sources
  <2>4. QED
    BY <2>2, <2>3 DEF ReplayInv
<1>4. CASE UNCHANGED vars
  <2>1. Loop' = Loop
    BY <1>4 DEF Loop, vars
  <2>2. UNCHANGED <<scene, decisions, phase, next, pass, run, overrides, applied, proposed, shown, failed>>
    BY <1>4 DEF vars
  <2>3. QED
    BY <2>1, <2>2 DEF ReplayInv, StageInv, PassInv, EndInv, Sources
<1>5. QED
  BY <1>1, <1>2, <1>3, <1>4

\* Whatever is on its way or shown is what the decisions and the recorded
\* answers make of the sources, and nothing else (replay, runtime.py).
THEOREM ReplayAlwaysFollows == Spec => []ReplayInv
<1>1. ASSUME ShapedInv, ShapedInv', LoopInv, ReplayInv, [Next]_vars PROVE ReplayInv'
  <2>1. scene \in Scenes
    BY <1>1 DEF ShapedInv
  <2>2. QED
    BY <1>1, <2>1, OpenStep, DecisionStep, MapStep, StagesStep, MatchStep, MarkStep, LookStep, RestStep
       DEF Next
<1>2. QED
  BY <1>1, ReplayInit, RunAlwaysShaped, PassesAreEarned, PTL DEF Spec

\* No decision whose question is there was passed over.
THEOREM NoDecisionIsLeftBehind == Spec => []NoDecisionLeftBehind
<1>1. ASSUME ShapedInv, LoopInv, ReplayInv PROVE NoDecisionLeftBehind
  <2> SUFFICES ASSUME phase = "idle", ~shown.failed, NEW d \in 1..shown.decisions,
                      decisions[d].key \in Keys(shown.run.cases)
               PROVE  d \in shown.applied
    BY DEF NoDecisionLeftBehind, Settled, Result
  <2>1. shown.decisions = Len(decisions)
    BY <1>1 DEF ReplayInv, EndInv
  <2>2. Replayed(scene.sources, decisions, proposed, shown.run, shown.applied)
    BY <1>1, <2>1 DEF ReplayInv, EndInv, Sources
  <2>3. PICK t, k :
          LET worked == Worked(scene.sources, t[k].overrides, proposed)
          IN  /\ Ends(scene.sources, decisions, proposed, t, k)
              /\ shown.applied = t[k].applied
              /\ Shaped(worked) /\ Shaped(shown.run)
              /\ Outcome(shown.run) = Outcome([worked EXCEPT !.cases = Closed(decisions, worked.cases)])
    BY <2>2 DEF Replayed
  <2> DEFINE worked == Worked(scene.sources, t[k].overrides, proposed)
  <2>4. Keys(shown.run.cases) = Keys(worked.cases)
    BY <2>3, SameKeys
  <2>5. d \in DOMAIN decisions
    <3>1. IsSeq(decisions)
      BY <1>1 DEF LoopInv, IsSeq
    <3>2. QED
      BY <2>1, <3>1, SeqIs
  <2>6. Finds(scene.sources, decisions, proposed, t[k]) = {}
    BY <2>3 DEF Ends
  <2>7. QED
    BY <2>3, <2>4, <2>5, <2>6 DEF Finds
<1>2. QED
  BY <1>1, ReplayAlwaysFollows, RunAlwaysShaped, PassesAreEarned, PTL

\* The same decisions give the same result.
THEOREM AlwaysStable == Spec => StableAcrossReplays
<1> DEFINE Stable == (/\ shown' # shown
                      /\ shown.decisions = shown'.decisions
                      /\ ~shown.failed /\ ~shown'.failed)
                       => /\ Outcome(shown'.run) = Outcome(shown.run)
                          /\ shown'.applied = shown.applied
<1>1. ASSUME ReplayInv, ReplayInv', [Next]_vars PROVE [Stable]_vars
  <2> SUFFICES ASSUME Next, shown' # shown, shown.decisions = shown'.decisions, ~shown.failed, ~shown'.failed
               PROVE  /\ Outcome(shown'.run) = Outcome(shown.run)
                      /\ shown'.applied = shown.applied
    BY <1>1
  <2>1. Finish
    <3>1. ~(Open \/ Decide \/ MapNext \/ AskUnmapped \/ BuildRecords \/ MergeRecords \/ CheckFormats
             \/ CheckRecords \/ SettleRecords \/ MatchDecisions \/ Mark)
      BY DEF Open, Decide, MapNext, MapWith, AskUnmapped, BuildRecords, MergeRecords, CheckFormats,
             CheckRecords, SettleRecords, MatchDecisions, RunAgain, Mark, Stage, Passed
    <3>2. ~(Recall \/ Turn \/ Conclude \/ GiveUp)
      BY DEF Recall, Turn, Conclude, GiveUp, Rest
    <3>3. QED
      BY <3>1, <3>2 DEF Next
  <2>2. /\ UNCHANGED <<scene, decisions, proposed>> /\ phase' = "idle"
        /\ shown' = [run |-> run, decisions |-> Len(decisions), failed |-> failed, applied |-> applied]
    BY <2>1 DEF Finish
  <2>3. shown.decisions = Len(decisions) /\ shown'.decisions = Len(decisions)
    BY <2>2
  <2>4. Replayed(scene.sources, decisions, proposed, shown.run, shown.applied)
    BY <1>1, <2>3 DEF ReplayInv, EndInv, Sources
  <2>5. Replayed(scene.sources, decisions, proposed, shown'.run, shown'.applied)
    BY <1>1, <2>2, <2>3 DEF ReplayInv, EndInv, Sources
  <2>6. QED
    BY <2>4, <2>5, ReplayedAlike
<1>2. QED
  BY <1>1, ReplayAlwaysFollows, PTL DEF Spec, StableAcrossReplays

(************************ the evidence for a column ************************)

\* The columns of a replay are placed on evidence or by an answer, what was
\* recorded is what was said, and what is shown is what was worked out.
EvidenceInv ==
  /\ Placed(overrides, Range(scene.sources), run)
  /\ \A file \in Range(scene.sources) :
       file.name \in DOMAIN proposed => proposed[file.name] \in scene.proposals[file.name]
  /\ phase = "idle" => shown.run = run

\* Nothing is placed before anything is mapped.
LEMMA NothingPlaced ==
  ASSUME NEW o, NEW files
  PROVE  Placed(o, files, NewRun)
<1>1. NewRun.mappings = <<>> /\ DOMAIN NewRun.applied = {}
  BY DEF NewRun, NoFunction
<1>2. IsSeq(<<>>) /\ DOMAIN <<>> = {}
  BY SeqEmpty
<1>3. QED
  BY <1>1, <1>2, NewRunShaped DEF Placed

\* The lesser of a share and what is left of the whole is a share.
LEMMA LesserShare == \A N \in Nat : \A c \in 0..N : Min({c, N - c}) \in 0..N
<1> SUFFICES ASSUME NEW N \in Nat, NEW c \in 0..N PROVE Min({c, N - c}) \in 0..N
  OBVIOUS
<1> DEFINE two == {c, N - c}
<1>1. two \in SUBSET (0..N) /\ two # {}
  OBVIOUS
<1>2. IsFiniteSet(two)
  <2>1. IsFiniteSet({} \cup {c})
    BY FS_EmptySet, FS_AddElement
  <2>2. IsFiniteSet(({} \cup {c}) \cup {N - c})
    BY <2>1, FS_AddElement
  <2>3. two = ({} \cup {c}) \cup {N - c}
    OBVIOUS
  <2>4. QED
    BY <2>2, <2>3
<1> HIDE DEF two
<1>3. two \subseteq Int
  BY <1>1
<1>4. Min(two) \in two
  BY <1>1, <1>2, <1>3, LeastAndGreatest
<1>5. Min(two) \in 0..N
  BY <1>1, <1>4
<1>6. QED
  BY <1>5 DEF two

\* Likeness and confidence are shares.
LEMMA SceneIsWeighable ==
  \A s \in Scenes : \A file \in Range(s.sources) :
    /\ Sheet(file)
    /\ \A h \in Range(file.headers), f \in FieldNames : NameSim(h, f) \in Nat
    /\ \A said \in s.proposals[file.name] : \A h \in DOMAIN said : said[h].confidence \in Shares
<1>1. \A s \in Scenes : \A file \in Range(s.sources) :
        /\ \A header \in Range(file.headers), f \in FieldNames : NameSim(header, f) \in Shares
        /\ \A said \in s.proposals[file.name] : \A header \in DOMAIN said : said[header].confidence \in Shares
  BY ScenesAssumption
<1>2. \A s \in Scenes : \A file \in Range(s.sources) : Sheet(file)
  BY SourcesAreSheets DEF Range
<1>3. \A x \in Shares : x \in Nat
  BY WholeIsNat DEF Shares
<1>4. QED
  BY <1>1, <1>2, <1>3

\* Votes are shares when what is said comes with shares.
LEMMA VotesInScale ==
  ASSUME NEW file, NEW said, \A h \in DOMAIN said : said[h].confidence \in Shares
  PROVE  \A h \in DOMAIN Votes(file, said) : \A f \in DOMAIN Votes(file, said)[h] :
           Votes(file, said)[h][f] \in Shares
<1> DEFINE votes == Votes(file, said)
<1> SUFFICES ASSUME NEW h \in DOMAIN votes, NEW f \in DOMAIN votes[h]
             PROVE  votes[h][f] \in Shares
  OBVIOUS
<1> DEFINE c == said[h].confidence
<1>1. h \in DOMAIN said
  BY DEF Votes
<1>2. votes[h][f] = c \/ votes[h][f] = Min({c, Whole - c})
  BY DEF Votes
<1>3. c \in Shares
  BY <1>1
<1> HIDE DEF votes, c
<1>4. Min({c, Whole - c}) \in Shares
  BY <1>3, LesserShare, WholeIsNat DEF Shares
<1>5. QED
  BY <1>2, <1>3, <1>4

\* What is said of a file votes for its columns; no answer at all is no vote.
LEMMA VotesAreShares ==
  ASSUME NEW s \in Scenes, NEW file \in Range(s.sources), NEW said \in s.proposals[file.name]
  PROVE  Weighable(file, Votes(file, said))
<1>1. \A h \in DOMAIN said : said[h].confidence \in Shares
  BY SceneIsWeighable, Zenon
<1>2. \A h \in DOMAIN Votes(file, said) : \A f \in DOMAIN Votes(file, said)[h] :
        Votes(file, said)[h][f] \in Shares
  BY <1>1, VotesInScale, Zenon
<1>3. Sheet(file) /\ \A h \in Range(file.headers), f \in FieldNames : NameSim(h, f) \in Nat
  BY SceneIsWeighable, Zenon
<1>4. QED
  BY <1>2, <1>3, Zenon DEF Weighable

\* No answer at all votes for nothing.
LEMMA SilenceIsShares ==
  ASSUME NEW s \in Scenes, NEW file \in Range(s.sources)
  PROVE  Weighable(file, NoFunction)
<1>1. DOMAIN NoFunction = {}
  BY DEF NoFunction
<1>2. Sheet(file) /\ \A h \in Range(file.headers), f \in FieldNames : NameSim(h, f) \in Nat
  BY SceneIsWeighable, Zenon
<1>3. QED
  BY <1>1, <1>2 DEF Weighable

\* Files have names of their own.
LEMMA NamesDiffer ==
  ASSUME NEW S \in Scenes
  PROVE  \A s, t \in Range(S.sources) : s.name = t.name => s = t
<1>1. \A i, j \in DOMAIN S.sources : S.sources[i].name = S.sources[j].name => i = j
  BY ScenesAssumption
<1>2. QED
  BY <1>1 DEF Range

\* There is no evidence to begin with and nothing that needs any,
LEMMA EvidenceInit == Init => EvidenceInv
<1> SUFFICES ASSUME Init PROVE EvidenceInv
  OBVIOUS
<1>1. run = NewRun /\ proposed = NoFunction /\ phase = "start"
  BY DEF Init
<1>2. QED
  BY <1>1, NothingPlaced DEF EvidenceInv, NoFunction

\* and every step keeps it.
LEMMA EvidenceStep == ShapedInv /\ EvidenceInv /\ [Next]_vars => EvidenceInv'
<1> SUFFICES ASSUME ShapedInv, EvidenceInv, [Next]_vars PROVE EvidenceInv'
  OBVIOUS
<1> DEFINE files == Range(scene.sources)
           Said(table) == \A file \in files :
             file.name \in DOMAIN table => table[file.name] \in scene.proposals[file.name]
<1>0. /\ scene \in Scenes /\ next \in Nat \ {0} /\ Shaped(run)
      /\ Placed(overrides, files, run) /\ Said(proposed) /\ (phase = "idle" => shown.run = run)
  BY DEF ShapedInv, EvidenceInv
<1>1. CASE Open \/ Decide \/ MatchDecisions
  <2>1. run' = NewRun /\ scene' = scene /\ proposed' = proposed /\ phase' = "map"
    BY <1>1 DEF Open, Decide, MatchDecisions, Begin, RunAgain
  <2>2. QED
    BY <1>0, <2>1, NothingPlaced DEF EvidenceInv
<1>2. CASE MapNext
  <2> DEFINE source == scene.sources[next]
  <2>1. /\ next <= Len(scene.sources) /\ phase = "map" /\ phase' = phase
        /\ scene' = scene /\ overrides' = overrides
        /\ \/ run' = run /\ proposed' = proposed
           \/ /\ source.name \in DOMAIN proposed /\ proposed' = proposed
              /\ run' = MapFile(run, overrides, source, Votes(source, proposed[source.name]))
           \/ \E said \in scene.proposals[source.name] :
                /\ proposed' = Put(proposed, source.name, said)
                /\ run' = MapFile(run, overrides, source, Votes(source, said))
           \/ proposed' = proposed /\ run' = MapFile(run, overrides, source, NoFunction)
    <3>1. /\ next <= Len(scene.sources) /\ phase = "map" /\ phase' = phase
          /\ \/ UNCHANGED <<run, proposed>> /\ Passed
             \/ source.name \in DOMAIN proposed /\ MapWith(source, Votes(source, proposed[source.name]))
                  /\ proposed' = proposed
             \/ \E said \in scene.proposals[source.name] :
                  proposed' = Recorded(source.name, said) /\ MapWith(source, Votes(source, said))
             \/ MapWith(source, NoFunction) /\ proposed' = proposed
      BY <1>2 DEF MapNext
    <3>2. \A votes : MapWith(source, votes) => run' = MapFile(run, overrides, source, votes) /\ Passed
      BY DEF MapWith
    <3>3. Passed => scene' = scene /\ overrides' = overrides
      BY DEF Passed
    <3>4. \A said : Recorded(source.name, said) = Put(proposed, source.name, said)
      BY DEF Recorded
    <3> HIDE DEF source
    <3>5. QED
      BY <3>1, <3>2, <3>3, <3>4
  <2>2. source \in files
    <3>1. IsSeq(scene.sources)
      BY <1>0, SourcesAreSheets
    <3>2. next \in DOMAIN scene.sources
      BY <1>0, <2>1, <3>1, SeqIs
    <3>3. QED
      BY <3>2 DEF Range
  <2> HIDE DEF source
  <2>3. Said(proposed')
    <3>1. \A said : \A x : x \in DOMAIN Put(proposed, source.name, said) =>
            IF x = source.name THEN Put(proposed, source.name, said)[x] = said
            ELSE x \in DOMAIN proposed /\ Put(proposed, source.name, said)[x] = proposed[x]
      BY DEF Put
    <3>2. QED
      BY <1>0, <2>1, <3>1
  <2>4. Placed(overrides, files, run')
    <3>1. \A said \in scene.proposals[source.name] :
            Placed(overrides, files, MapFile(run, overrides, source, Votes(source, said)))
      BY <1>0, <2>2, VotesAreShares, MapFilePlaced
    <3>2. Placed(overrides, files, MapFile(run, overrides, source, NoFunction))
      BY <1>0, <2>2, SilenceIsShares, MapFilePlaced
    <3>3. source.name \in DOMAIN proposed => proposed[source.name] \in scene.proposals[source.name]
      BY <1>0, <2>2
    <3>4. QED
      BY <1>0, <2>1, <3>1, <3>2, <3>3
  <2>5. QED
    BY <2>1, <2>3, <2>4 DEF EvidenceInv
<1>3. CASE Later
  <2>1. Formed(run, run')
    BY <1>0, <1>3, LaterForms
  <2>2. Placed(overrides, files, run')
    BY <1>0, <2>1 DEF Placed, Formed
  <2>3. UNCHANGED <<scene, overrides, proposed>> /\ (phase' = "idle" => shown'.run = run')
    <3>1. CASE AskUnmapped \/ BuildRecords \/ MergeRecords \/ CheckFormats \/ CheckRecords \/ SettleRecords
      BY <3>1 DEF AskUnmapped, BuildRecords, MergeRecords, CheckFormats, CheckRecords, SettleRecords,
                  Stage, Passed
    <3>2. CASE Mark
      BY <3>2 DEF Mark
    <3>3. CASE Recall \/ Turn \/ Conclude \/ GiveUp
      BY <3>3 DEF Recall, Turn, Conclude, GiveUp, Asking, Looking, Rest
    <3>4. CASE Finish
      BY <3>4 DEF Finish
    <3>5. CASE UNCHANGED vars
      BY <1>0, <3>5 DEF vars
    <3>6. QED
      BY <1>3, <3>1, <3>2, <3>3, <3>4, <3>5 DEF Later
  <2>4. QED
    BY <1>0, <2>2, <2>3 DEF EvidenceInv
<1>4. QED
  BY <1>1, <1>2, <1>3 DEF Next, Later

\* The model alone never places a column: whatever the files, the votes and
\* the answers, a column nobody answered for has a third of the measured
\* evidence for its field and breaks none of its vetoes (Evidence.score, decide).
THEOREM ColumnsNeedEvidence == Spec => []VoteNeedsEvidence
<1>1. ASSUME ShapedInv, EvidenceInv, phase = "idle", NEW i \in DOMAIN shown.run.mappings,
             shown.run.mappings[i].decision = "auto_apply",
             <<shown.run.mappings[i].file, shown.run.mappings[i].column>> \notin DOMAIN overrides.columnMap
      PROVE  Proven(ProfileFor(shown.run.mappings[i]), shown.run.mappings[i].field)
  <2> DEFINE mapping == shown.run.mappings[i]
  <2>1. shown.run = run /\ scene \in Scenes /\ Placed(overrides, Range(scene.sources), run)
    BY <1>1 DEF ShapedInv, EvidenceInv
  <2>2. PICK source \in Range(scene.sources) : Supported(overrides, source, mapping)
    BY <1>1, <2>1 DEF Placed
  <2>3. mapping.decision = "auto_apply" /\ <<mapping.file, mapping.column>> \notin DOMAIN overrides.columnMap
    BY <1>1
  <2> HIDE DEF mapping
  <2>4. \A s, t \in Range(scene.sources) : s.name = t.name => s = t
    BY <2>1, NamesDiffer
  <2>5. source.name = mapping.file /\ Proven(ProfileOf(source, mapping.column), mapping.field)
    BY <2>2, <2>3 DEF Supported
  <2> DEFINE chosen == CHOOSE s \in Range(scene.sources) : s.name = mapping.file
  <2>6. chosen = source
    BY <2>4, <2>5
  <2>7. ProfileFor(mapping) = ProfileOf(source, mapping.column)
    <3>1. ProfileFor(mapping) =
            ProfileColumn(mapping.column, [j \in DOMAIN chosen.rows |-> chosen.rows[j].cells[mapping.column]])
      BY DEF ProfileFor
    <3> HIDE DEF chosen
    <3>2. QED
      BY <2>6, <3>1 DEF ProfileOf
  <2>8. QED
    BY <2>5, <2>7 DEF mapping
<1>2. ASSUME ShapedInv, EvidenceInv PROVE VoteNeedsEvidence
  BY <1>1, <1>2 DEF VoteNeedsEvidence, Settled, Result, Proven
<1>3. QED
  BY <1>2, EvidenceInit, EvidenceStep, RunAlwaysShaped, PTL DEF Spec

(************************ what the records wait for ************************)

\* The rows of a run.
RowsOfScene(s) == UNION {RowIds(file) : file \in Range(s.sources)}

\* Every row has an id of its own, and the ids sort apart; so do the columns.
LEMMA SceneIsApart ==
  ASSUME NEW s \in Scenes
  PROVE  /\ SortApart(RowsOfScene(s))
         /\ \A f, g \in Range(s.sources) : \A i \in DOMAIN f.rows, j \in DOMAIN g.rows :
              f.rows[i].id = g.rows[j].id => f = g /\ i = j
         /\ \A f, g \in Range(s.sources) : \A a \in Range(f.headers), b \in Range(g.headers) :
              Place(a) \in Int /\ (Place(a) = Place(b) => a = b)
<1> DEFINE files == Range(s.sources)
           rows(file) == {<<file.name, i, file.rows[i].id>> : i \in DOMAIN file.rows}
           all == UNION {rows(file) : file \in files}
           texts == {row[3] : row \in all} \cup UNION {Range(file.headers) : file \in files}
<1>1. \A r1, r2 \in all : r1[3] = r2[3] => r1 = r2
  BY ScenesAssumption
<1>2. \A a, b \in texts : Place(a) \in Int /\ (Place(a) = Place(b) => a = b)
  BY ScenesAssumption
<1>3. \A f \in files : \A i \in DOMAIN f.rows : <<f.name, i, f.rows[i].id>> \in all
  OBVIOUS
<1>4. \A f \in files : \A i \in DOMAIN f.rows : f.rows[i].id \in texts
  <2>1. \A f, i : <<f.name, i, f.rows[i].id>>[3] = f.rows[i].id
    OBVIOUS
  <2> HIDE DEF all
  <2>2. \A row \in all : row[3] \in texts
    OBVIOUS
  <2> HIDE DEF texts
  <2>3. QED
    BY <1>3, <2>1, <2>2
<1>5. \A f \in files : \A a \in Range(f.headers) : a \in texts
  OBVIOUS
<1> HIDE DEF texts
<1>6. ASSUME NEW f \in files, NEW g \in files, NEW i \in DOMAIN f.rows, NEW j \in DOMAIN g.rows,
             f.rows[i].id = g.rows[j].id
      PROVE  f = g /\ i = j
  <2> DEFINE r1 == <<f.name, i, f.rows[i].id>>
             r2 == <<g.name, j, g.rows[j].id>>
  <2>1. r1 \in all /\ r2 \in all
    BY <1>3
  <2> HIDE DEF all
  <2>2. r1 = r2
    BY <1>1, <1>6, <2>1
  <2>3. f.name = g.name /\ i = j
    BY <2>2
  <2>4. QED
    BY <2>3, NamesDiffer
<1> HIDE DEF all
<1>7. SortApart(RowsOfScene(s))
  <2>1. \A a \in RowsOfScene(s) : a \in texts
    BY <1>4 DEF RowsOfScene, RowIds
  <2>2. QED
    BY <1>2, <2>1 DEF SortApart
<1>8. \A f, g \in files : \A a \in Range(f.headers), b \in Range(g.headers) :
        Place(a) \in Int /\ (Place(a) = Place(b) => a = b)
  BY <1>2, <1>5
<1>9. QED
  BY <1>6, <1>7, <1>8

\* The columns of a run sort apart.
LEMMA PlacedColumns ==
  ASSUME scene \in Scenes, Placed(overrides, Range(scene.sources), run)
  PROVE  Columns(run)
<1> DEFINE files == Range(scene.sources)
<1>1. /\ IsFiniteSet(DOMAIN run.applied)
      /\ \A at \in DOMAIN run.applied :
           /\ run.applied[at] \in FieldNames
           /\ \E source \in files : \E header \in Range(source.headers) : at = <<source.name, header>>
  BY DEF Placed, Shaped
<1>2. \A f, g \in files : \A a \in Range(f.headers), b \in Range(g.headers) :
        Place(a) \in Int /\ (Place(a) = Place(b) => a = b)
  BY SceneIsApart
<1> HIDE DEF files
<1>3. \A at \in DOMAIN run.applied : at = <<at[1], at[2]>> /\ \E f \in files : at[2] \in Range(f.headers)
  BY <1>1
<1>4. \A at \in DOMAIN run.applied : Place(at[2]) \in Int
  BY <1>2, <1>3
<1>5. \A a, b \in DOMAIN run.applied : Place(a[2]) = Place(b[2]) => a[2] = b[2]
  BY <1>2, <1>3
<1>6. QED
  BY <1>1, <1>3, <1>4, <1>5 DEF Columns

\* The files that are read have rows of their own.
LEMMA ReadIsApart ==
  ASSUME scene \in Scenes
  PROVE  /\ IsSeq(Read) /\ \A i \in DOMAIN Read : RowsApart(Read[i])
         /\ \A i, j \in DOMAIN Read : RowIds(Read[i]) \cap RowIds(Read[j]) # {} => i = j
         /\ UNION {RowIds(Read[i]) : i \in DOMAIN Read} \subseteq RowsOfScene(scene)
<1> DEFINE sources == scene.sources
           kept == {s \in Range(sources) : s.name \notin overrides.ignored}
<1>1. IsSeq(sources) /\ \A i, j \in DOMAIN sources : sources[i] = sources[j] => i = j
  BY SourcesAreSheets, ScenesAssumption
<1>2. Read = Those(sources, kept)
  BY DEF Read
<1>3. \A s \in kept : s \in Range(sources)
  OBVIOUS
<1> HIDE DEF kept, sources
<1>4. /\ IsSeq(Read) /\ \A i, j \in DOMAIN Read : Read[i] = Read[j] => i = j
      /\ \A x : (\E i \in DOMAIN Read : Read[i] = x) <=> x \in kept /\ \E i \in DOMAIN sources : sources[i] = x
  BY <1>1, <1>2, ThoseOnce
<1>5. \A i \in DOMAIN Read : Read[i] \in Range(sources)
  BY <1>3, <1>4
<1>6. \A f, g \in Range(sources) : \A i \in DOMAIN f.rows, j \in DOMAIN g.rows :
        f.rows[i].id = g.rows[j].id => f = g /\ i = j
  BY SceneIsApart DEF sources
<1>7. \A i \in DOMAIN Read : RowsApart(Read[i])
  BY <1>5, <1>6, ReadIsSheets DEF RowsApart
<1>8. \A i, j \in DOMAIN Read : RowIds(Read[i]) \cap RowIds(Read[j]) # {} => Read[i] = Read[j]
  BY <1>5, <1>6 DEF RowIds
<1>9. UNION {RowIds(Read[i]) : i \in DOMAIN Read} \subseteq RowsOfScene(scene)
  BY <1>5 DEF RowsOfScene, sources
<1>10. QED
  BY <1>4, <1>7, <1>8, <1>9

\* What a run is when all its records have their states.
Ended(r) == Final(r) /\ (Len(SelfReferences) <= 1 => Chained(r))

\* How far the records have come in each stage.
HeldInv ==
  /\ ListsConstants(overrides)
  /\ phase \in {"start", "map", "build", "reconcile", "check", "validate", "finalise", "match", "look", "idle"}
  /\ phase \in {"start", "map", "build"} => Unbuilt(run)
  /\ phase = "reconcile" => /\ Sound(run) /\ DOMAIN run.mergedInto = {}
                            /\ Ids(run) \subseteq RowsOfScene(scene)
  /\ phase \in {"check", "validate"} => Sound(run)
  /\ phase = "finalise" => Checked(run)
  /\ phase \in {"match", "look", "idle"} => Ended(run)

\* Nothing has come of anything yet.
LEMMA HeldInit == Init => HeldInv
BY NothingListed, NewRunUnbuilt DEF Init, HeldInv

\* Marking the answered questions holds nobody else.
LEMMA MarkedEnded ==
  ASSUME Ended(run)
  PROVE  LET after == [run EXCEPT !.cases = Marked(run.cases)]
         IN  Ended(after) /\ Carries(run, after)
<1> DEFINE cases == Marked(run.cases)
           after == [run EXCEPT !.cases = cases]
<1>1. \A n \in DOMAIN run.cases : DOMAIN run.cases[n] = DOMAIN NoCase
  BY DEF Ended, Final, Shaped, Asked
<1>2. \A n \in DOMAIN run.cases : \E v : cases[n] = [run.cases[n] EXCEPT !.resolved = v]
  BY DEF Marked
<1>3. cases = [n \in DOMAIN run.cases |-> cases[n]]
  BY DEF Marked
<1> HIDE DEF cases
<1>4. \A n \in DOMAIN run.cases : /\ DOMAIN cases[n] = DOMAIN run.cases[n]
                                  /\ cases[n].blocks = run.cases[n].blocks
                                  /\ cases[n].children = run.cases[n].children
  BY <1>1, <1>2 DEF NoCase
<1>5. Final(after) /\ after.records = run.records
  BY <1>3, <1>4, CasesFinal DEF Ended
<1>6. Carries(run, after)
  BY <1>3, <1>4, CasesCarry, FieldsOfRun DEF Ended, Final, Shaped
<1> HIDE DEF after
<1>7. Ended(after)
  BY <1>5, ChainedSame DEF Ended
<1>8. QED
  BY <1>6, <1>7 DEF after, cases

\* Nor does looking into one.
LEMMA LookedEnded ==
  ASSUME Ended(run), NEW finding
  PROVE  LET after == Looked(run.cases[Queue[next]], finding)
         IN  Ended(after) /\ Carries(run, after)
<1> DEFINE q == Queue[next]
           case == Suggest(run.cases[q], finding)
           cases == [run.cases EXCEPT ![q] = case]
           after == [run EXCEPT !.cases = cases]
<1>1. Looked(run.cases[q], finding) = after
  BY DEF Looked
<1> HIDE DEF q
<1>2. \A n \in DOMAIN run.cases : DOMAIN run.cases[n] = DOMAIN NoCase
  BY DEF Ended, Final, Shaped, Asked
<1>3. run.cases = [n \in DOMAIN run.cases |-> run.cases[n]]
  BY SeqIs DEF Ended, Final, Shaped, Asked
<1>4. q \in DOMAIN run.cases => /\ DOMAIN case = DOMAIN run.cases[q]
                                /\ case.blocks = run.cases[q].blocks
                                /\ case.children = run.cases[q].children
  BY <1>2 DEF Suggest, NoCase
<1> HIDE DEF case
<1>5. cases = [n \in DOMAIN run.cases |-> cases[n]]
  BY <1>3
<1>6. \A n \in DOMAIN run.cases : cases[n] = IF n = q THEN case ELSE run.cases[n]
  BY <1>3
<1> HIDE DEF cases
<1>7. \A n \in DOMAIN run.cases : /\ DOMAIN cases[n] = DOMAIN run.cases[n]
                                  /\ cases[n].blocks = run.cases[n].blocks
                                  /\ cases[n].children = run.cases[n].children
  BY <1>4, <1>6
<1>8. Final(after) /\ after.records = run.records
  BY <1>5, <1>7, CasesFinal DEF Ended
<1>9. Carries(run, after)
  BY <1>5, <1>7, CasesCarry, FieldsOfRun DEF Ended, Final, Shaped
<1> HIDE DEF after
<1>10. Ended(after)
  BY <1>8, ChainedSame DEF Ended
<1>11. QED
  BY <1>1, <1>9, <1>10 DEF q

ListedLoop(cases, taken, base, n, o) == ListsConstants(o)
DecidingLists == INSTANCE FoldInduction WITH Step <- DecideStep, Inv <- ListedLoop

\* The decisions that found their question leave the answers a list.
LEMMA RunAgainListed ==
  ASSUME LoopInv, ListsConstants(overrides), NEW p, RunAgain(p)
  PROVE  ListsConstants(overrides')
<1> DEFINE there == Answerable
           at(i) == CHOOSE d \in there : Cardinality({e \in there : e < d}) = i - 1
           order == InOrder(there, LAMBDA d, e : d < e)
<1>1. order = [i \in 1..Cardinality(there) |-> at(i)]
  BY Zenon DEF InOrder
<1>2. overrides' = FoldLeft(Apply, overrides, order)
  BY Zenon DEF RunAgain
<1>3. Cardinality(there) \in Nat
  <2>1. there \in SUBSET DOMAIN decisions
    BY DEF Answerable
  <2>2. IsFiniteSet(DOMAIN decisions)
    BY PlacesOfDecisions
  <2>3. IsFiniteSet(there)
    BY <2>1, <2>2, FS_Subset
  <2>4. QED
    BY <2>3, FS_CardinalityType
<1> HIDE DEF there
<1>4. order = [i \in 1..Cardinality(there) |-> order[i]]
  BY <1>1
<1> HIDE DEF order, at
<1>5. IsSeq(order)
  BY <1>3, <1>4, SeqMade
<1>6. FoldLeft(Apply, overrides, order) = DecidingLists!Over(run.cases, decisions, overrides, order)
  BY DEF Apply, DecidingLists!Over, DecideStep, DecidingLists!Unfolding, FoldLeft,
         MapThenFoldSet, DecidingLists!Last, Max
<1>7. DecidingLists!Sequence(order)
  BY <1>5, SeqReached DEF DecidingLists!Sequence, DecidingLists!Reached
<1>8. ListedLoop(run.cases, decisions, overrides, 0, overrides)
  BY DEF ListedLoop
<1>9. \A i \in 1..Len(order) : \A o :
        ListedLoop(run.cases, decisions, overrides, i - 1, o) =>
          ListedLoop(run.cases, decisions, overrides, i, DecideStep(run.cases, decisions, o, order[i]))
  BY ApplyListed DEF ListedLoop, DecideStep
<1>10. ListedLoop(run.cases, decisions, overrides, Len(order),
                  DecidingLists!Over(run.cases, decisions, overrides, order))
  BY <1>7, <1>8, <1>9, DecidingLists!FoldKeeps
<1>11. QED
  BY <1>2, <1>6, <1>10 DEF ListedLoop

\* A step of a stage.
LEMMA HeldStage ==
  ASSUME ShapedInv, EvidenceInv, HeldInv,
         AskUnmapped \/ BuildRecords \/ MergeRecords \/ CheckFormats \/ CheckRecords \/ SettleRecords
  PROVE  HeldInv'
<1>0. scene \in Scenes /\ ListsConstants(overrides)
  BY DEF ShapedInv, HeldInv
<1>1. CASE AskUnmapped
  <2> DEFINE files == [i \in DOMAIN Read |-> Read[i].name]
  <2>1. /\ phase = "map" /\ phase' = "build" /\ run' = UnmappedRequired(run, files)
        /\ UNCHANGED <<scene, overrides>>
    BY <1>1 DEF AskUnmapped, Stage, Passed
  <2>2. IsSeq(files)
    <3>1. files = [i \in DOMAIN Read |-> files[i]] /\ IsSeq(Read)
      BY <1>0, ReadIsSheets
    <3> HIDE DEF files
    <3>2. QED
      BY <3>1, SeqChanged
  <2> HIDE DEF files
  <2>3. Unbuilt(run)
    BY <2>1 DEF HeldInv
  <2>4. Unbuilt(run')
    BY <2>1, <2>2, <2>3, UnmappedStill, StillUnbuilt DEF Unbuilt
  <2>5. QED
    BY <1>0, <2>1, <2>4 DEF HeldInv
<1>2. CASE BuildRecords
  <2>1. /\ phase = "build" /\ phase' = "reconcile" /\ run' = Build(run, overrides, Read)
        /\ UNCHANGED <<scene, overrides>>
    BY <1>2 DEF BuildRecords, Stage, Passed
  <2>2. Unbuilt(run)
    BY <2>1 DEF HeldInv
  <2>3. Sound(run) /\ Owned(run) /\ Ids(run) = {} /\ DOMAIN run.mergedInto = {}
    <3>1. DOMAIN <<>> = {}
      BY SeqEmpty
    <3>2. QED
      BY <2>2, <3>1 DEF Unbuilt, Owned, Ids
  <2>4. Columns(run)
    BY <1>0, PlacedColumns DEF EvidenceInv
  <2>5. IsSeq(overrides.constants)
    BY <1>0 DEF ListsConstants
  <2> DEFINE sources == Read
             after == Build(run, overrides, sources)
  <2>6. /\ IsSeq(sources) /\ \A i \in DOMAIN sources : RowsApart(sources[i])
        /\ \A i, j \in DOMAIN sources : RowIds(sources[i]) \cap RowIds(sources[j]) # {} => i = j
        /\ UNION {RowIds(sources[i]) : i \in DOMAIN sources} \subseteq RowsOfScene(scene)
    BY <1>0, ReadIsApart
  <2> HIDE DEF sources
  <2>7. /\ Sound(after) /\ after.mergedInto = run.mergedInto
        /\ Ids(after) \subseteq UNION {RowIds(sources[i]) : i \in DOMAIN sources}
    BY <2>3, <2>4, <2>5, <2>6, BuildSound
  <2>8. run' = after
    BY <2>1 DEF sources
  <2> HIDE DEF after
  <2>9. Sound(run') /\ DOMAIN run'.mergedInto = {} /\ Ids(run') \subseteq RowsOfScene(scene')
    BY <2>1, <2>3, <2>6, <2>7, <2>8
  <2>10. QED
    BY <1>0, <2>1, <2>9 DEF HeldInv
<1>3. CASE MergeRecords
  <2>1. /\ phase = "reconcile" /\ phase' = "check" /\ run' = Reconcile(run, overrides)
        /\ UNCHANGED <<scene, overrides>>
    BY <1>3 DEF MergeRecords, Stage, Passed
  <2>2. Sound(run) /\ DOMAIN run.mergedInto = {} /\ Ids(run) \subseteq RowsOfScene(scene)
    BY <2>1 DEF HeldInv
  <2>3. SortApart(Ids(run))
    BY <1>0, <2>2, SceneIsApart DEF SortApart
  <2>4. Sound(run')
    BY <2>1, <2>2, <2>3, ReconcileSound
  <2>5. QED
    BY <1>0, <2>1, <2>4 DEF HeldInv
<1>4. CASE CheckFormats
  <2>1. /\ phase = "check" /\ phase' = "validate" /\ run' = CrossCheckFormats(run)
        /\ UNCHANGED <<scene, overrides>>
    BY <1>4 DEF CheckFormats, Stage, Passed
  <2>2. Sound(run')
    BY <2>1, CrossCheckSound DEF HeldInv
  <2>3. QED
    BY <1>0, <2>1, <2>2 DEF HeldInv
<1>5. CASE CheckRecords
  <2>1. /\ phase = "validate" /\ phase' = "finalise" /\ run' = Validate(run)
        /\ UNCHANGED <<scene, overrides>>
    BY <1>5 DEF CheckRecords, Stage, Passed
  <2>2. Checked(run')
    BY <2>1, ValidateChecked DEF HeldInv
  <2>3. QED
    BY <1>0, <2>1, <2>2 DEF HeldInv
<1>6. CASE SettleRecords
  <2>1. /\ phase = "finalise" /\ phase' = "match" /\ run' = Finalise(run, overrides)
        /\ UNCHANGED <<scene, overrides>>
    BY <1>6 DEF SettleRecords, Stage, Passed
  <2>2. Done(run')
    BY <2>1, FinaliseDone DEF HeldInv
  <2>3. Ended(run')
    BY <2>2, DoneChained DEF Ended, Done
  <2>4. QED
    BY <1>0, <2>1, <2>3 DEF HeldInv
<1>7. QED
  BY <1>1, <1>2, <1>3, <1>4, <1>5, <1>6

\* Every step takes the records on to the next stage, or leaves them.
LEMMA HeldStep ==
  ASSUME ShapedInv, EvidenceInv, LoopInv, HeldInv, [Next]_vars
  PROVE  HeldInv'
<1>0. scene \in Scenes /\ next \in Nat \ {0} /\ ListsConstants(overrides)
  BY DEF ShapedInv, HeldInv
<1>1. CASE Open \/ Decide
  <2>1. run' = NewRun /\ overrides' = NoOverrides /\ phase' = "map"
    BY <1>1 DEF Open, Decide, Begin
  <2>2. QED
    BY <2>1, NothingListed, NewRunUnbuilt DEF HeldInv
<1>2. CASE MatchDecisions
  <2>1. PICK p : RunAgain(p)
    BY <1>2 DEF MatchDecisions
  <2>2. run' = NewRun /\ phase' = "map"
    BY <2>1 DEF RunAgain
  <2>3. ListsConstants(overrides')
    BY <1>0, <2>1, RunAgainListed
  <2>4. QED
    BY <2>2, <2>3, NewRunUnbuilt DEF HeldInv
<1>3. CASE MapNext
  <2>1. /\ phase = "map" /\ phase' = phase /\ UNCHANGED <<scene, overrides>>
        /\ run' = run \/ \E votes : run' = MapFile(run, overrides, scene.sources[next], votes)
    BY <1>3 DEF MapNext, MapWith, Passed
  <2>2. next <= Len(scene.sources)
    BY <1>3 DEF MapNext
  <2>3. IsSeq(scene.sources[next].headers)
    <3>1. IsSeq(scene.sources) /\ \A i \in DOMAIN scene.sources : Sheet(scene.sources[i])
      BY <1>0, SourcesAreSheets
    <3>2. next \in DOMAIN scene.sources
      BY <1>0, <2>2, <3>1, SeqIs
    <3>3. QED
      BY <3>1, <3>2 DEF Sheet
  <2>4. Unbuilt(run)
    BY <2>1 DEF HeldInv
  <2>5. \A votes : Unbuilt(MapFile(run, overrides, scene.sources[next], votes))
    BY <2>3, <2>4, MapFileStill, StillUnbuilt DEF Unbuilt
  <2>6. QED
    BY <1>0, <2>1, <2>4, <2>5 DEF HeldInv
<1>4. CASE AskUnmapped \/ BuildRecords \/ MergeRecords \/ CheckFormats \/ CheckRecords \/ SettleRecords
  BY <1>4, HeldStage
<1>5. CASE Mark
  <2>1. /\ phase = "match" /\ phase' = "look" /\ run' = [run EXCEPT !.cases = Marked(run.cases)]
        /\ UNCHANGED <<scene, overrides>>
    BY <1>5 DEF Mark
  <2>2. Ended(run')
    BY <2>1, MarkedEnded DEF HeldInv
  <2>3. QED
    BY <1>0, <2>1, <2>2 DEF HeldInv
<1>6. CASE Recall \/ Conclude
  <2>1. phase = "look" /\ UNCHANGED <<scene, overrides, phase>>
    BY <1>6 DEF Recall, Conclude, Asking, Looking, Rest
  <2>2. \E finding : run' = Looked(run.cases[Queue[next]], finding)
    BY <1>6 DEF Recall, Conclude
  <2>3. Ended(run')
    BY <2>1, <2>2, LookedEnded DEF HeldInv
  <2>4. QED
    BY <1>0, <2>1, <2>3 DEF HeldInv
<1>7. CASE Turn \/ GiveUp \/ UNCHANGED vars
  <2>1. UNCHANGED <<scene, overrides, phase, run>>
    BY <1>7 DEF Turn, GiveUp, Rest, vars
  <2>2. QED
    BY <2>1 DEF HeldInv
<1>8. CASE Finish
  <2>1. phase = "look" /\ phase' = "idle" /\ UNCHANGED <<scene, overrides, run>>
    BY <1>8 DEF Finish
  <2>2. QED
    BY <2>1 DEF HeldInv
<1>9. QED
  BY <1>1, <1>2, <1>3, <1>4, <1>5, <1>6, <1>7, <1>8 DEF Next

\* Whatever the files and the answers, at every stage the questions count the
\* records that wait for them, and at the end each record has its state.
THEOREM RecordsAlwaysCounted == Spec => []HeldInv
<1>1. ShapedInv /\ EvidenceInv /\ LoopInv /\ HeldInv /\ [Next]_vars => HeldInv'
  BY HeldStep
<1>2. ShapedInv /\ EvidenceInv /\ LoopInv /\ [Next]_vars => EvidenceInv'
  BY EvidenceStep
<1>3. LoopInv /\ [Next]_vars => LoopInv'
  BY LoopStep
<1>4. QED
  BY <1>1, <1>2, <1>3, HeldInit, EvidenceInit, LoopInit, ShapedInit, ShapedStep, PTL DEF Spec

\* No record is held without a question that counts it, and every question a
\* record is held by counts that record, whichever stage raised it, joined it
\* or passed it on (_case, _attach, _merge, _hold_dependents).
THEOREM BlockedAlwaysAsked == Spec => []BlockedIsAsked
<1>1. ASSUME EvidenceInv, HeldInv, phase = "idle", NEW r \in Range(shown.run.records), r.state # "EXCLUDED"
      PROVE  /\ r.state = "BLOCKED" => r.open # {}
             /\ r.open = Waits(shown.run.cases, r.id)
  <2>1. shown.run = run /\ Final(run)
    BY <1>1 DEF EvidenceInv, HeldInv, Ended
  <2>2. Stated(run.cases, r)
    BY <1>1, <2>1 DEF Final, Range
  <2>3. QED
    BY <1>1, <2>1, <2>2 DEF Stated
<1>2. EvidenceInv /\ HeldInv => BlockedIsAsked
  BY <1>1 DEF BlockedIsAsked, Settled, Result, ResultRecords, Waits
<1>3. Spec => []EvidenceInv
  <2>1. EvidenceInv /\ ShapedInv /\ [Next]_vars => EvidenceInv'
    BY EvidenceStep
  <2>2. QED
    BY <2>1, EvidenceInit, RunAlwaysShaped, PTL DEF Spec
<1>4. QED
  BY <1>2, <1>3, RecordsAlwaysCounted, PTL

\* Where a record refers to one other record at most, as with one manager, a
\* record is ready only if the one above it is, and so on to the top, however
\* long the chain and whatever the order of the rows (_hold_dependents).  With
\* two references the loop over them ends at the first that is not ready.
THEOREM ReadyAlwaysSendable ==
  ASSUME Len(SelfReferences) <= 1
  PROVE  Spec => []ReadyCanBeSent
<1>1. ASSUME EvidenceInv, HeldInv, phase = "idle", NEW r \in Range(shown.run.records), r.state = "READY"
      PROVE  /\ r.open = {}
             /\ \A f \in Range(SelfReferences) :
                  LET other == Named(shown.run, Get(r.values, f))
                  IN  other # None => other.state \in {"READY", "EXCLUDED"}
  <2>1. shown.run = run /\ Final(run) /\ Chained(run)
    BY <1>1 DEF EvidenceInv, HeldInv, Ended
  <2>2. PICK i \in DOMAIN run.records : r = run.records[i]
    BY <1>1, <2>1 DEF Range
  <2>3. Stated(run.cases, r)
    BY <2>1, <2>2 DEF Final
  <2>4. r.open = {}
    BY <1>1, <2>3 DEF Stated
  <2>5. QED
    BY <1>1, <2>1, <2>2, <2>4 DEF Chained
<1>2. EvidenceInv /\ HeldInv => ReadyCanBeSent
  BY <1>1 DEF ReadyCanBeSent, Settled, Result, ResultRecords
<1>3. Spec => []EvidenceInv
  <2>1. EvidenceInv /\ ShapedInv /\ [Next]_vars => EvidenceInv'
    BY EvidenceStep
  <2>2. QED
    BY <2>1, EvidenceInit, RunAlwaysShaped, PTL DEF Spec
<1>4. QED
  BY <1>2, <1>3, RecordsAlwaysCounted, PTL

(**************************** who said what ********************************)

\* Before the records are made one, they are the rows; from then on, while
\* nobody has named a file to believe, each one speaks for its own row and those
\* merged into it or waits for a question.
SaidInv ==
  /\ phase = "reconcile" => run.built = run.records
  /\ phase \in {"check", "validate", "finalise", "match", "look", "idle"} /\ overrides.authority = <<>>
       => Upheld(Range(run.built), run)

\* Nobody has said anything at first.
LEMMA SaidInit == Init => SaidInv
BY DEF Init, SaidInv

\* What a run is carried over to speaks for the same rows.
LEMMA UpheldOn ==
  ASSUME NEW before, NEW after, Carries(before, after), Upheld(Range(before.built), before)
  PROVE  Upheld(Range(after.built), after)
<1> DEFINE rows == Range(before.built)
<1>1. Range(after.built) = rows
  BY DEF Carries, Unmoved
<1>2. Upheld(rows, before)
  OBVIOUS
<1> HIDE DEF rows
<1>3. QED
  BY <1>1, <1>2, CarriesUpheld

\* A step of a stage.
LEMMA SaidStage ==
  ASSUME ShapedInv, HeldInv, HeldInv', SaidInv,
         AskUnmapped \/ BuildRecords \/ MergeRecords \/ CheckFormats \/ CheckRecords \/ SettleRecords
  PROVE  SaidInv'
<1>1. CASE AskUnmapped
  BY <1>1 DEF AskUnmapped, Stage, SaidInv
<1>2. CASE BuildRecords
  <2>1. phase' = "reconcile" /\ run' = Build(run, overrides, Read)
    BY <1>2 DEF BuildRecords, Stage
  <2>2. Sound(run')
    BY <2>1 DEF HeldInv
  <2>3. run'.built = run'.records
    BY <2>1, <2>2, BuildKeeps
  <2>4. QED
    BY <2>1, <2>3 DEF SaidInv
<1>3. CASE MergeRecords
  <2>1. /\ phase = "reconcile" /\ phase' = "check" /\ run' = Reconcile(run, overrides)
        /\ UNCHANGED <<scene, overrides>>
    BY <1>3 DEF MergeRecords, Stage, Passed
  <2>2. /\ Sound(run) /\ DOMAIN run.mergedInto = {} /\ Ids(run) \subseteq RowsOfScene(scene)
        /\ run.built = run.records
    BY <2>1 DEF HeldInv, SaidInv
  <2>3. SortApart(Ids(run))
    BY <2>2, SceneIsApart DEF ShapedInv, SortApart
  <2>4. overrides.authority = <<>> => Upheld(Range(run'.built), run')
    BY <2>1, <2>2, <2>3, ReconcileUpheld
  <2>5. QED
    BY <2>1, <2>4 DEF SaidInv
<1>4. CASE CheckFormats \/ CheckRecords \/ SettleRecords
  <2>1. /\ phase \in {"check", "validate", "finalise"} /\ phase' \in {"validate", "finalise", "match"}
        /\ overrides' = overrides
    BY <1>4 DEF CheckFormats, CheckRecords, SettleRecords, Stage, Passed
  <2>2. Carries(run, run')
    <3>1. CASE CheckFormats
      BY <3>1, CrossCheckCarries DEF CheckFormats, Stage, HeldInv
    <3>2. CASE CheckRecords
      BY <3>2, ValidateCarries DEF CheckRecords, Stage, HeldInv
    <3>3. CASE SettleRecords
      BY <3>3, FinaliseDone DEF SettleRecords, Stage, HeldInv
    <3>4. QED
      BY <1>4, <3>1, <3>2, <3>3
  <2>3. QED
    BY <2>1, <2>2, UpheldOn DEF SaidInv
<1>5. QED
  BY <1>1, <1>2, <1>3, <1>4

\* No step takes from a record what was said, or has it speak for a row it
\* does not agree with, unless somebody is asked.
LEMMA SaidStep ==
  ASSUME ShapedInv, HeldInv, HeldInv', SaidInv, [Next]_vars
  PROVE  SaidInv'
<1>1. CASE Open \/ Decide \/ MatchDecisions
  BY <1>1 DEF Open, Decide, MatchDecisions, Begin, RunAgain, SaidInv
<1>2. CASE MapNext
  <2>1. phase = "map" /\ phase' = phase
    BY <1>2 DEF MapNext
  <2>2. QED
    BY <2>1 DEF SaidInv
<1>3. CASE AskUnmapped \/ BuildRecords \/ MergeRecords \/ CheckFormats \/ CheckRecords \/ SettleRecords
  BY <1>3, SaidStage
<1>4. CASE Mark \/ Recall \/ Conclude
  <2>1. phase \in {"match", "look"} /\ phase' = "look" /\ overrides' = overrides
    BY <1>4 DEF Mark, Recall, Conclude, Asking, Looking, Rest
  <2>2. Ended(run)
    BY <2>1 DEF HeldInv
  <2>3. Carries(run, run')
    <3>1. CASE Mark
      BY <2>2, <3>1, MarkedEnded DEF Mark
    <3>2. CASE Recall \/ Conclude
      BY <2>2, <3>2, LookedEnded DEF Recall, Conclude
    <3>3. QED
      BY <1>4, <3>1, <3>2
  <2>4. QED
    BY <2>1, <2>3, UpheldOn DEF SaidInv
<1>5. CASE Turn \/ GiveUp \/ UNCHANGED vars
  <2>1. UNCHANGED <<overrides, phase, run>>
    BY <1>5 DEF Turn, GiveUp, Rest, vars
  <2>2. QED
    BY <2>1 DEF SaidInv
<1>6. CASE Finish
  <2>1. phase = "look" /\ phase' = "idle" /\ UNCHANGED <<overrides, run>>
    BY <1>6 DEF Finish
  <2>2. QED
    BY <2>1 DEF SaidInv
<1>7. QED
  BY <1>1, <1>2, <1>3, <1>4, <1>5, <1>6 DEF Next

\* Two rows that were made one and say different things are never sent without
\* anybody having been asked, whatever stage the record goes through after
\* (_merge): a ready record agrees with its own row and with those merged into
\* it, and these with each other, while nobody has named a file to believe.
THEOREM DisagreementAlwaysAsked == Spec => []NoSilentDisagreement
<1>1. ASSUME EvidenceInv, HeldInv, SaidInv, phase = "idle", overrides.authority = <<>>,
             NEW r \in Range(shown.run.records), r.state = "READY",
             NEW b \in Range(shown.run.built),
             b.id = r.id \/ (b.id \in DOMAIN shown.run.mergedInto /\ shown.run.mergedInto[b.id] = r.id)
      PROVE  Follows(r.values, b.values)
  <2>1. shown.run = run /\ Final(run) /\ Upheld(Range(run.built), run)
    BY <1>1 DEF EvidenceInv, HeldInv, Ended, SaidInv
  <2>2. PICK i \in DOMAIN run.records : r = run.records[i]
    BY <1>1, <2>1 DEF Range
  <2>3. SpeaksFor(Range(run.built), run.cases, run.mergedInto, r)
    BY <2>1, <2>2 DEF Upheld
  <2>4. Waits(run.cases, r.id) = {}
    BY <1>1, <2>1, <2>2 DEF Final, Stated
  <2>5. Keeps(r.values, b.values) \/ Follows(r.values, b.values)
    BY <1>1, <2>1, <2>3, <2>4 DEF SpeaksFor
  <2>6. QED
    BY <2>5, KeptValues
<1>2. EvidenceInv /\ HeldInv /\ SaidInv => NoSilentDisagreement
  BY <1>1, FollowedAgree DEF NoSilentDisagreement, Settled, Result, ResultRecords
<1>3. Spec => []EvidenceInv
  <2>1. EvidenceInv /\ ShapedInv /\ [Next]_vars => EvidenceInv'
    BY EvidenceStep
  <2>2. QED
    BY <2>1, EvidenceInit, RunAlwaysShaped, PTL DEF Spec
<1>4. Spec => []SaidInv
  <2>1. ShapedInv /\ HeldInv /\ HeldInv' /\ SaidInv /\ [Next]_vars => SaidInv'
    BY SaidStep
  <2>2. QED
    BY <2>1, SaidInit, RunAlwaysShaped, RecordsAlwaysCounted, PTL DEF Spec
<1>5. QED
  BY <1>2, <1>3, <1>4, RecordsAlwaysCounted, PTL

(******************************** the types ********************************)

\* What is counted and recorded stays within its bounds.
BoundsInv ==
  /\ outages \in 0..scene.outages /\ failed \in BOOLEAN
  /\ Len(decisions) <= scene.decisions
  /\ DOMAIN proposed \subseteq {scene.sources[i].name : i \in DOMAIN scene.sources}
  /\ look \in [turn : 0..MaxSteps, forced : BOOLEAN]

\* Nothing is counted at first.
LEMMA BoundsInit == Init => BoundsInv
<1> SUFFICES ASSUME Init PROVE BoundsInv
  OBVIOUS
<1>1. scene \in Scenes /\ decisions = <<>> /\ outages = 0 /\ failed = FALSE /\ proposed = NoFunction /\ look = NoLook
  BY DEF Init
<1>2. scene.outages \in Nat /\ scene.decisions \in Nat /\ MaxSteps \in Nat
  BY <1>1, ScenesAssumption
<1>3. DOMAIN NoFunction = {} /\ NoLook \in [turn : 0..MaxSteps, forced : BOOLEAN]
  BY <1>2 DEF NoFunction, NoLook
<1>4. Len(<<>>) = 0
  BY SeqEmpty
<1>5. outages \in 0..scene.outages /\ failed \in BOOLEAN /\ Len(decisions) <= scene.decisions
  <2>1. 0 \in 0..scene.outages /\ 0 <= scene.decisions
    BY <1>2
  <2>2. failed \in BOOLEAN
    BY <1>1
  <2>3. outages = 0 /\ Len(decisions) = 0
    BY <1>1, <1>4
  <2>4. QED
    BY <2>1, <2>2, <2>3
<1>6. DOMAIN proposed = {} /\ look \in [turn : 0..MaxSteps, forced : BOOLEAN]
  BY <1>1, <1>3
<1>7. QED
  BY <1>5, <1>6 DEF BoundsInv

\* A call may fail as often as the scene has it.
LEMMA BoundsStep ==
  ASSUME ShapedInv, LoopInv, BoundsInv, [Next]_vars
  PROVE  BoundsInv'
<1>0. /\ scene \in Scenes /\ next \in Nat \ {0}
      /\ scene.outages \in Nat /\ scene.decisions \in Nat /\ MaxSteps \in Nat
      /\ outages \in 0..scene.outages /\ look \in [turn : 0..MaxSteps, forced : BOOLEAN]
  BY ScenesAssumption DEF ShapedInv, BoundsInv
<1>1. CASE Open \/ MatchDecisions \/ Mark
  <2>1. failed' \in {failed, FALSE} /\ look' \in {look, NoLook}
        /\ UNCHANGED <<scene, outages, decisions, proposed>>
    BY <1>1 DEF Open, Begin, MatchDecisions, RunAgain, Mark
  <2>2. NoLook \in [turn : 0..MaxSteps, forced : BOOLEAN]
    BY <1>0 DEF NoLook
  <2>3. QED
    BY <2>1, <2>2 DEF BoundsInv
<1>2. CASE Decide
  <2>1. PICK taken : decisions' = Append(decisions, taken)
    BY <1>2 DEF Decide
  <2>2. /\ Len(decisions) < scene.decisions /\ failed' = FALSE
        /\ UNCHANGED <<scene, outages, proposed, look>>
    BY <1>2 DEF Decide, Begin
  <2>3. Len(decisions') = Len(decisions) + 1 /\ Len(decisions) \in Nat
    <3>1. IsSeq(decisions)
      BY DEF LoopInv, IsSeq
    <3>2. QED
      BY <2>1, <3>1, SeqIs, SeqAppend
  <2>4. Len(decisions') <= scene.decisions
    BY <1>0, <2>2, <2>3
  <2>5. QED
    BY <2>2, <2>4 DEF BoundsInv
<1>3. CASE MapNext
  <2> DEFINE source == scene.sources[next]
  <2>1. /\ UNCHANGED <<scene, decisions, look>>
        /\ failed' \in {failed, TRUE}
        /\ outages' = outages \/ (outages < scene.outages /\ outages' = outages + 1)
        /\ proposed' = proposed \/ \E said : proposed' = Put(proposed, source.name, said)
        /\ next <= Len(scene.sources)
    BY <1>3 DEF MapNext, MapWith, Passed, Recorded
  <2>2. next \in DOMAIN scene.sources
    <3>1. IsSeq(scene.sources)
      BY <1>0, SourcesAreSheets
    <3>2. QED
      BY <1>0, <2>1, <3>1, SeqIs
  <2>3. DOMAIN proposed' \subseteq DOMAIN proposed \cup {source.name}
    BY <2>1 DEF Put
  <2>4. outages' \in 0..scene.outages
    BY <1>0, <2>1
  <2>5. QED
    BY <2>1, <2>2, <2>3, <2>4 DEF BoundsInv
<1>4. CASE AskUnmapped \/ BuildRecords \/ MergeRecords \/ CheckFormats \/ CheckRecords \/ SettleRecords
  <2>1. UNCHANGED <<scene, decisions, look, failed, outages, proposed>>
    BY <1>4 DEF AskUnmapped, BuildRecords, MergeRecords, CheckFormats, CheckRecords, SettleRecords,
                Stage, Passed
  <2>2. QED
    BY <2>1 DEF BoundsInv
<1>5. CASE Recall \/ Turn \/ Conclude \/ GiveUp
  <2>1. /\ UNCHANGED <<scene, decisions, proposed>>
        /\ failed' \in {failed, TRUE}
        /\ outages' = outages \/ (outages < scene.outages /\ outages' = outages + 1)
    BY <1>5 DEF Recall, Turn, Conclude, GiveUp, Rest
  <2>2. look' \in {NoLook, [look EXCEPT !.forced = TRUE]}
        \/ (look.turn < MaxSteps /\ look' = [look EXCEPT !.turn = look.turn + 1])
    BY <1>5 DEF Recall, Turn, Conclude, GiveUp
  <2>3. look' \in [turn : 0..MaxSteps, forced : BOOLEAN]
    <3>1. NoLook \in [turn : 0..MaxSteps, forced : BOOLEAN]
      BY <1>0 DEF NoLook
    <3>2. [look EXCEPT !.forced = TRUE] \in [turn : 0..MaxSteps, forced : BOOLEAN]
      BY <1>0
    <3>3. look.turn < MaxSteps => look.turn + 1 \in 0..MaxSteps
      BY <1>0
    <3>4. \A n \in 0..MaxSteps : [look EXCEPT !.turn = n] \in [turn : 0..MaxSteps, forced : BOOLEAN]
      BY <1>0
    <3>5. QED
      BY <2>2, <3>1, <3>2, <3>3, <3>4
  <2>4. outages' \in 0..scene.outages
    BY <1>0, <2>1
  <2>5. QED
    BY <2>1, <2>3, <2>4 DEF BoundsInv
<1>6. CASE Finish \/ UNCHANGED vars
  <2>1. UNCHANGED <<scene, decisions, look, failed, outages, proposed>>
    BY <1>6 DEF Finish, vars
  <2>2. QED
    BY <2>1 DEF BoundsInv
<1>7. QED
  BY <1>1, <1>2, <1>3, <1>4, <1>5, <1>6 DEF Next

\* A record is a record in every stage.
LEMMA RecordsTyped ==
  ASSUME HeldInv, NEW r \in Range(run.records)
  PROVE  /\ r.open \subseteq DOMAIN run.cases
         /\ DOMAIN r.values \subseteq FieldNames /\ DOMAIN r.origin = DOMAIN r.values
         /\ r.state \in {"processing", "READY", "BLOCKED", "EXCLUDED"}
<1>1. Sound(run) \/ Final(run)
  BY DEF HeldInv, Unbuilt, Checked, Ended
<1>2. PICK i \in DOMAIN run.records : r = run.records[i]
  BY DEF Range
<1>3. CASE Sound(run)
  <2>1. Counted(run.cases, r)
    BY <1>2, <1>3 DEF Sound
  <2>2. QED
    BY <2>1 DEF Counted, IsRecord, Waits
<1>4. CASE Final(run)
  <2>1. Stated(run.cases, r)
    BY <1>2, <1>4 DEF Final
  <2>2. r.open \subseteq DOMAIN run.cases
    <3>1. CASE r.state = "EXCLUDED"
      BY <2>1, <3>1 DEF Stated
    <3>2. CASE r.state # "EXCLUDED"
      BY <2>1, <3>2 DEF Stated, Waits
    <3>3. QED
      BY <3>1, <3>2
  <2>3. QED
    BY <2>1, <2>2 DEF Stated, IsRecord
<1>5. QED
  BY <1>1, <1>3, <1>4

\* There are at most as many passes as decisions, and one.
LEMMA PassBounded ==
  ASSUME ShapedInv, LoopInv, BoundsInv
  PROVE  pass \in 0..(scene.decisions + 1)
<1>1. Cardinality(applied) <= Len(decisions) /\ Cardinality(applied) \in Nat /\ Len(decisions) \in Nat
  <2>1. IsFiniteSet(DOMAIN decisions) /\ Cardinality(DOMAIN decisions) = Len(decisions) /\ Len(decisions) \in Nat
    BY PlacesOfDecisions
  <2>2. applied \in SUBSET DOMAIN decisions
    BY DEF LoopInv
  <2>3. QED
    BY <2>1, <2>2, FS_Subset, FS_CardinalityType
<1>2. pass \in Nat /\ (pass # 0 => pass <= Cardinality(applied) + 1)
  BY DEF LoopInv
<1>3. scene.decisions \in Nat /\ Len(decisions) <= scene.decisions
  BY ScenesAssumption DEF ShapedInv, BoundsInv
<1>4. QED
  BY <1>1, <1>2, <1>3

\* Every variable stays in its range: the phases follow one another, a replay
\* takes no more passes than decisions and one, a record waits on questions
\* there are, and has a source for every value (replay, class Pipeline).
THEOREM AlwaysTyped == Spec => []TypeOK
<1>1. ShapedInv /\ LoopInv /\ BoundsInv /\ HeldInv => TypeOK
  <2> SUFFICES ASSUME ShapedInv, LoopInv, BoundsInv, HeldInv PROVE TypeOK
    OBVIOUS
  <2>1. scene \in Scenes /\ applied \subseteq DOMAIN decisions /\ look.turn \in 0..MaxSteps
    BY DEF ShapedInv, LoopInv, BoundsInv
  <2>2. pass \in 0..(scene.decisions + 1)
    BY PassBounded
  <2>3. phase \in {"start", "map", "build", "reconcile", "check", "validate", "finalise", "match", "look", "idle"}
    BY DEF HeldInv
  <2>4. QED
    BY <2>1, <2>2, <2>3, RecordsTyped DEF TypeOK, BoundsInv
<1>2. ShapedInv /\ LoopInv /\ BoundsInv /\ [Next]_vars => BoundsInv'
  BY BoundsStep
<1>3. Spec => []BoundsInv
  BY <1>2, BoundsInit, RunAlwaysShaped, PassesAreEarned, PTL DEF Spec
<1>4. QED
  BY <1>1, <1>3, RunAlwaysShaped, PassesAreEarned, RecordsAlwaysCounted, PTL
=============================================================================
