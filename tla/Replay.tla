------------------------------- MODULE Replay -------------------------------
(***************************************************************************)
(* A run is worked out again from its files and the decisions taken on it: *)
(* the replay loop of runtime.py, the model calls it makes (stages.py and  *)
(* CachingProvider of provider.py), the decide endpoint of main.py that    *)
(* records an answer, and the pass that looks into the open questions      *)
(* (enrich of investigate.py, BedrockProvider.investigate).                *)
(*                                                                         *)
(* A replay runs alone: decide waits for the job, and RunCache models the  *)
(* threads.  Between two steps of it only the model's answers vary.        *)
(***************************************************************************)
EXTENDS Pipeline

CONSTANTS
  Scenes,          \* the runs: see the variable scene
  MaxCases,        \* the open questions looked into
  MaxSteps         \* the looks one of them gets

\* Files as the reader hands them over: one after another, each under a name
\* of its own, and so are the headers and the rows of each.  A row's id is its
\* place (record_id), texts sort apart, and likeness and confidence are shares.
ASSUME ScenesAssumption ==
  /\ MaxSteps \in Nat
  /\ \A s \in Scenes :
       LET files == Range(s.sources)
           rows(file) == {<<file.name, i, file.rows[i].id>> : i \in DOMAIN file.rows}
           all == UNION {rows(file) : file \in files}
           texts == {row[3] : row \in all} \cup UNION {Range(file.headers) : file \in files}
       IN  /\ s.sources \in Seq(files)
           /\ \A i, j \in DOMAIN s.sources : s.sources[i].name = s.sources[j].name => i = j
           /\ \A file \in files :
                /\ file.headers \in Seq(Range(file.headers)) /\ file.rows \in Seq(Range(file.rows))
                /\ \A header \in Range(file.headers), f \in FieldNames : NameSim(header, f) \in Shares
                /\ \A said \in s.proposals[file.name] : \A header \in DOMAIN said :
                     said[header].confidence \in Shares
           /\ \A r1, r2 \in all : r1[3] = r2[3] => r1 = r2
           /\ \A a, b \in texts : Place(a) \in Int /\ (Place(a) = Place(b) => a = b)
           /\ s.decisions \in Nat /\ s.outages \in Nat

VARIABLES
  scene,        \* what varies from run to run: its sources, what the model may propose
                \* for each file and find, what a person may answer of their own for each
                \* field, whether looking into a question may come to anything; and
                \* two bounds, how many decisions are taken and how many calls fail
  decisions,    \* the table of decisions: the case's key, the action, the answer
  phase,        \* where the replay is, "idle" when there is none
  looksInto,    \* whether this replay investigates
  next,         \* the file to be mapped, or the place in the queue to be looked at
  pass,         \* how many times the pipeline has run
  run,          \* the pipeline's state
  overrides,
  applied,      \* the decisions applied so far, by their place
  proposed,     \* the recorded answers: where the columns of a file belong
  found,        \* and what an investigation of a question found
  failed,       \* whether a call of this replay failed
  outages,
  look,         \* the investigation of the case at next
  shown         \* the last result, the number of decisions it has, and whether a call failed

vars == <<scene, decisions, phase, looksInto, next, pass, run, overrides, applied, proposed, found,
          failed, outages, look, shown>>

NoResult == [run |-> NewRun, decisions |-> -1, failed |-> FALSE, applied |-> {}]
NoLook == [turn |-> 0, forced |-> FALSE]

Init ==
  /\ scene \in Scenes
  /\ decisions = <<>> /\ phase = "start" /\ looksInto = TRUE /\ next = 1 /\ pass = 1
  /\ run = NewRun /\ overrides = NoOverrides /\ applied = {}
  /\ proposed = NoFunction /\ found = NoFunction /\ failed = FALSE /\ outages = 0
  /\ look = NoLook /\ shown = NoResult

(***************************** the replay loop *****************************)

\* A new replay forgets everything but the decisions and the recorded answers.
Begin(investigate) ==
  /\ phase' = "map" /\ looksInto' = (investigate /\ scene.online) /\ next' = 1 /\ pass' = 1
  /\ run' = NewRun /\ overrides' = NoOverrides /\ applied' = {} /\ failed' = FALSE

\* Any replay without a new decision: the first, the job's after a decision.
Open ==
  /\ phase \in {"start", "idle"}
  /\ Begin(TRUE)
  /\ UNCHANGED <<scene, decisions, proposed, found, outages, look, shown>>

Passed == UNCHANGED <<scene, decisions, looksInto, pass, applied, overrides, look, shown>>

\* assign_file_columns: what is said of columns or fields there are none of is
\* dropped, a runner-up counts less than the first by construction.
Votes(source, proposal) ==
  LET columns == DOMAIN proposal \cap Range(source.headers)
      vote(said) ==
        [f \in {said.field, said.runnerUp} \cap FieldNames |->
           IF f = said.field THEN said.confidence ELSE Min({said.confidence, Whole - said.confidence})]
  IN  [c \in columns |-> vote(proposal[c])]

\* CachingProvider.propose writes down what was said of a file.
\* Mutant: it does not.
Recorded_Nothing(file, proposal) == proposed
Recorded(file, proposal) == Put(proposed, file, proposal)

MapWith(source, votes) ==
  /\ run' = MapFile(run, overrides, source, votes)
  /\ next' = next + 1
  /\ Passed

\* An answer that was recorded is the answer; one that fails is no vote.
MapNext ==
  /\ phase = "map" /\ next <= Len(scene.sources)
  /\ LET source == scene.sources[next]
     IN  \/ /\ source.name \in overrides.ignored \/ source.rows = <<>>
            /\ next' = next + 1
            /\ Passed /\ UNCHANGED <<run, proposed, failed, outages>>
         \/ /\ source.name \notin overrides.ignored /\ source.rows # <<>>
            /\ \/ /\ source.name \in DOMAIN proposed
                  /\ MapWith(source, Votes(source, proposed[source.name]))
                  /\ UNCHANGED <<proposed, failed, outages>>
               \/ /\ source.name \notin DOMAIN proposed
                  /\ \E proposal \in scene.proposals[source.name] :
                       /\ proposed' = Recorded(source.name, proposal)
                       /\ MapWith(source, Votes(source, proposal))
                  /\ UNCHANGED <<failed, outages>>
               \/ /\ source.name \notin DOMAIN proposed /\ outages < scene.outages
                  /\ outages' = outages + 1 /\ failed' = TRUE
                  /\ MapWith(source, NoFunction)
                  /\ UNCHANGED proposed
  /\ UNCHANGED <<phase, found>>

\* The files that are read: the ones nobody left out.
Read == Those(scene.sources, {s \in Range(scene.sources) : s.name \notin overrides.ignored})

\* The stages after mapping, one step each.
Stage(from, to, result) ==
  /\ phase = from /\ phase' = to /\ run' = result
  /\ Passed /\ UNCHANGED <<next, proposed, found, failed, outages>>

AskUnmapped ==
  /\ next > Len(scene.sources)
  /\ Stage("map", "build", UnmappedRequired(run, [i \in DOMAIN Read |-> Read[i].name]))
BuildRecords  == Stage("build", "reconcile", Build(run, overrides, Read))
MergeRecords  == Stage("reconcile", "check", Reconcile(run, overrides))
CheckFormats  == Stage("check", "validate", CrossCheckFormats(run))
CheckRecords  == Stage("validate", "finalise", Validate(run))
SettleRecords == Stage("finalise", "match", Finalise(run, overrides))

\* by_key: the last case with a key answers to it.
CaseWith(cases, key) == Max({n \in DOMAIN cases : CaseKey(cases[n]) = key})
Keys(cases) == {CaseKey(cases[n]) : n \in DOMAIN cases}

\* The decisions not applied yet whose question came up.
Answerable == {d \in DOMAIN decisions : d \notin applied /\ decisions[d].key \in Keys(run.cases)}

Apply(o, d) ==
  ApplyDecision(o, run.cases[CaseWith(run.cases, decisions[d].key)], decisions[d].action, decisions[d].answer)

\* The pipeline runs again on what those decisions, in the order taken, make
\* of the overrides; pass 0 is the last.
RunAgain(p) ==
  /\ overrides' = FoldLeft(Apply, overrides, InOrder(Answerable, LAMBDA d, e : d < e))
  /\ applied' = applied \cup Answerable
  /\ pass' = p
  /\ phase' = "map" /\ next' = 1 /\ run' = NewRun
  /\ UNCHANGED <<scene, decisions, looksInto, proposed, found, failed, outages, look, shown>>

\* Mutant: what the decisions revealed is not matched again.
MatchDecisions_Once ==
  phase = "match" /\ pass # 0 /\ RunAgain(0)

\* Mutant: the loop is one pass short.
MatchDecisions_Short ==
  phase = "match" /\ pass # 0 /\ RunAgain(IF Answerable = {} \/ pass >= Len(decisions) THEN 0 ELSE pass + 1)

\* As long as some decision found its question the pipeline runs again, at
\* most once more than there are decisions; then it runs a last time.
MatchDecisions ==
  phase = "match" /\ pass # 0 /\ RunAgain(IF Answerable = {} \/ pass > Len(decisions) THEN 0 ELSE pass + 1)

\* The questions somebody answered are not open, whatever came of the answer.
Marked(cases) ==
  LET answered == {decisions[d].key : d \in DOMAIN decisions}
  IN  [n \in DOMAIN cases |-> [cases[n] EXCEPT !.resolved = CaseKey(cases[n]) \in answered]]

Mark ==
  /\ phase = "match" /\ pass = 0
  /\ run' = [run EXCEPT !.cases = Marked(@)]
  /\ phase' = "look" /\ next' = 1 /\ look' = NoLook
  /\ UNCHANGED <<scene, decisions, looksInto, pass, overrides, applied, proposed, found, failed,
                 outages, shown>>

(************************ looking into the questions ***********************)

WorthChecking ==
  {"AMBIGUOUS_MAPPING", "AMBIGUOUS_VALUE", "UNRESOLVED_REFERENCE", "CONFLICTING_FACTS",
   "UNMAPPED_REQUIRED", "VALIDATION_UNRESOLVED"}

\* The open questions, the ones most records wait on first, as many as are
\* looked into; an answer that comes of it changes none of what orders them.
Queue ==
  LET worth == {n \in DOMAIN run.cases : ~run.cases[n].resolved /\ run.cases[n].klass \in WorthChecking}
      sorted == InOrder(worth, LAMBDA m, n :
                  \/ WaitingCount(run.cases[m]) > WaitingCount(run.cases[n])
                  \/ WaitingCount(run.cases[m]) = WaitingCount(run.cases[n]) /\ m < n)
  IN  IF looksInto THEN SubSeq(sorted, 1, Min({MaxCases, Len(sorted)})) ELSE <<>>

\* What the model is asked: the question and the answers on the table.
Question(case) == [case EXCEPT !.blocks = {}, !.children = {}, !.recommended = None]

NoFinding == [settled |-> FALSE, suggestion |-> None]

\* Mutant: what the model concluded goes before what the data measured.
Suggest_Outvotes(case, finding) ==
  IF ~finding.settled THEN case
  ELSE [case EXCEPT !.options = @ \cup {finding.suggestion}, !.recommended = finding.suggestion]

\* What the data measured stands; otherwise a suggestion is recommended, as an
\* answer of its own when the case did not offer it.
Suggest(case, finding) ==
  IF case.recommended # None \/ ~finding.settled THEN case
  ELSE [case EXCEPT !.options = @ \cup {finding.suggestion}, !.recommended = finding.suggestion]

\* What a question offers, recommends and cautions against once a finding is in.
Looking == phase = "look" /\ next <= Len(Queue)
Looked(case, finding) == [run EXCEPT !.cases[Queue[next]] = Suggest(case, finding)]

Rest == UNCHANGED <<scene, decisions, phase, looksInto, pass, overrides, applied, proposed, shown>>

\* The whole investigation was recorded: its finding is used again.
Recall ==
  /\ Looking
  /\ LET case == run.cases[Queue[next]]
     IN  /\ Question(case) \in DOMAIN found
         /\ run' = Looked(case, found[Question(case)])
  /\ next' = next + 1 /\ look' = NoLook
  /\ Rest /\ UNCHANGED <<found, failed, outages>>

Asking == Looking /\ Question(run.cases[Queue[next]]) \notin DOMAIN found

\* A turn that settles nothing: something is looked up, or the answer is
\* malformed, or no tool is used and the model is made to answer.
Turn ==
  /\ Asking /\ ~look.forced /\ look.turn < MaxSteps
  /\ \/ look' = [look EXCEPT !.turn = @ + 1]
     \/ look' = [look EXCEPT !.forced = TRUE]
  /\ Rest /\ UNCHANGED <<run, next, found, failed, outages>>

\* An answer, taken whenever it comes; when the turns are used up it is forced,
\* and a malformed one is then no finding.
Conclude ==
  /\ Asking
  /\ LET case == run.cases[Queue[next]]
         mustCommit == look.forced \/ look.turn = MaxSteps
     IN  \E finding \in scene.findings \cup (IF mustCommit THEN {NoFinding} ELSE {}) :
           /\ found' = Put(found, Question(case), finding)
           /\ run' = Looked(case, finding)
  /\ next' = next + 1 /\ look' = NoLook
  /\ Rest /\ UNCHANGED <<failed, outages>>

\* A call that fails leaves the case as it was and unrecorded.
GiveUp ==
  /\ Asking /\ outages < scene.outages
  /\ outages' = outages + 1 /\ failed' = TRUE
  /\ next' = next + 1 /\ look' = NoLook
  /\ Rest /\ UNCHANGED <<run, found>>

Finish ==
  /\ phase = "look" /\ next > Len(Queue)
  /\ shown' = [run |-> run, decisions |-> Len(decisions), failed |-> failed, applied |-> applied]
  /\ phase' = "idle"
  /\ UNCHANGED <<scene, decisions, looksInto, next, pass, run, overrides, applied,
                 proposed, found, failed, outages, look>>

(****************************** taking decisions ***************************)

\* What a person may answer: an option of the case, or a value of their own.
\* A case may be approved only if something is recommended.
Answers(case) ==
  LET own == IF case.field \in DOMAIN scene.corrections THEN scene.corrections[case.field] ELSE {}
  IN  {[action |-> "correct", answer |-> a] : a \in case.options \cup own}
        \cup {[action |-> "reject", answer |-> None]}
        \cup (IF case.recommended = None THEN {}
              ELSE {[action |-> "approve", answer |-> a] : a \in {None, case.recommended}})

\* decide: the answer is recorded under the case's key and the run replayed
\* without looking into anything.
Decide ==
  /\ phase = "idle" /\ Len(decisions) < scene.decisions
  /\ \E n \in DOMAIN shown.run.cases : \E said \in Answers(shown.run.cases[n]) :
       decisions' = Append(decisions, [key |-> CaseKey(shown.run.cases[n]),
                                       action |-> said.action, answer |-> said.answer])
  /\ Begin(FALSE)
  /\ UNCHANGED <<scene, proposed, found, outages, look, shown>>

Next ==
  \/ Open \/ Decide
  \/ MapNext \/ AskUnmapped \/ BuildRecords \/ MergeRecords
  \/ CheckFormats \/ CheckRecords \/ SettleRecords
  \/ MatchDecisions \/ Mark
  \/ Recall \/ Turn \/ Conclude \/ GiveUp \/ Finish

Spec == Init /\ [][Next]_vars
=============================================================================
