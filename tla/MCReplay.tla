------------------------------ MODULE MCReplay ------------------------------
(***************************************************************************)
(* Small runs for TLC: a schema of six fields, and sheets of a few rows    *)
(* that between them raise every kind of question.  Texts are strings; the *)
(* tables below say what the standard library makes of the few that occur. *)
(***************************************************************************)
EXTENDS ReplayProperties

(******************************* the schema ********************************)

Field(type) ==
  [type |-> type, required |-> FALSE, unique |-> FALSE, caseSensitive |-> FALSE,
   pattern |-> None, allowed |-> <<>>, reference |-> None]

MCFieldOrder == <<"id", "name", "email", "mgr", "grade", "joined">>
MCFieldSpec ==
  [id     |-> [Field("string") EXCEPT !.required = TRUE, !.unique = TRUE, !.caseSensitive = TRUE,
                                      !.pattern = "key"],
   name   |-> [Field("string") EXCEPT !.required = TRUE],
   email  |-> [Field("email") EXCEPT !.unique = TRUE],
   mgr    |-> [Field("string") EXCEPT !.pattern = "key", !.reference = <<"employee", "id">>],
   grade  |-> [Field("enum") EXCEPT !.required = TRUE, !.allowed = <<"A", "B">>],
   joined |-> Field("date")]
MCDeclaredBlocking == <<>>
MCNeverMergeOn == {{"name", "joined"}}
MCLookups == [x \in {} |-> {}]

(******************************** the texts ********************************)

IdTexts == {"E1", "E2", "E3", "E4", "E9"}
Spaced == (" E1 " :> "E1") @@ ("E-3" :> "E3")
Of(table, text, default) == IF text \in DOMAIN table THEN table[text] ELSE default

MCTrimmed(text) == IF text = " E1 " THEN "E1" ELSE text
MCFold(text) == IF text = "ANN" THEN "ann" ELSE IF text = "Ann" THEN "ann" ELSE text
MCEnumKey(text) == IF text = "A" THEN "a" ELSE IF text = "B" THEN "b" ELSE text
MCSqueezed(text) == Of(Spaced, text, text)
MCFits(pattern, text) == pattern = "key" => text \in IdTexts
MCMask(text) == IF text \in IdTexts THEN "A9" ELSE text
MCParses(type, text) == type = "email" /\ text = "a@x"
MCNumber(text) == None
MCLowerDomain(text) == IF text = "a@X" THEN "a@x" ELSE text
MCLimitsBroken(field, value) == {}

Readings ==
  ("05/07/2018" :> [DMY |-> "2018-07-05", MDY |-> "2018-05-07"]) @@
  ("2018-07-05" :> [ISO |-> "2018-07-05"])
MCReadAs(text, fmt) ==
  IF text \in DOMAIN Readings /\ fmt \in DOMAIN Readings[text] THEN Readings[text][fmt] ELSE None
MCLateDay(text, fmt) == FALSE

Headers == <<"Code", "DOJ", "Email", "Emp ID", "Emp No", "Grade", "Label", "Manager", "Memo", "Name">>
Places == Headers \o <<"hr1", "hr2", "hr3", "hr4", "notes1", "old1", "pay1", "pay2">>
MCPlace(text) == SelectInSeq(Places, LAMBDA p : p = text)

Alikeness ==
  [id   |-> ("Emp ID" :> 10000) @@ ("Manager" :> 3000) @@ ("Code" :> 5000) @@ ("Emp No" :> 9000),
   mgr  |-> ("Manager" :> 10000) @@ ("Emp ID" :> 3000) @@ ("Code" :> 5000),
   name |-> ("Name" :> 10000) @@ ("Label" :> 3000),
   email |-> "Email" :> 10000, grade |-> "Grade" :> 10000, joined |-> "DOJ" :> 10000]
MCNameSim(header, field) == Of(Alikeness[field], header, 0)

(******************************** the sheets *******************************)

\* A sheet of rows, each with its cells under the headers.
Sheet(name, headers, lines) ==
  [name |-> name, headers |-> headers,
   rows |-> [i \in DOMAIN lines |->
     [id |-> name \o ToString(i), doubtful |-> {},
      cells |-> [h \in Range(headers) |-> lines[i][SelectInSeq(headers, LAMBDA g : g = h)]]]]]

Scene(sources) ==
  [sources |-> sources, findings |-> {}, online |-> FALSE, outages |-> 0, decisions |-> 3,
   corrections |-> NoFunction,
   proposals |-> [f \in {sources[i].name : i \in DOMAIN sources} |-> {NoFunction}]]

Basics == <<"Emp ID", "Name", "Grade">>

\* Two files that disagree about a name and a grade, where both know it.
Disagreement == Scene(<<
  Sheet("hr", Basics \o <<"Email">>, << <<" E1 ", "Ann", "A", "a@X">>, <<"E2", "Bob", "-", None>> >>),
  Sheet("pay", Basics, << <<"E1", "ANN", "B">>, <<"E2", "Rob", "B">> >>)>>)

\* A column of keys that may be the record's own or its manager's, and a
\* header that says nothing: right, wrong and missing votes.
Said(field, runnerUp, confidence) == [field |-> field, runnerUp |-> runnerUp, confidence |-> confidence]
Unclear ==
  [Scene(<<Sheet("hr", <<"Code", "Label", "Grade">>, << <<"E1", "Ann", "A">>, <<"E2", "Bob", "B">> >>)>>)
   EXCEPT !.outages = 2, !.proposals = [hr |-> {
     ("Code" :> Said("id", "mgr", 9000)) @@ ("Label" :> Said("name", None, 10000)),
     ("Code" :> Said("mgr", "payroll", 9000)) @@ ("Salary" :> Said("grade", None, 9000))}]]

\* Two columns of one file that look like the record's key.
Rivals == Scene(<<
  Sheet("hr", Basics \o <<"Emp No">>, << <<"E1", "Ann", "A", "E2">>, <<"E2", "Bob", "B", "E2">> >>)>>)

\* A chain of managers, the last of whom waits; a manager who is nowhere.
Chain ==
  [Scene(<<Sheet("hr", Basics \o <<"Manager">>,
       << <<"E1", "Ann", "A", "E2">>, <<"E2", "Bob", "A", "E-3">>,
          <<"E3", "Cy", "Z", None>>, <<"E4", "Di", "A", "E9">> >>)>>)
   EXCEPT !.corrections = [grade |-> {<<"value", "Z">>}, mgr |-> {<<"value", "E3">>}]]

\* Dates that read two ways, one of them settled by another file; the model
\* looks into the questions.
Dates ==
  [Scene(<<Sheet("hr", Basics \o <<"DOJ">>, << <<"E1", "Ann", "A", "05/07/2018">> >>),
           Sheet("pay", <<"Emp ID", "DOJ">>, << <<"E1", "2018-07-05">> >>)>>)
   EXCEPT !.online = TRUE, !.outages = 1, !.decisions = 1,
          !.findings = {[settled |-> TRUE, suggestion |-> <<"format", "MDY">>],
                        [settled |-> TRUE, suggestion |-> <<"constant", "C">>]}]

\* The same without the model: what the person makes of the dates, where the
\* first record that waits has no key.
Calendar == [Dates EXCEPT !.online = FALSE, !.outages = 0, !.decisions = 2,
  !.corrections = [joined |-> {<<"value", "2018-07-05">>}],
  !.sources[1] = Sheet("hr", Basics \o <<"DOJ">>, << <<"-", "Bob", "A", "05/07/2018">>,
                                                    <<"E1", "Ann", "A", "05/07/2018">> >>)]

\* A file without a column it must have, and a file of another kind.
Gaps == Scene(<<
  Sheet("hr", <<"Emp ID", "Name">>, << <<"E1", "Ann">>, <<"E2", "Bob">> >>),
  Sheet("pay", Basics, << <<"E1", "Ann", "A">> >>),
  Sheet("notes", <<"Memo">>, << <<"hello">> >>)>>)

\* Rows of several files with one address and different keys: of three, two
\* questions are about the first and have the same key.
Twin(file, key) ==
  Sheet(file, Basics \o <<"Email", "DOJ">>, << <<key, "Ann", "A", "a@x", "2018-07-05">> >>)
Twins == Scene(<<Twin("hr", "E1"), Twin("pay", "E2")>>)
Triplets == [Scene(<<Twin("hr", "E1"), Twin("pay", "E2"), Twin("old", "E3")>>) EXCEPT !.decisions = 2]

\* A value that was hard to read.
Scan ==
  LET scene_ == Scene(<<Sheet("hr", Basics, << <<"E1", "-", "A">>, <<"E2", "Bob", "Z">> >>)>>)
  IN  [scene_ EXCEPT !.sources[1].rows[2].doubtful = {"Grade"},
                     !.corrections = [grade |-> {<<"value", "B">>}]]

MCScenes == {Disagreement, Unclear, Rivals, Chain, Dates, Calendar, Gaps, Twins, Triplets, Scan}
=============================================================================
