------------------------ MODULE SchemaVersionsProofs ------------------------
(***************************************************************************)
(* What is processed, registered and sent has been approved by a person,   *)
(* and no version is ever edited: for any number of clients, schemas,      *)
(* drafts, approvals, pushes, outages and restarts.  Approvals that do not *)
(* overlap leave one version approved, and one that ran alone is in force  *)
(* everywhere until the next.                                              *)
(***************************************************************************)
EXTENDS MCSchemaVersions, FiniteSetTheorems, TLAPS

Optional(S) == S \union {NoBody}

\* What a handler keeps: the version it approves with its schema, which counts
\* as approved once the statement has been executed; or the approved version it
\* sends under, with approved schemas.
DraftShape(c) ==
    call[c].op = "draft" => call[c].at = "insert" /\ call[c].body \in Bodies
ApproveShape(c) ==
    call[c].op = "approve" =>
        /\ call[c].at \in {"supersede", "approve", "rules", "register", "invalidate", "clear", "start"}
        /\ call[c].version \in DOMAIN versions
        /\ call[c].body = versions[call[c].version].body
        /\ call[c].at \in {"rules", "register"} => call[c].version \in EverApproved
DeliverShape(c) ==
    call[c].op = "deliver" =>
        /\ call[c].at \in {"take", "replay", "read", "register", "push", "invalidate", "clear"}
        /\ call[c].version \in EverApproved
        /\ call[c].at = "read" => call[c].shape \in ApprovedBodies
        /\ call[c].at = "register" => {call[c].shape, call[c].body} \subseteq ApprovedBodies
        /\ call[c].at = "push" => call[c].shape \in ApprovedBodies
CallShape ==
    \A c \in Clients :
        /\ call[c].op = "none" <=> call[c].at = "idle"
        /\ DraftShape(c)
        /\ ApproveShape(c)
        /\ DeliverShape(c)
JobShape ==
    /\ job.at \in {"ready", "approved", "register", "push", "store"} =>
          job.shape \in ApprovedBodies
    /\ job.at \in {"approved", "register"} => job.body \in ApprovedBodies
    /\ job.at \in {"register", "push"} => job.version \in EverApproved

IInv == TypeOK /\ OnlyApprovedGoverns /\ CallShape /\ JobShape

\* What a step does to the table: rows stay, with their schema, approved or not.
Kept ==
    \A v \in DOMAIN versions :
        /\ v \in DOMAIN versions'
        /\ versions'[v].body = versions[v].body
        /\ versions[v].state # "draft" => versions'[v].state # "draft"

USE NoBodyAssumption

LEMMA RowsOfVersions ==
    ASSUME TypeOK
    PROVE  /\ DOMAIN versions = 1..Len(versions)
           /\ Len(versions) \in Nat
           /\ \A v \in DOMAIN versions : versions[v] \in Rows /\ v \in Nat
  BY DEF TypeOK

LEMMA RowsMakeVersions ==
    ASSUME NEW n \in Nat, NEW f \in [1..n -> Rows]
    PROVE  f \in Seq(Rows)
  OBVIOUS

\* Every step keeps the rows.
LEMMA StepsKeepVersions ==
    ASSUME IInv, [Next]_vars
    PROVE  Kept
<1>0. /\ DOMAIN versions = 1..Len(versions)
      /\ Len(versions) \in Nat
      /\ \A v \in DOMAIN versions : versions[v] \in Rows /\ v \in Nat
  BY RowsOfVersions DEF IInv
<1>1. ASSUME NEW c \in Clients, InsertDraft(c) PROVE Kept
  BY <1>0, <1>1 DEF InsertDraft, Kept, IInv, TypeOK
<1>2. ASSUME NEW c \in Clients, SupersedeApproved(c) PROVE Kept
  BY <1>0, <1>2 DEF SupersedeApproved, Kept, Rows
<1>3. ASSUME NEW c \in Clients, ApproveVersion(c) PROVE Kept
  <2>1. call[c].at = "approve" /\ versions' = [versions EXCEPT ![call[c].version].state = "approved"]
    BY <1>3 DEF ApproveVersion, Goto
  <2> QED BY <1>0, <2>1 DEF Kept, Rows
<1>4. CASE UNCHANGED versions
  BY <1>4 DEF Kept
<1> QED
  BY <1>1, <1>2, <1>3, <1>4 DEF Next, Ask, ClientStep, Approving, Delivering, JobStep, Outage,
     vars, database, memory, destination, views, BeginDraft, BeginApprove, SetRunSchema, Register,
     RegisterFails, Invalidate, StartJob, BeginDeliver, TakeResult, ReplayItself, ReadRules,
     Push, Pushes, BeginPoll, PollStep, PollStarts, PollGivesUp, PollTakesResult, PollSaves,
     Forgetting, ClearSnapshot, JobReplays, JobReadsRun, JobReadsApproved, JobRegisters, JobRegisterFails,
     JobPushes, JobStores, ApiRestarts

LEMMA ApprovalsGrow ==
    ASSUME Kept
    PROVE  EverApproved \subseteq EverApproved' /\ ApprovedBodies \subseteq ApprovedBodies'
<1>1. EverApproved \subseteq EverApproved'
  BY DEF Kept, EverApproved
<1>2. ASSUME NEW v \in EverApproved PROVE versions[v].body \in ApprovedBodies'
  <2>1. v \in EverApproved' /\ versions'[v].body = versions[v].body
    BY <1>1, <1>2 DEF Kept, EverApproved
  <2> QED BY <2>1 DEF ApprovedBodies
<1> QED BY <1>1, <1>2 DEF ApprovedBodies

LEMMA ApprovedBodiesAreBodies ==
    ASSUME TypeOK
    PROVE  /\ ApprovedBodies \subseteq Bodies
           /\ EverApproved \subseteq DOMAIN versions
           /\ EverApproved \subseteq Nat
           /\ \A v \in EverApproved : versions[v].body \in ApprovedBodies
           /\ \A v \in DOMAIN versions : IsApproved(v) => v \in EverApproved
           /\ NoBody \notin ApprovedBodies
  BY RowsOfVersions DEF ApprovedBodies, EverApproved, IsApproved, Rows

\* A new registration, an arrived push.
LEMMA RegistrationsApproved ==
    ASSUME IInv, NEW v \in EverApproved, NEW b \in ApprovedBodies
    PROVE  /\ Registering(v, b) \subseteq Registrations
           /\ \A r \in Registering(v, b) : r.version \in EverApproved /\ r.body \in ApprovedBodies
  BY ApprovedBodiesAreBodies DEF IInv, TypeOK, OnlyApprovedGoverns, Registering, Registrations

LEMMA SendingsApproved ==
    ASSUME IInv, NEW v \in EverApproved, NEW b \in ApprovedBodies
    PROVE  /\ Received(v, b) \subseteq Sendings
           /\ \A s \in Received(v, b) :
                 s.version \in EverApproved /\ {s.shape, s.rules} \subseteq ApprovedBodies
  BY ApprovedBodiesAreBodies DEF IInv, TypeOK, OnlyApprovedGoverns, Received, Registrations, Sendings

LEMMA InitiallyApproved ==
    ASSUME Init
    PROVE  IInv
<1>1. versions \in Seq(Rows)
  BY DEF Init
<1> QED
  BY <1>1 DEF Init, IInv, TypeOK, OnlyApprovedGoverns, CallShape, DraftShape, ApproveShape,
     DeliverShape, JobShape, Calls, ClientSteps, Returned, Jobs, NoJob, Snapshots, NoSnapshot,
     PollCalls, NoPoll

\* Handlers and the job that a step leaves alone keep their shape.
LEMMA OthersKeepShape ==
    ASSUME IInv, Kept, NEW d \in Clients, call'[d] = call[d]
    PROVE  (call[d].op = "none" <=> call[d].at = "idle")' /\ DraftShape(d)'
           /\ ApproveShape(d)' /\ DeliverShape(d)'
<1>1. EverApproved \subseteq EverApproved' /\ ApprovedBodies \subseteq ApprovedBodies'
  BY ApprovalsGrow
<1> QED
  BY <1>1 DEF IInv, CallShape, DraftShape, ApproveShape, DeliverShape, Kept

LEMMA JobKeepsShape ==
    ASSUME IInv, Kept, job' = job
    PROVE  JobShape'
  BY ApprovalsGrow DEF IInv, JobShape

\* The places of the handlers tell whom they serve, and with what.
LEMMA Serving ==
    ASSUME IInv, NEW c \in Clients
    PROVE  /\ call[c] \in Calls
           /\ call[c].at = "insert" => call[c].op = "draft" /\ call[c].body \in Bodies
           /\ call[c].at \in {"supersede", "approve", "rules", "start"} =>
                 /\ call[c].op = "approve"
                 /\ call[c].version \in DOMAIN versions
           /\ call[c].at = "rules" => call[c].body \in ApprovedBodies
           /\ call[c].at \in {"take", "replay", "read", "push"} =>
                 call[c].op = "deliver" /\ call[c].version \in EverApproved
           /\ call[c].at = "register" =>
                 call[c].version \in EverApproved /\ call[c].body \in ApprovedBodies
           /\ call[c].at = "push" => call[c].shape \in ApprovedBodies
<1>1. /\ call[c] \in Calls
      /\ call[c].op = "none" <=> call[c].at = "idle"
      /\ DraftShape(c) /\ ApproveShape(c) /\ DeliverShape(c)
      /\ call[c].op \in {"none", "draft", "approve", "deliver"}
  BY DEF IInv, TypeOK, CallShape, Calls
<1>2. \A v \in EverApproved : versions[v].body \in ApprovedBodies
  BY ApprovedBodiesAreBodies DEF IInv
<1> QED BY <1>1, <1>2 DEF DraftShape, ApproveShape, DeliverShape

LEMMA GotoTyped ==
    ASSUME IInv, NEW c \in Clients, NEW from, NEW to \in ClientSteps, Goto(c, from, to)
    PROVE  /\ call' \in [Clients -> Calls]
           /\ call[c].at = from
           /\ call'[c] = IF to = "idle" THEN Returned ELSE [call[c] EXCEPT !.at = to]
           /\ \A d \in Clients \ {c} : call'[d] = call[d]
<1>1. call \in [Clients -> Calls] /\ call[c] \in Calls /\ Returned \in Calls
  BY DEF IInv, TypeOK, Calls, ClientSteps, Returned
<1>2. [call[c] EXCEPT !.at = to] \in Calls
  BY <1>1 DEF Calls
<1>3. (IF to = "idle" THEN Returned ELSE [call[c] EXCEPT !.at = to]) \in Calls
  BY <1>1, <1>2
<1> QED BY <1>1, <1>3 DEF Goto

LEMMA CallTyped ==
    ASSUME IInv, NEW c \in Clients, NEW called \in Calls, call' = [call EXCEPT ![c] = called]
    PROVE  /\ call' \in [Clients -> Calls]
           /\ call'[c] = called
           /\ \A d \in Clients \ {c} : call'[d] = call[d]
  BY DEF IInv, TypeOK

\* The shapes of the handlers when c is the one that has moved.
LEMMA ShapesTogether ==
    ASSUME IInv, Kept, NEW c \in Clients,
           \A d \in Clients \ {c} : call'[d] = call[d],
           (call[c].op = "none" <=> call[c].at = "idle")',
           DraftShape(c)', ApproveShape(c)', DeliverShape(c)'
    PROVE  CallShape'
  BY OthersKeepShape DEF CallShape

LEMMA BeginDraftPreserves ==
    ASSUME IInv, Kept, NEW c \in Clients, NEW body \in Bodies, BeginDraft(c, body)
    PROVE  IInv'
<1>0. EverApproved \subseteq EverApproved' /\ ApprovedBodies \subseteq ApprovedBodies'
  BY ApprovalsGrow
<1>a. Called("insert", "draft", Len(versions) + 1, body) \in Calls
  BY RowsOfVersions DEF IInv, Calls, ClientSteps, Called, TypeOK, Rows
<1>b. /\ call' \in [Clients -> Calls]
      /\ \A d \in Clients \ {c} : call'[d] = call[d]
      /\ call'[c] = Called("insert", "draft", Len(versions) + 1, body)
  BY <1>a, CallTyped DEF BeginDraft
<1>1. TypeOK'
  BY <1>b DEF BeginDraft, IInv, TypeOK, database, memory, destination, views
<1>2. OnlyApprovedGoverns'
  BY <1>0 DEF BeginDraft, IInv, OnlyApprovedGoverns, database, memory, destination, views
<1>3. CallShape'
  BY <1>0, <1>b, ShapesTogether, RowsOfVersions, ApprovedBodiesAreBodies DEF BeginDraft, IInv, Called, DraftShape, ApproveShape, DeliverShape, IsInForce, Kept, database, memory, destination, views
<1>4. JobShape'
  BY JobKeepsShape DEF BeginDraft, database, memory, destination, views
<1> QED BY <1>1, <1>2, <1>3, <1>4 DEF IInv

LEMMA InsertDraftPreserves ==
    ASSUME IInv, Kept, NEW c \in Clients, InsertDraft(c)
    PROVE  IInv'
<1>0. EverApproved \subseteq EverApproved' /\ ApprovedBodies \subseteq ApprovedBodies'
  BY ApprovalsGrow
<1>a. /\ call' \in [Clients -> Calls]
      /\ \A d \in Clients \ {c} : call'[d] = call[d]
      /\ call'[c] = Returned
  BY GotoTyped, Serving DEF InsertDraft, ClientSteps, Goto
<1>b. [state |-> "draft", body |-> call[c].body] \in Rows
  BY Serving DEF InsertDraft, Goto, Rows
<1>c. versions' \in Seq(Rows)
  BY <1>b DEF InsertDraft, IInv, TypeOK
<1>1. TypeOK'
  BY <1>a, <1>c DEF InsertDraft, IInv, TypeOK, memory, destination, views
<1>2. OnlyApprovedGoverns'
  BY <1>0 DEF InsertDraft, IInv, OnlyApprovedGoverns, database, memory, destination, views
<1>3. CallShape'
  BY <1>0, <1>a, Serving, ShapesTogether DEF InsertDraft, Goto, IInv, CallShape, DraftShape, ApproveShape, DeliverShape, Kept, Returned, Calls
<1>4. JobShape'
  BY JobKeepsShape DEF InsertDraft, database, memory, destination, views
<1> QED BY <1>1, <1>2, <1>3, <1>4 DEF IInv

LEMMA BeginApprovePreserves ==
    ASSUME IInv, Kept, NEW c \in Clients, NEW version \in DOMAIN versions, BeginApprove(c, version)
    PROVE  IInv'
<1>0. EverApproved \subseteq EverApproved' /\ ApprovedBodies \subseteq ApprovedBodies'
  BY ApprovalsGrow
<1>a. Called("supersede", "approve", version, versions[version].body) \in Calls
  BY RowsOfVersions DEF IInv, Calls, ClientSteps, Called, TypeOK, Rows
<1>b. /\ call' \in [Clients -> Calls]
      /\ \A d \in Clients \ {c} : call'[d] = call[d]
      /\ call'[c] = Called("supersede", "approve", version, versions[version].body)
  BY <1>a, CallTyped DEF BeginApprove
<1>1. TypeOK'
  BY <1>b DEF BeginApprove, IInv, TypeOK, database, memory, destination, views
<1>2. OnlyApprovedGoverns'
  BY <1>0 DEF BeginApprove, IInv, OnlyApprovedGoverns, database, memory, destination, views
<1>3. CallShape'
  BY <1>0, <1>b, ShapesTogether, RowsOfVersions, ApprovedBodiesAreBodies DEF BeginApprove, IInv, Called, DraftShape, ApproveShape, DeliverShape, IsInForce, Kept, database, memory, destination, views
<1>4. JobShape'
  BY JobKeepsShape DEF BeginApprove, database, memory, destination, views
<1> QED BY <1>1, <1>2, <1>3, <1>4 DEF IInv

LEMMA SupersedeApprovedPreserves ==
    ASSUME IInv, Kept, NEW c \in Clients, SupersedeApproved(c)
    PROVE  IInv'
<1>0. EverApproved \subseteq EverApproved' /\ ApprovedBodies \subseteq ApprovedBodies'
  BY ApprovalsGrow
<1>a. /\ call' \in [Clients -> Calls]
      /\ \A d \in Clients \ {c} : call'[d] = call[d]
      /\ call'[c] = [call[c] EXCEPT !.at = "approve"]
  BY GotoTyped, Serving DEF SupersedeApproved, ClientSteps, Goto
<1>b. versions' \in Seq(Rows)
  <2>1. versions' \in [1..Len(versions) -> Rows] /\ Len(versions) \in Nat
    BY RowsOfVersions DEF IInv, SupersedeApproved, Rows
  <2> QED BY <2>1, RowsMakeVersions
<1>1. TypeOK'
  BY <1>a, <1>b DEF SupersedeApproved, IInv, TypeOK, database, memory, destination, views
<1>2. OnlyApprovedGoverns'
  BY <1>0 DEF SupersedeApproved, IInv, OnlyApprovedGoverns, database, memory, destination, views
<1>3. CallShape'
  BY <1>0, <1>a, Serving, ShapesTogether DEF SupersedeApproved, Goto, IInv, CallShape, DraftShape, ApproveShape, DeliverShape, Kept, Returned, Calls
<1>4. JobShape'
  BY JobKeepsShape DEF SupersedeApproved, database, memory, destination, views
<1> QED BY <1>1, <1>2, <1>3, <1>4 DEF IInv

LEMMA ApproveVersionPreserves ==
    ASSUME IInv, Kept, NEW c \in Clients, ApproveVersion(c)
    PROVE  IInv'
<1>0. EverApproved \subseteq EverApproved' /\ ApprovedBodies \subseteq ApprovedBodies'
  BY ApprovalsGrow
<1>a. /\ call' \in [Clients -> Calls]
      /\ \A d \in Clients \ {c} : call'[d] = call[d]
      /\ call'[c] = [call[c] EXCEPT !.at = "rules"]
  BY GotoTyped, Serving DEF ApproveVersion, ClientSteps, Goto
<1>b. versions' \in Seq(Rows) /\ versions'[call[c].version].state = "approved"
      /\ call[c].version \in DOMAIN versions'
  <2>1. call[c].version \in DOMAIN versions
    BY Serving DEF ApproveVersion, Goto
  <2>2. versions' \in [1..Len(versions) -> Rows] /\ Len(versions) \in Nat
    BY <2>1, RowsOfVersions DEF IInv, ApproveVersion, Rows
  <2>3. versions' \in Seq(Rows)
    BY <2>2, RowsMakeVersions
  <2>4. versions[call[c].version] \in Rows
    BY <2>1, RowsOfVersions DEF IInv
  <2>5. versions'[call[c].version].state = "approved" /\ call[c].version \in DOMAIN versions'
    BY <2>1, <2>4 DEF ApproveVersion, Rows
  <2> QED BY <2>3, <2>5
<1>c. call[c].version \in EverApproved'
  BY <1>b DEF EverApproved
<1>1. TypeOK'
  BY <1>a, <1>b DEF ApproveVersion, IInv, TypeOK, database, memory, destination, views
<1>2. OnlyApprovedGoverns'
  BY <1>0 DEF ApproveVersion, IInv, OnlyApprovedGoverns, database, memory, destination, views
<1>3. CallShape'
  BY <1>0, <1>a, Serving, ShapesTogether, <1>c DEF ApproveVersion, Goto, IInv, CallShape, DraftShape, ApproveShape, DeliverShape, Kept, Returned, Calls
<1>4. JobShape'
  BY JobKeepsShape DEF ApproveVersion, database, memory, destination, views
<1> QED BY <1>1, <1>2, <1>3, <1>4 DEF IInv

LEMMA SetRunSchemaPreserves ==
    ASSUME IInv, Kept, NEW c \in Clients, SetRunSchema(c)
    PROVE  IInv'
<1>0. EverApproved \subseteq EverApproved' /\ ApprovedBodies \subseteq ApprovedBodies'
  BY ApprovalsGrow
<1>a. /\ call' \in [Clients -> Calls]
      /\ \A d \in Clients \ {c} : call'[d] = call[d]
      /\ call'[c] = [call[c] EXCEPT !.at = "register"]
  BY GotoTyped, Serving DEF SetRunSchema, ClientSteps, Goto
<1>b. call[c].body \in ApprovedBodies
  BY Serving DEF SetRunSchema, Goto
<1>1. TypeOK'
  BY <1>a, <1>b, ApprovedBodiesAreBodies DEF SetRunSchema, IInv, TypeOK, database, memory, destination, views
<1>2. OnlyApprovedGoverns'
  BY <1>0, <1>b DEF SetRunSchema, IInv, OnlyApprovedGoverns, database, memory, destination, views
<1>3. CallShape'
  BY <1>0, <1>a, Serving, ShapesTogether DEF SetRunSchema, Goto, IInv, CallShape, DraftShape, ApproveShape, DeliverShape, Kept, Returned, Calls
<1>4. JobShape'
  BY JobKeepsShape DEF SetRunSchema, database, memory, destination, views
<1> QED BY <1>1, <1>2, <1>3, <1>4 DEF IInv

LEMMA RegisterPreserves ==
    ASSUME IInv, Kept, NEW c \in Clients, Register(c)
    PROVE  IInv'
<1>0. EverApproved \subseteq EverApproved' /\ ApprovedBodies \subseteq ApprovedBodies'
  BY ApprovalsGrow
<1>a. /\ call' \in [Clients -> Calls]
      /\ \A d \in Clients \ {c} : call'[d] = call[d]
      /\ call'[c] = [call[c] EXCEPT !.at = IF call[c].op = "approve" THEN "invalidate" ELSE "push"]
  BY GotoTyped, Serving DEF Register, ClientSteps, Goto
<1>b. call[c].version \in EverApproved /\ call[c].body \in ApprovedBodies
  BY Serving DEF Register, Goto
<1>1. TypeOK'
  BY <1>a, <1>b, RegistrationsApproved DEF Register, IInv, TypeOK, database, memory, destination, views
<1>2. OnlyApprovedGoverns'
  BY <1>0, <1>b, RegistrationsApproved DEF Register, IInv, OnlyApprovedGoverns, database, memory, destination, views
<1>3. CallShape'
  BY <1>0, <1>a, Serving, ShapesTogether DEF Register, Goto, IInv, CallShape, DraftShape, ApproveShape, DeliverShape, Kept, Returned, Calls
<1>4. JobShape'
  BY JobKeepsShape DEF Register, database, memory, destination, views
<1> QED BY <1>1, <1>2, <1>3, <1>4 DEF IInv

LEMMA RegisterFailsPreserves ==
    ASSUME IInv, Kept, NEW c \in Clients, RegisterFails(c)
    PROVE  IInv'
<1>0. EverApproved \subseteq EverApproved' /\ ApprovedBodies \subseteq ApprovedBodies'
  BY ApprovalsGrow
<1>a. /\ call' \in [Clients -> Calls]
      /\ \A d \in Clients \ {c} : call'[d] = call[d]
      /\ call'[c] = Returned
  BY GotoTyped, Serving DEF RegisterFails, ClientSteps, Goto
<1>1. TypeOK'
  BY <1>a DEF RegisterFails, IInv, TypeOK, database, memory, destination, views
<1>2. OnlyApprovedGoverns'
  BY <1>0 DEF RegisterFails, IInv, OnlyApprovedGoverns, database, memory, destination, views
<1>3. CallShape'
  BY <1>0, <1>a, Serving, ShapesTogether DEF RegisterFails, Goto, IInv, CallShape, DraftShape, ApproveShape, DeliverShape, Kept, Returned, Calls
<1>4. JobShape'
  BY JobKeepsShape DEF RegisterFails, database, memory, destination, views
<1> QED BY <1>1, <1>2, <1>3, <1>4 DEF IInv

LEMMA InvalidatePreserves ==
    ASSUME IInv, Kept, NEW c \in Clients, Invalidate(c)
    PROVE  IInv'
<1>0. EverApproved \subseteq EverApproved' /\ ApprovedBodies \subseteq ApprovedBodies'
  BY ApprovalsGrow
<1>a. /\ call' \in [Clients -> Calls]
      /\ \A d \in Clients \ {c} : call'[d] = call[d]
      /\ call'[c] = [call[c] EXCEPT !.at = "clear"]
  BY GotoTyped, Serving DEF Invalidate, ClientSteps, Goto
<1>1. TypeOK'
  BY <1>a DEF Invalidate, IInv, TypeOK, database, memory, destination, views
<1>2. OnlyApprovedGoverns'
  BY <1>0 DEF Invalidate, IInv, OnlyApprovedGoverns, database, memory, destination, views
<1>3. CallShape'
  BY <1>0, <1>a, Serving, ShapesTogether DEF Invalidate, Goto, IInv, CallShape, DraftShape, ApproveShape, DeliverShape, Kept, Returned, Calls
<1>4. JobShape'
  BY JobKeepsShape DEF Invalidate, database, memory, destination, views
<1> QED BY <1>1, <1>2, <1>3, <1>4 DEF IInv

LEMMA ClearSnapshotPreserves ==
    ASSUME IInv, Kept, NEW c \in Clients, ClearSnapshot(c)
    PROVE  IInv'
<1>0. EverApproved \subseteq EverApproved' /\ ApprovedBodies \subseteq ApprovedBodies'
  BY ApprovalsGrow
<1>a. /\ call' \in [Clients -> Calls]
      /\ \A d \in Clients \ {c} : call'[d] = call[d]
      /\ call'[c] = IF call[c].op = "approve" THEN [call[c] EXCEPT !.at = "start"] ELSE Returned
  BY GotoTyped, Serving DEF ClearSnapshot, ClientSteps, Goto
<1>1. TypeOK'
  BY <1>a DEF ClearSnapshot, IInv, TypeOK, Snapshots, NoSnapshot, database, memory, destination, views
<1>2. OnlyApprovedGoverns'
  BY <1>0 DEF ClearSnapshot, NoSnapshot, IInv, OnlyApprovedGoverns, database, memory, destination, views
<1>3. CallShape'
  BY <1>0, <1>a, Serving, ShapesTogether DEF ClearSnapshot, Goto, IInv, CallShape, DraftShape, ApproveShape, DeliverShape, Kept, Returned, Calls
<1>4. JobShape'
  BY JobKeepsShape DEF ClearSnapshot, database, memory, destination, views
<1> QED BY <1>1, <1>2, <1>3, <1>4 DEF IInv

LEMMA StartJobPreserves ==
    ASSUME IInv, Kept, NEW c \in Clients, StartJob(c)
    PROVE  IInv'
<1>0. EverApproved \subseteq EverApproved' /\ ApprovedBodies \subseteq ApprovedBodies'
  BY ApprovalsGrow
<1>a. /\ call' \in [Clients -> Calls]
      /\ \A d \in Clients \ {c} : call'[d] = call[d]
      /\ call'[c] = Returned
  BY GotoTyped, Serving DEF StartJob, ClientSteps, Goto
<1>b. Started \in Jobs /\ Started.shape \in {job.shape, NoBody}
  BY DEF Started, NoJob, Jobs, IInv, TypeOK
<1>1. TypeOK'
  BY <1>a, <1>b DEF StartJob, IInv, TypeOK, database, memory, destination, views
<1>2. OnlyApprovedGoverns'
  BY <1>0, <1>b DEF StartJob, IInv, OnlyApprovedGoverns, database, memory, destination, views
<1>3. CallShape'
  BY <1>0, <1>a, Serving, ShapesTogether DEF StartJob, Goto, IInv, CallShape, DraftShape, ApproveShape, DeliverShape, Kept, Returned, Calls
<1>4. JobShape'
  BY <1>0 DEF StartJob, Started, NoJob, JobShape, IInv, database, memory, destination, views
<1> QED BY <1>1, <1>2, <1>3, <1>4 DEF IInv

LEMMA BeginDeliverPreserves ==
    ASSUME IInv, Kept, NEW c \in Clients, NEW version \in DOMAIN versions, NEW keep \in BOOLEAN, BeginDeliver(c, version, keep)
    PROVE  IInv'
<1>0. EverApproved \subseteq EverApproved' /\ ApprovedBodies \subseteq ApprovedBodies'
  BY ApprovalsGrow
<1>a. Called("take", "deliver", version, NoBody) \in Calls
  BY RowsOfVersions DEF IInv, Calls, ClientSteps, Called, TypeOK, Rows
<1>b. /\ call' \in [Clients -> Calls]
      /\ \A d \in Clients \ {c} : call'[d] = call[d]
      /\ call'[c] = Called("take", "deliver", version, NoBody)
  BY <1>a, CallTyped DEF BeginDeliver
<1>1. TypeOK'
  BY <1>b DEF BeginDeliver, IInv, TypeOK, database, memory, destination, views
<1>2. OnlyApprovedGoverns'
  BY <1>0 DEF BeginDeliver, IInv, OnlyApprovedGoverns, database, memory, destination, views
<1>3. CallShape'
  BY <1>0, <1>b, ShapesTogether, RowsOfVersions, ApprovedBodiesAreBodies DEF BeginDeliver, IInv, Called, DraftShape, ApproveShape, DeliverShape, IsInForce, Kept, database, memory, destination, views
<1>4. JobShape'
  BY JobKeepsShape DEF BeginDeliver, database, memory, destination, views
<1> QED BY <1>1, <1>2, <1>3, <1>4 DEF IInv

LEMMA TakeResultPreserves ==
    ASSUME IInv, Kept, NEW c \in Clients, TakeResult(c)
    PROVE  IInv'
<1>0. EverApproved \subseteq EverApproved' /\ ApprovedBodies \subseteq ApprovedBodies'
  BY ApprovalsGrow
<1>a. call[c] \in Calls /\ runSchema \in Bodies \union {NoBody} /\ result \in Bodies \union {NoBody}
  BY Serving DEF IInv, TypeOK
<1>b. /\ call' \in [Clients -> Calls]
      /\ \A d \in Clients \ {c} : call'[d] = call[d]
      /\ call'[c] = [call[c] EXCEPT !.at = IF result = NoBody THEN "replay" ELSE "read", !.shape = result]
  BY <1>a DEF TakeResult, IInv, TypeOK, Calls, ClientSteps, Returned
<1>1. TypeOK'
  BY <1>b DEF TakeResult, IInv, TypeOK, database, memory, destination, views
<1>2. OnlyApprovedGoverns'
  BY <1>0 DEF TakeResult, IInv, OnlyApprovedGoverns, database, memory, destination, views
<1>3. CallShape'
  BY <1>0, <1>b, Serving, ShapesTogether DEF TakeResult, IInv, OnlyApprovedGoverns, CallShape, DraftShape, ApproveShape, DeliverShape, Returned, Calls
<1>4. JobShape'
  BY JobKeepsShape DEF TakeResult, database, memory, destination, views
<1> QED BY <1>1, <1>2, <1>3, <1>4 DEF IInv

LEMMA ReplayItselfPreserves ==
    ASSUME IInv, Kept, NEW c \in Clients, ReplayItself(c)
    PROVE  IInv'
<1>0. EverApproved \subseteq EverApproved' /\ ApprovedBodies \subseteq ApprovedBodies'
  BY ApprovalsGrow
<1>a. call[c] \in Calls /\ runSchema \in Bodies \union {NoBody} /\ result \in Bodies \union {NoBody}
  BY Serving DEF IInv, TypeOK
<1>b. /\ call' \in [Clients -> Calls]
      /\ \A d \in Clients \ {c} : call'[d] = call[d]
      /\ call'[c] = IF runSchema = NoBody THEN Returned ELSE [call[c] EXCEPT !.at = "read", !.shape = runSchema]
  BY <1>a DEF ReplayItself, IInv, TypeOK, Calls, ClientSteps, Returned
<1>1. TypeOK'
  BY <1>b DEF ReplayItself, IInv, TypeOK, database, memory, destination, views
<1>2. OnlyApprovedGoverns'
  BY <1>0 DEF ReplayItself, IInv, OnlyApprovedGoverns, database, memory, destination, views
<1>3. CallShape'
  BY <1>0, <1>b, Serving, ShapesTogether DEF ReplayItself, IInv, OnlyApprovedGoverns, CallShape, DraftShape, ApproveShape, DeliverShape, Returned, Calls
<1>4. JobShape'
  BY JobKeepsShape DEF ReplayItself, database, memory, destination, views
<1> QED BY <1>1, <1>2, <1>3, <1>4 DEF IInv

LEMMA ReadRulesPreserves ==
    ASSUME IInv, Kept, NEW c \in Clients, ReadRules(c)
    PROVE  IInv'
<1>0. EverApproved \subseteq EverApproved' /\ ApprovedBodies \subseteq ApprovedBodies'
  BY ApprovalsGrow
<1>a. call[c] \in Calls /\ runSchema \in Bodies \union {NoBody} /\ result \in Bodies \union {NoBody}
  BY Serving DEF IInv, TypeOK
<1>b. /\ call' \in [Clients -> Calls]
      /\ \A d \in Clients \ {c} : call'[d] = call[d]
      /\ call'[c] = IF runSchema = NoBody THEN Returned ELSE [call[c] EXCEPT !.at = "register", !.body = runSchema]
  BY <1>a DEF ReadRules, IInv, TypeOK, Calls, ClientSteps, Returned
<1>1. TypeOK'
  BY <1>b DEF ReadRules, IInv, TypeOK, database, memory, destination, views
<1>2. OnlyApprovedGoverns'
  BY <1>0 DEF ReadRules, IInv, OnlyApprovedGoverns, database, memory, destination, views
<1>3. CallShape'
  BY <1>0, <1>b, Serving, ShapesTogether DEF ReadRules, IInv, OnlyApprovedGoverns, CallShape, DraftShape, ApproveShape, DeliverShape, Returned, Calls
<1>4. JobShape'
  BY JobKeepsShape DEF ReadRules, database, memory, destination, views
<1> QED BY <1>1, <1>2, <1>3, <1>4 DEF IInv

LEMMA PushPreserves ==
    ASSUME IInv, Kept, NEW c \in Clients, Push(c)
    PROVE  IInv'
<1>0. EverApproved \subseteq EverApproved' /\ ApprovedBodies \subseteq ApprovedBodies'
  BY ApprovalsGrow
<1>a. /\ call' \in [Clients -> Calls]
      /\ \A d \in Clients \ {c} : call'[d] = call[d]
      /\ call'[c] = [call[c] EXCEPT !.at = "invalidate"]
  BY GotoTyped, Serving DEF Push, ClientSteps, Goto
<1>b. call[c].version \in EverApproved /\ call[c].shape \in ApprovedBodies
  BY Serving DEF Push, Goto
<1>1. TypeOK'
  BY <1>a, <1>b, SendingsApproved DEF Push, Pushes, IInv, TypeOK, PollCalls, Snapshots, NoSnapshot, database, memory, destination, views
<1>2. OnlyApprovedGoverns'
  BY <1>0, <1>b, SendingsApproved DEF Push, Pushes, NoSnapshot, IInv, TypeOK, PollCalls, OnlyApprovedGoverns, database, memory, destination, views
<1>3. CallShape'
  BY <1>0, <1>a, Serving, ShapesTogether DEF Push, Goto, IInv, CallShape, DraftShape, ApproveShape, DeliverShape, Kept, Returned, Calls
<1>4. JobShape'
  BY JobKeepsShape DEF Push, database, memory, destination, views
<1> QED BY <1>1, <1>2, <1>3, <1>4 DEF IInv

LEMMA PollPreserves ==
    ASSUME IInv, Kept, BeginPoll \/ PollStep
    PROVE  IInv'
<1>0. EverApproved \subseteq EverApproved' /\ ApprovedBodies \subseteq ApprovedBodies'
  BY ApprovalsGrow
<1>a. /\ poll \in PollCalls /\ job \in Jobs
      /\ \A v \in DOMAIN versions : v \in Nat
  BY RowsOfVersions DEF IInv, TypeOK
<1>b. UNCHANGED <<versions, runSchema, autoSend, result, registered, sent, call>>
  BY DEF BeginPoll, PollStep, PollStarts, PollGivesUp, PollTakesResult, PollSaves, database, memory, destination
<1>c. job' \in {job, Started}
  BY DEF BeginPoll, PollStep, PollStarts, PollGivesUp, PollTakesResult, PollSaves, memory
<1>d. /\ poll' \in PollCalls
      /\ poll'.shape \in {NoBody, poll.shape, result}
  <2>1. CASE BeginPoll
    BY <1>a, <2>1 DEF BeginPoll, PollCalls, NoPoll
  <2>2. CASE PollTakesResult
    BY <1>a, <2>2 DEF PollTakesResult, PollCalls, IInv, TypeOK
  <2>3. CASE PollStarts \/ PollGivesUp \/ PollSaves
    BY <1>a, <2>3 DEF PollStarts, PollGivesUp, PollSaves, PollCalls, NoPoll
  <2>4. QED
    BY <2>1, <2>2, <2>3 DEF PollStep
<1>e. /\ snapshot' \in Snapshots
      /\ snapshot'.shape \in {NoBody, poll.shape, snapshot.shape}
  <2>1. CASE PollSaves
    BY <1>a, <2>1 DEF PollSaves, Snapshots, NoSnapshot, PollCalls
  <2>2. CASE ~PollSaves
    BY <2>2 DEF BeginPoll, PollStep, PollStarts, PollGivesUp, PollTakesResult, IInv, TypeOK
  <2>3. QED
    BY <2>1, <2>2
<1>f. Started \in Jobs /\ Started.shape \in {job.shape, NoBody}
  BY <1>a DEF Started, NoJob, Jobs
<1>1. TypeOK'
  BY <1>a, <1>b, <1>c, <1>d, <1>e, <1>f DEF IInv, TypeOK
<1>2. OnlyApprovedGoverns'
  BY <1>0, <1>b, <1>c, <1>d, <1>e, <1>f DEF IInv, OnlyApprovedGoverns
<1>3. CallShape'
  BY <1>b, OthersKeepShape DEF CallShape
<1>4. JobShape'
  BY <1>0, <1>c DEF IInv, JobShape, Started, NoJob
<1> QED BY <1>1, <1>2, <1>3, <1>4 DEF IInv

LEMMA JobReplaysPreserves ==
    ASSUME IInv, Kept, JobReplays
    PROVE  IInv'
<1>0. EverApproved \subseteq EverApproved' /\ ApprovedBodies \subseteq ApprovedBodies'
  BY ApprovalsGrow
<1>1. TypeOK'
  BY DEF JobReplays, IInv, TypeOK, Jobs, NoJob, Started, database, memory, destination, views
<1>2. OnlyApprovedGoverns'
  BY <1>0 DEF JobReplays, IInv, TypeOK, Jobs, OnlyApprovedGoverns, JobShape, Started, NoJob, database, memory, destination, views
<1>3. CallShape'
  BY OthersKeepShape DEF JobReplays, CallShape
<1>4. JobShape'
  BY <1>0 DEF JobReplays, IInv, TypeOK, JobShape, Jobs, NoJob, Started, OnlyApprovedGoverns, database, memory, destination, views
<1> QED BY <1>1, <1>2, <1>3, <1>4 DEF IInv

LEMMA JobReadsRunPreserves ==
    ASSUME IInv, Kept, JobReadsRun
    PROVE  IInv'
<1>0. EverApproved \subseteq EverApproved' /\ ApprovedBodies \subseteq ApprovedBodies'
  BY ApprovalsGrow
<1>1. TypeOK'
  BY DEF JobReadsRun, IInv, TypeOK, Jobs, NoJob, Started, database, memory, destination, views
<1>b. job'.shape = job.shape /\ UNCHANGED <<runSchema, result, registered, sent, snapshot, poll>>
  BY DEF JobReadsRun, IInv, TypeOK, Jobs, database, destination, views
<1>2. OnlyApprovedGoverns'
  BY <1>0, <1>b DEF IInv, OnlyApprovedGoverns
<1>3. CallShape'
  BY OthersKeepShape DEF JobReadsRun, CallShape
<1>4. JobShape'
  BY <1>0 DEF JobReadsRun, IInv, TypeOK, JobShape, Jobs, NoJob, Started, OnlyApprovedGoverns, database, memory, destination, views
<1> QED BY <1>1, <1>2, <1>3, <1>4 DEF IInv

LEMMA JobReadsApprovedPreserves ==
    ASSUME IInv, Kept, JobReadsApproved
    PROVE  IInv'
<1>0. EverApproved \subseteq EverApproved' /\ ApprovedBodies \subseteq ApprovedBodies'
  BY ApprovalsGrow
<1>a. /\ job \in Jobs
      /\ \A v \in DOMAIN versions : v \in Nat /\ (IsInForce(v) => v \in EverApproved)
  BY RowsOfVersions, ApprovedBodiesAreBodies DEF IInv, TypeOK, IsInForce
<1>1. TypeOK'
  BY <1>a DEF JobReadsApproved, IInv, TypeOK, Jobs, NoJob, Started, database, memory, destination, views
<1>b. job'.shape = job.shape /\ UNCHANGED <<runSchema, result, registered, sent, snapshot, poll>>
  BY DEF JobReadsApproved, IInv, TypeOK, Jobs, database, destination, views
<1>2. OnlyApprovedGoverns'
  BY <1>0, <1>b DEF IInv, OnlyApprovedGoverns
<1>3. CallShape'
  BY OthersKeepShape DEF JobReadsApproved, CallShape
<1>4. JobShape'
  BY <1>0, <1>a DEF JobReadsApproved, IInv, TypeOK, JobShape, Jobs, NoJob, Started, OnlyApprovedGoverns, database, memory, destination, views
<1> QED BY <1>1, <1>2, <1>3, <1>4 DEF IInv

LEMMA JobRegistersPreserves ==
    ASSUME IInv, Kept, JobRegisters
    PROVE  IInv'
<1>0. EverApproved \subseteq EverApproved' /\ ApprovedBodies \subseteq ApprovedBodies'
  BY ApprovalsGrow
<1>a. job.version \in EverApproved /\ job.body \in ApprovedBodies
  BY DEF JobRegisters, IInv, JobShape
<1>1. TypeOK'
  BY <1>a, RegistrationsApproved DEF JobRegisters, IInv, TypeOK, Jobs, NoJob, Started, database, memory, destination, views
<1>2. OnlyApprovedGoverns'
  BY <1>0, <1>a, RegistrationsApproved DEF JobRegisters, IInv, TypeOK, Jobs, OnlyApprovedGoverns, JobShape, Started, NoJob, database, memory, destination, views
<1>3. CallShape'
  BY OthersKeepShape DEF JobRegisters, CallShape
<1>4. JobShape'
  BY <1>0, <1>a DEF JobRegisters, IInv, TypeOK, JobShape, Jobs, NoJob, Started, OnlyApprovedGoverns, database, memory, destination, views
<1> QED BY <1>1, <1>2, <1>3, <1>4 DEF IInv

LEMMA JobRegisterFailsPreserves ==
    ASSUME IInv, Kept, JobRegisterFails
    PROVE  IInv'
<1>0. EverApproved \subseteq EverApproved' /\ ApprovedBodies \subseteq ApprovedBodies'
  BY ApprovalsGrow
<1>1. TypeOK'
  BY DEF JobRegisterFails, IInv, TypeOK, Jobs, NoJob, Started, database, memory, destination, views
<1>2. OnlyApprovedGoverns'
  BY <1>0 DEF JobRegisterFails, IInv, TypeOK, Jobs, OnlyApprovedGoverns, JobShape, Started, NoJob, database, memory, destination, views
<1>3. CallShape'
  BY OthersKeepShape DEF JobRegisterFails, CallShape
<1>4. JobShape'
  BY <1>0 DEF JobRegisterFails, IInv, TypeOK, JobShape, Jobs, NoJob, Started, OnlyApprovedGoverns, database, memory, destination, views
<1> QED BY <1>1, <1>2, <1>3, <1>4 DEF IInv

LEMMA JobPushesPreserves ==
    ASSUME IInv, Kept, JobPushes
    PROVE  IInv'
<1>0. EverApproved \subseteq EverApproved' /\ ApprovedBodies \subseteq ApprovedBodies'
  BY ApprovalsGrow
<1>a. job.version \in EverApproved /\ job.shape \in ApprovedBodies
  BY DEF JobPushes, IInv, JobShape
<1>1. TypeOK'
  BY <1>a, SendingsApproved DEF JobPushes, Pushes, IInv, TypeOK, PollCalls, Snapshots, NoSnapshot, Jobs, NoJob, Started, database, memory, destination, views
<1>2. OnlyApprovedGoverns'
  BY <1>0, <1>a, SendingsApproved DEF JobPushes, Pushes, NoSnapshot, IInv, TypeOK, PollCalls, Jobs, OnlyApprovedGoverns, JobShape, Started, NoJob, database, memory, destination, views
<1>3. CallShape'
  BY OthersKeepShape DEF JobPushes, CallShape
<1>4. JobShape'
  BY <1>0, <1>a DEF JobPushes, IInv, TypeOK, JobShape, Jobs, NoJob, Started, OnlyApprovedGoverns, database, memory, destination, views
<1> QED BY <1>1, <1>2, <1>3, <1>4 DEF IInv

LEMMA JobStoresPreserves ==
    ASSUME IInv, Kept, JobStores
    PROVE  IInv'
<1>0. EverApproved \subseteq EverApproved' /\ ApprovedBodies \subseteq ApprovedBodies'
  BY ApprovalsGrow
<1>1. TypeOK'
  BY DEF JobStores, IInv, TypeOK, Jobs, NoJob, Started, database, memory, destination, views
<1>2. OnlyApprovedGoverns'
  BY <1>0 DEF JobStores, IInv, TypeOK, Jobs, OnlyApprovedGoverns, JobShape, Started, NoJob, database, memory, destination, views
<1>3. CallShape'
  BY OthersKeepShape DEF JobStores, CallShape
<1>4. JobShape'
  BY <1>0 DEF JobStores, IInv, TypeOK, JobShape, Jobs, NoJob, Started, OnlyApprovedGoverns, database, memory, destination, views
<1> QED BY <1>1, <1>2, <1>3, <1>4 DEF IInv

LEMMA ApiRestartsPreserves ==
    ASSUME IInv, Kept, ApiRestarts
    PROVE  IInv'
<1>0. EverApproved \subseteq EverApproved' /\ ApprovedBodies \subseteq ApprovedBodies'
  BY ApprovalsGrow
<1>1. TypeOK'
  BY DEF ApiRestarts, IInv, TypeOK, PollCalls, NoPoll, Jobs, NoJob, Calls, ClientSteps, Returned, database, memory, destination, views
<1>2. OnlyApprovedGoverns'
  BY <1>0 DEF ApiRestarts, NoPoll, IInv, OnlyApprovedGoverns, NoJob, database, memory, destination, views
<1>3. CallShape' /\ JobShape'
  BY DEF ApiRestarts, CallShape, DraftShape, ApproveShape, DeliverShape, JobShape, Returned, NoJob
<1> QED BY <1>1, <1>2, <1>3 DEF IInv

LEMMA InvariantKept ==
    ASSUME IInv, [Next]_vars
    PROVE  IInv'
<1>0. Kept
  BY StepsKeepVersions
<1>1. CASE \E c \in Clients : Ask(c)
  BY <1>0, <1>1, BeginDraftPreserves, BeginApprovePreserves, BeginDeliverPreserves DEF Ask
<1>2. ASSUME NEW c \in Clients, ClientStep(c) PROVE IInv'
  BY <1>0, <1>2, InsertDraftPreserves, SupersedeApprovedPreserves, ApproveVersionPreserves,
     SetRunSchemaPreserves, StartJobPreserves, TakeResultPreserves, ReplayItselfPreserves,
     ReadRulesPreserves, PushPreserves, RegisterPreserves, InvalidatePreserves,
     ClearSnapshotPreserves
     DEF Forgetting, ClientStep, Approving, Delivering
<1>3. CASE JobStep \/ BeginPoll \/ PollStep
  BY <1>0, <1>3, PollPreserves, JobReplaysPreserves, JobReadsRunPreserves,
     JobReadsApprovedPreserves, JobRegistersPreserves, JobPushesPreserves, JobStoresPreserves
     DEF JobStep
<1>4. CASE Outage
  BY <1>0, <1>4, RegisterFailsPreserves, JobRegisterFailsPreserves DEF Outage
<1>5. CASE ApiRestarts
  BY <1>0, <1>5, ApiRestartsPreserves
<1>6. CASE UNCHANGED vars
  BY <1>6 DEF vars, IInv, TypeOK, OnlyApprovedGoverns, CallShape, DraftShape, ApproveShape,
     DeliverShape, JobShape, EverApproved, ApprovedBodies
<1> QED BY <1>1, <1>2, <1>3, <1>4, <1>5, <1>6 DEF Next

\* Whatever a run is processed with, whatever is registered and sent, and under
\* whatever version, somebody approved it (main.py, approve_schema, deliver).
THEOREM OnlyApprovedAlwaysGoverns == Spec => []OnlyApprovedGoverns
<1>1. Init => IInv
  BY InitiallyApproved
<1>2. IInv /\ [Next]_vars => IInv'
  BY InvariantKept
<1>3. IInv => OnlyApprovedGoverns
  BY DEF IInv
<1> QED BY <1>1, <1>2, <1>3, PTL DEF Spec

\* The variables keep their types.
THEOREM TypeCorrect == Spec => []TypeOK
<1>1. Init => IInv
  BY InitiallyApproved
<1>2. IInv /\ [Next]_vars => IInv'
  BY InvariantKept
<1>3. IInv => TypeOK
  BY DEF IInv
<1> QED BY <1>1, <1>2, <1>3, PTL DEF Spec

\* No version is ever edited (store.py, add_schema_version).
THEOREM VersionsAlwaysKept == Spec => VersionsKept
<1>1. Init => IInv
  BY InitiallyApproved
<1>2. IInv /\ [Next]_vars => IInv'
  BY InvariantKept
<1>3. IInv /\ [Next]_vars => [Kept]_versions
  BY StepsKeepVersions
<1> QED BY <1>1, <1>2, <1>3, PTL DEF Spec, VersionsKept, Kept

-----------------------------------------------------------------------------
(***************************************************************************)
(* Approvals that do not overlap leave one version approved, wherever they *)
(* are cut short: an approval supersedes before it approves, and what it   *)
(* has done so far is still so at its next step.                           *)
(***************************************************************************)

\* What is assumed of every state: no two handlers approve.
OneApproval ==
    \A c, d \in Clients : call[c].op = "approve" /\ call[d].op = "approve" => c = d

ApprovalOf(c) ==
    call[c].op = "approve" =>
        /\ call[c].at = "approve" => Approvals = {}
        /\ call[c].at \in {"rules", "register", "invalidate", "clear", "start"} =>
              Approvals = {call[c].version}
        /\ call[c].at \in {"register", "invalidate", "clear", "start"} => runSchema = call[c].body
ApprovalInv ==
    /\ \A c \in Clients : ApprovalOf(c)
    /\ \A v, w \in Approvals : v = w

\* Most steps leave what is approved alone, and no approval half done but one
\* that goes from the destination's rules to the result, and on to the job.
StaysApproving(c) ==
    \/ call'[c] = call[c]
    \/ call'[c].op # "approve"
    \/ call'[c].at = "supersede"
    \/ /\ call[c].at \in {"register", "invalidate", "clear"}
       /\ call'[c].at \in {"invalidate", "clear", "start"}
       /\ call'[c].op = call[c].op
       /\ call'[c].version = call[c].version /\ call'[c].body = call[c].body
Quiet ==
    /\ Approvals' = Approvals /\ runSchema' = runSchema
    /\ \A c \in Clients : StaysApproving(c)

LEMMA QuietStep ==
    ASSUME IInv, [Next]_vars
    PROVE  \/ Quiet
           \/ \E c \in Clients : SupersedeApproved(c) \/ ApproveVersion(c) \/ SetRunSchema(c)
<1>1. /\ call \in [Clients -> Calls]
      /\ \A c \in Clients : call[c] \in Calls
      /\ DOMAIN versions = 1..Len(versions) /\ Len(versions) \in Nat
  BY RowsOfVersions DEF IInv, TypeOK
<1>2. ASSUME versions' = versions PROVE Approvals' = Approvals
  BY <1>2 DEF Approvals, IsApproved
<1>3. ASSUME UNCHANGED <<versions, runSchema, call>> PROVE Quiet
  BY <1>2, <1>3 DEF Quiet, StaysApproving
<1>4. ASSUME NEW c \in Clients, UNCHANGED <<versions, runSchema>>, StaysApproving(c),
             \A d \in Clients \ {c} : call'[d] = call[d]
      PROVE  Quiet
  BY <1>2, <1>4 DEF Quiet, StaysApproving
<1>5. ASSUME NEW c \in Clients, Ask(c) PROVE Quiet
  <2>1. /\ UNCHANGED <<versions, runSchema>>
        /\ call'[c].op # "approve" \/ call'[c].at = "supersede"
        /\ \A d \in Clients \ {c} : call'[d] = call[d]
    BY <1>1, <1>5 DEF Ask, BeginDraft, BeginApprove, BeginDeliver, Called, database
  <2>2. QED
    BY <1>4, <2>1 DEF StaysApproving
<1>6. ASSUME NEW c \in Clients, InsertDraft(c) PROVE Quiet
  <2>1. Approvals' = Approvals
    BY <1>1, <1>6 DEF InsertDraft, Approvals, IsApproved, IInv, TypeOK
  <2>2. /\ runSchema' = runSchema /\ call'[c] = Returned
        /\ \A d \in Clients \ {c} : call'[d] = call[d]
    BY <1>1, <1>6 DEF InsertDraft, Goto
  <2>3. \A d \in Clients : StaysApproving(d)
    BY <2>2 DEF StaysApproving, Returned
  <2>4. QED
    BY <2>1, <2>2, <2>3 DEF Quiet
<1>7. ASSUME NEW c \in Clients, Delivering(c) PROVE Quiet
  <2>1. call[c].op = "deliver"
    BY <1>7, Serving DEF Delivering, TakeResult, ReplayItself, ReadRules, Push, Goto
  <2>2. call'[c].op # "approve" /\ \A d \in Clients \ {c} : call'[d] = call[d]
    <3>1. CASE TakeResult(c)
      BY <1>1, <2>1, <3>1 DEF TakeResult, Calls
    <3>2. CASE ReplayItself(c)
      BY <1>1, <2>1, <3>2 DEF ReplayItself, Returned, Calls
    <3>3. CASE ReadRules(c)
      BY <1>1, <2>1, <3>3 DEF ReadRules, Returned, Calls
    <3>4. CASE Push(c)
      BY <1>1, <2>1, <3>4 DEF Push, Goto, Calls
    <3>5. QED
      BY <1>7, <3>1, <3>2, <3>3, <3>4 DEF Delivering
  <2>3. UNCHANGED <<versions, runSchema>>
    BY <1>7 DEF Delivering, TakeResult, ReplayItself, ReadRules, Push, database
  <2>4. QED
    BY <1>4, <2>2, <2>3 DEF StaysApproving
<1>8. ASSUME NEW c \in Clients,
             Register(c) \/ RegisterFails(c) \/ Forgetting(c) \/ StartJob(c)
      PROVE  Quiet
  <2>1. UNCHANGED <<versions, runSchema>> /\ \A d \in Clients \ {c} : call'[d] = call[d]
    BY <1>1, <1>8 DEF Register, RegisterFails, Forgetting, Invalidate, ClearSnapshot, StartJob, Goto,
       database
  <2>2. StaysApproving(c)
    <3>1. CASE call'[c] = Returned
      BY <3>1 DEF StaysApproving, Returned
    <3>2. CASE call'[c] # Returned
      BY <1>1, <1>8, <3>2 DEF Register, RegisterFails, Forgetting, Invalidate, ClearSnapshot,
         StartJob, Goto, Calls,
         StaysApproving
    <3>3. QED
      BY <3>1, <3>2
  <2>3. QED
    BY <1>4, <2>1, <2>2
<1>9. CASE JobStep \/ BeginPoll \/ PollStep \/ JobRegisterFails \/ UNCHANGED vars
  BY <1>3, <1>9 DEF JobStep, JobReplays, JobReadsRun, JobReadsApproved, JobRegisters,
     JobPushes, JobStores, BeginPoll, PollStep, PollStarts, PollGivesUp, PollTakesResult,
     PollSaves, JobRegisterFails, database, vars
<1>10. CASE ApiRestarts
  <2>1. UNCHANGED <<versions, runSchema>> /\ \A c \in Clients : call'[c] = Returned
    BY <1>10 DEF ApiRestarts, database
  <2>2. QED
    BY <1>2, <2>1 DEF Quiet, StaysApproving, Returned
<1>11. QED
  BY <1>5, <1>6, <1>7, <1>8, <1>9, <1>10 DEF Next, ClientStep, Approving, Outage

LEMMA ApprovalStep ==
    ASSUME IInv, OneApproval, ApprovalInv, [Next]_vars
    PROVE  ApprovalInv'
<1>1. /\ call \in [Clients -> Calls]
      /\ \A c \in Clients : call[c] \in Calls
      /\ \A v \in DOMAIN versions : versions[v] \in Rows
  BY RowsOfVersions DEF IInv, TypeOK
<1>2. CASE Quiet
  <2>1. ASSUME NEW c \in Clients PROVE ApprovalOf(c)'
    <3>1. StaysApproving(c) /\ ApprovalOf(c)
      BY <1>2 DEF Quiet, ApprovalInv
    <3>2. QED
      BY <1>2, <3>1 DEF Quiet, StaysApproving, ApprovalOf
  <2>2. QED
    BY <1>2, <2>1 DEF Quiet, ApprovalInv
<1>3. ASSUME NEW c \in Clients, SupersedeApproved(c) \/ ApproveVersion(c) \/ SetRunSchema(c)
      PROVE  /\ call[c].op = "approve" /\ call'[c].op = "approve"
             /\ call'[c].version = call[c].version /\ call'[c].body = call[c].body
             /\ \A d \in Clients \ {c} : call'[d] = call[d] /\ call'[d].op # "approve"
  <2>1. call[c].op = "approve"
    BY <1>3, Serving DEF SupersedeApproved, ApproveVersion, SetRunSchema, Goto
  <2>2. \A d \in Clients \ {c} : call'[d] = call[d]
    BY <1>1, <1>3 DEF SupersedeApproved, ApproveVersion, SetRunSchema, Goto
  <2>3. /\ call'[c].op = call[c].op
        /\ call'[c].version = call[c].version /\ call'[c].body = call[c].body
    BY <1>1, <1>3 DEF SupersedeApproved, ApproveVersion, SetRunSchema, Goto, Calls
  <2>4. QED
    BY <2>1, <2>2, <2>3 DEF OneApproval
<1>4. ASSUME NEW c \in Clients, SupersedeApproved(c) PROVE ApprovalInv'
  <2>1. Approvals' = {}
    BY <1>1, <1>4 DEF SupersedeApproved, Approvals, IsApproved, Rows
  <2>2. call'[c].at = "approve"
    BY <1>1, <1>4 DEF SupersedeApproved, Goto, Calls
  <2>3. QED
    BY <1>3, <1>4, <2>1, <2>2 DEF ApprovalInv, ApprovalOf
<1>5. ASSUME NEW c \in Clients, ApproveVersion(c) PROVE ApprovalInv'
  <2>1. Approvals = {} /\ call[c].version \in DOMAIN versions
    BY <1>3, <1>5, Serving DEF ApproveVersion, Goto, ApprovalInv, ApprovalOf
  <2>2. Approvals' = {call[c].version}
    BY <1>1, <1>5, <2>1 DEF ApproveVersion, Approvals, IsApproved, Rows
  <2>3. call'[c].at = "rules"
    BY <1>1, <1>5 DEF ApproveVersion, Goto, Calls
  <2>4. QED
    BY <1>3, <1>5, <2>2, <2>3 DEF ApprovalInv, ApprovalOf
<1>6. ASSUME NEW c \in Clients, SetRunSchema(c) PROVE ApprovalInv'
  <2>1. Approvals' = Approvals /\ runSchema' = call[c].body
    BY <1>6 DEF SetRunSchema, Approvals, IsApproved
  <2>2. call'[c].at = "register" /\ call[c].at = "rules"
    BY <1>1, <1>6 DEF SetRunSchema, Goto, Calls
  <2>3. QED
    BY <1>3, <1>6, <2>1, <2>2 DEF ApprovalInv, ApprovalOf
<1>7. QED
  BY <1>2, <1>4, <1>5, <1>6, QuietStep

\* Everything above, for the sake of the theorems below.
LEMMA Invariance == Spec => []IInv
<1>1. Init => IInv
  BY InitiallyApproved
<1>2. IInv /\ [Next]_vars => IInv'
  BY InvariantKept
<1>3. QED
  BY <1>1, <1>2, PTL DEF Spec

LEMMA ApprovalInvariance == Spec /\ []OneApproval => []ApprovalInv
<1>1. Init => ApprovalInv
  BY DEF Init, Returned, ApprovalInv, ApprovalOf, Approvals, IsApproved
<1>2. IInv /\ OneApproval /\ ApprovalInv /\ [Next]_vars => ApprovalInv'
  BY ApprovalStep
<1>3. QED
  BY <1>1, <1>2, Invariance, PTL DEF Spec

\* One version is in force as long as approvals do not overlap, whatever else
\* happens at the same time and wherever an approval is cut short.
THEOREM OneApprovedWithoutOverlap == Spec /\ []OneApproval => []OneApproved
<1>1. ApprovalInv => OneApproved
  <2>. SUFFICES ASSUME ApprovalInv PROVE OneApproved
    OBVIOUS
  <2>1. CASE Approvals = {}
    BY <2>1, FS_EmptySet DEF OneApproved
  <2>2. CASE Approvals # {}
    <3>1. PICK v : Approvals = {v}
      BY <2>2 DEF ApprovalInv
    <3>2. Cardinality({v}) = 1
      BY FS_Singleton
    <3>3. QED
      BY <3>1, <3>2 DEF OneApproved
  <2>3. QED
    BY <2>1, <2>2
<1>2. QED
  BY <1>1, ApprovalInvariance, PTL

-----------------------------------------------------------------------------
(***************************************************************************)
(* What an approval that ran alone leaves is kept by everything but the    *)
(* next approval: the version is in force everywhere, and whoever sends,   *)
(* sends under it what was shaped by its schema.                           *)
(***************************************************************************)
RulesOf(v) == {r \in registered : r.version = v}
Governs(v, b) ==
    /\ Approvals = {v}
    /\ runSchema = b
    /\ RulesOf(v) = {[version |-> v, body |-> b]}
DeliverUnder(c, v, b) ==
    /\ call[c].op # "approve"
    /\ call[c].op = "deliver" =>
         /\ call[c].version = v
         /\ call[c].at \in {"read", "register", "push"} => call[c].shape = b
         /\ call[c].at = "register" => call[c].body = b
JobUnder(v, b) ==
    /\ job.at \in {"ready", "approved", "register", "push", "store"} => job.shape = b
    /\ job.at \in {"approved", "register"} => job.body = b
    /\ job.at \in {"register", "push"} => job.version = v
ShownUnder(b) == {result, snapshot.shape, poll.shape} \subseteq {NoBody, b}
Under(v, b) ==
    /\ Governs(v, b)
    /\ ShownUnder(b)
    /\ \A c \in Clients : DeliverUnder(c, v, b)
    /\ JobUnder(v, b)

\* What is sent is sent under the version, shaped and checked by its schema.
SendsUnder(v, b) ==
    sent' \ sent \subseteq {[version |-> v, shape |-> b, rules |-> b]}

LEMMA ReceivedUnder ==
    ASSUME NEW v, NEW b, RulesOf(v) = {[version |-> v, body |-> b]}
    PROVE  Received(v, b) \subseteq {[version |-> v, shape |-> b, rules |-> b]}
<1>1. \A r \in registered : r.version = v => r = [version |-> v, body |-> b]
  BY DEF RulesOf
<1>2. QED
  BY <1>1 DEF Received

LEMMA RegisteringUnder ==
    ASSUME NEW v, NEW b, RulesOf(v) = {[version |-> v, body |-> b]},
           registered' = Registering(v, b)
    PROVE  RulesOf(v)' = {[version |-> v, body |-> b]}
BY DEF RulesOf, Registering

LEMMA ClientUnder ==
    ASSUME IInv, NEW c \in Clients, NEW v \in Nat, NEW b \in Bodies, Under(v, b),
           \/ \E body \in Bodies : BeginDraft(c, body)
           \/ \E version \in DOMAIN versions, keep \in BOOLEAN : BeginDeliver(c, version, keep)
           \/ ClientStep(c) \/ RegisterFails(c)
    PROVE  Under(v, b)' /\ SendsUnder(v, b)
<1>1. /\ call \in [Clients -> Calls] /\ call[c] \in Calls
      /\ DOMAIN versions = 1..Len(versions) /\ Len(versions) \in Nat
      /\ b # NoBody
  BY NoBodyAssumption, RowsOfVersions DEF IInv, TypeOK
<1>2. call[c].op # "approve" /\ DeliverUnder(c, v, b)
  BY DEF Under, DeliverUnder
<1>3. ASSUME DeliverUnder(c, v, b)', Governs(v, b)', ShownUnder(b)', job' = job,
             SendsUnder(v, b), \A d \in Clients \ {c} : call'[d] = call[d]
      PROVE  Under(v, b)' /\ SendsUnder(v, b)
  BY <1>3 DEF Under, DeliverUnder, JobUnder
<1>4. ASSUME UNCHANGED <<versions, runSchema, registered>> PROVE Governs(v, b)'
  BY <1>4 DEF Under, Governs, RulesOf, Approvals, IsApproved
<1>5. ASSUME UNCHANGED sent PROVE SendsUnder(v, b)
  BY <1>5 DEF SendsUnder
<1>5a. ASSUME result' \in {NoBody, result}, snapshot' \in {NoSnapshot, snapshot},
              poll' \in {poll, [poll EXCEPT !.version = 0]}
       PROVE  ShownUnder(b)'
  <2>1. poll'.shape = poll.shape
    BY <1>5a DEF IInv, TypeOK, PollCalls
  <2>2. snapshot'.shape \in {NoBody, snapshot.shape}
    BY <1>5a DEF NoSnapshot
  <2>3. QED
    BY <1>5a, <2>1, <2>2 DEF Under, ShownUnder
<1>6. ASSUME call'[c].op \in {"none", "draft"} PROVE DeliverUnder(c, v, b)'
  BY <1>6 DEF DeliverUnder
<1>7. ASSUME NEW body \in Bodies, BeginDraft(c, body) PROVE Under(v, b)' /\ SendsUnder(v, b)
  <2>1. call'[c].op = "draft" /\ \A d \in Clients \ {c} : call'[d] = call[d]
    BY <1>1, <1>7 DEF BeginDraft, Called
  <2>2. UNCHANGED <<versions, runSchema, registered, result, job, sent, snapshot, poll>>
    BY <1>7 DEF BeginDraft, database, memory, destination, views
  <2>3. QED
    BY <1>3, <1>4, <1>5, <1>5a, <1>6, <2>1, <2>2
<1>8. ASSUME NEW version \in DOMAIN versions, NEW keep \in BOOLEAN,
             BeginDeliver(c, version, keep)
      PROVE  Under(v, b)' /\ SendsUnder(v, b)
  <2>1. version = v
    BY <1>8 DEF BeginDeliver, IsInForce, Approvals, Under, Governs
  <2>2. /\ call'[c] = Called("take", "deliver", v, NoBody)
        /\ \A d \in Clients \ {c} : call'[d] = call[d]
    BY <1>1, <1>8, <2>1 DEF BeginDeliver
  <2>3. DeliverUnder(c, v, b)'
    BY <2>2 DEF DeliverUnder, Called
  <2>4. UNCHANGED <<versions, runSchema, registered, result, job, sent, snapshot, poll>>
    BY <1>8 DEF BeginDeliver, memory, destination, views
  <2>5. QED
    BY <1>3, <1>4, <1>5, <1>5a, <2>2, <2>3, <2>4
<1>9. CASE InsertDraft(c)
  <2>1. call'[c] = Returned /\ \A d \in Clients \ {c} : call'[d] = call[d]
    BY <1>1, <1>9 DEF InsertDraft, Goto
  <2>2. UNCHANGED <<runSchema, registered, result, job, sent, snapshot, poll>>
    BY <1>9 DEF InsertDraft, memory, destination, views
  <2>3. Approvals' = Approvals
    BY <1>1, <1>9 DEF InsertDraft, Approvals, IsApproved, IInv, TypeOK
  <2>4. Governs(v, b)'
    BY <2>2, <2>3 DEF Under, Governs, RulesOf
  <2>5. QED
    BY <1>3, <1>5, <1>5a, <1>6, <2>1, <2>2, <2>4 DEF Returned
<1>10. CASE Approving(c)
  BY <1>2, <1>10, Serving DEF Approving, SupersedeApproved, ApproveVersion, SetRunSchema,
     StartJob, Goto
<1>11. CASE Delivering(c) \/ RegisterFails(c) \/ Register(c) \/ Forgetting(c)
  <2>1. call[c].op = "deliver" /\ call[c].version = v
    <3>1. call[c].op \in {"draft", "approve", "deliver"}
      BY <1>1, <1>11 DEF Delivering, TakeResult, ReplayItself, ReadRules, Push, RegisterFails,
         Register, Forgetting, Invalidate, ClearSnapshot, Goto, IInv, CallShape, Calls
    <3>2. call[c].op # "draft"
      BY <1>11 DEF Delivering, TakeResult, ReplayItself, ReadRules, Push, RegisterFails,
         Register, Forgetting, Invalidate, ClearSnapshot, Goto, IInv, CallShape, DraftShape
    <3>3. QED
      BY <1>2, <3>1, <3>2 DEF DeliverUnder
  <2>2. \A d \in Clients \ {c} : call'[d] = call[d]
    BY <1>1, <1>11 DEF Delivering, TakeResult, ReplayItself, ReadRules, Push, RegisterFails,
       Register, Forgetting, Invalidate, ClearSnapshot, Goto
  <2>3. UNCHANGED <<versions, runSchema, job>>
    BY <1>11 DEF Delivering, TakeResult, ReplayItself, ReadRules, Push, RegisterFails,
       Register, Forgetting, Invalidate, ClearSnapshot, database, memory
  <2>3a. result' \in {NoBody, result} /\ snapshot' \in {NoSnapshot, snapshot}
         /\ poll' \in {poll, [poll EXCEPT !.version = 0]}
    BY <1>11 DEF Delivering, TakeResult, ReplayItself, ReadRules, Push, Pushes, RegisterFails,
       Register, Forgetting, Invalidate, ClearSnapshot, memory, views
  <2>3b. ShownUnder(b)'
    BY <1>5a, <2>3a
  <2>4. CASE call'[c] = Returned
    <3>1. UNCHANGED <<registered, sent>>
      BY <1>1, <1>11, <2>4 DEF Delivering, TakeResult, ReplayItself, ReadRules, Push,
         RegisterFails, Register, Forgetting, Invalidate, ClearSnapshot, Goto, destination, Calls,
         Returned
    <3>2. QED
      BY <1>3, <1>4, <1>5, <1>6, <2>2, <2>3, <2>3b, <2>4, <3>1 DEF Returned
  <2>5. CASE TakeResult(c)
    <3>1. DeliverUnder(c, v, b)'
      BY <1>1, <2>1, <2>5 DEF TakeResult, DeliverUnder, Under, ShownUnder, Calls
    <3>2. UNCHANGED <<registered, sent>>
      BY <2>5 DEF TakeResult, memory, destination, views
    <3>3. QED
      BY <1>3, <1>4, <1>5, <2>2, <2>3, <2>3b, <3>1, <3>2
  <2>6. CASE ReplayItself(c) /\ call'[c] # Returned
    <3>1. DeliverUnder(c, v, b)'
      BY <1>1, <2>1, <2>6 DEF ReplayItself, DeliverUnder, Under, Governs, Calls
    <3>2. UNCHANGED <<registered, sent>>
      BY <2>6 DEF ReplayItself, memory, destination, views
    <3>3. QED
      BY <1>3, <1>4, <1>5, <2>2, <2>3, <2>3b, <3>1, <3>2
  <2>7. CASE ReadRules(c) /\ call'[c] # Returned
    <3>1. DeliverUnder(c, v, b)'
      BY <1>1, <1>2, <2>1, <2>7 DEF ReadRules, DeliverUnder, Under, Governs, Calls
    <3>2. UNCHANGED <<registered, sent>>
      BY <2>7 DEF ReadRules, memory, destination, views
    <3>3. QED
      BY <1>3, <1>4, <1>5, <2>2, <2>3, <2>3b, <3>1, <3>2
  <2>8. CASE Register(c)
    <3>1. DeliverUnder(c, v, b)'
      BY <1>1, <1>2, <2>1, <2>8 DEF Register, Goto, DeliverUnder, Calls
    <3>2. registered' = Registering(v, b) /\ UNCHANGED sent
      BY <1>2, <2>1, <2>8 DEF Register, Goto, DeliverUnder
    <3>3. RulesOf(v)' = {[version |-> v, body |-> b]}
      BY <3>2, RegisteringUnder DEF Under, Governs
    <3>4. Governs(v, b)'
      BY <2>3, <3>3 DEF Under, Governs, Approvals, IsApproved
    <3>5. QED
      BY <1>3, <1>5, <2>2, <2>3, <2>3b, <3>1, <3>2, <3>4
  <2>9. CASE Push(c)
    <3>1. DeliverUnder(c, v, b)'
      BY <1>1, <2>1, <2>9 DEF Push, Goto, DeliverUnder, Calls
    <3>2. UNCHANGED registered /\ sent' \in {sent, sent \union Received(v, b)}
      BY <1>2, <2>1, <2>9 DEF Push, Pushes, Goto, DeliverUnder
    <3>3. SendsUnder(v, b)
      BY <3>2, ReceivedUnder DEF SendsUnder, Under, Governs
    <3>4. QED
      BY <1>3, <1>4, <2>2, <2>3, <2>3b, <3>1, <3>2, <3>3
  <2>10. CASE Invalidate(c)
    <3>1. DeliverUnder(c, v, b)'
      BY <1>1, <2>1, <2>10 DEF Invalidate, Goto, DeliverUnder, Calls
    <3>2. UNCHANGED <<registered, sent>>
      BY <2>10 DEF Invalidate, destination
    <3>3. QED
      BY <1>3, <1>4, <1>5, <2>2, <2>3, <2>3b, <3>1, <3>2
  <2>11. CASE (RegisterFails(c) \/ ClearSnapshot(c)) /\ call'[c] # Returned
    BY <1>1, <2>1, <2>11 DEF RegisterFails, ClearSnapshot, Goto
  <2>12. QED
    BY <1>11, <2>4, <2>5, <2>6, <2>7, <2>8, <2>9, <2>10, <2>11 DEF Delivering, Forgetting
<1>12. QED
  BY <1>7, <1>8, <1>9, <1>10, <1>11 DEF ClientStep

LEMMA OthersUnder ==
    ASSUME IInv, NEW v \in Nat, NEW b \in Bodies, Under(v, b),
           JobStep \/ BeginPoll \/ PollStep \/ JobRegisterFails \/ ApiRestarts \/ UNCHANGED vars
    PROVE  Under(v, b)' /\ SendsUnder(v, b)
<1>1. job \in Jobs /\ b # NoBody
  BY NoBodyAssumption DEF IInv, TypeOK
<1>2. ASSUME UNCHANGED <<versions, runSchema, registered>> PROVE Governs(v, b)'
  BY <1>2 DEF Under, Governs, RulesOf, Approvals, IsApproved
<1>3. ASSUME UNCHANGED call PROVE \A c \in Clients : DeliverUnder(c, v, b)'
  BY <1>3 DEF Under, DeliverUnder
<1>4. ASSUME UNCHANGED <<versions, runSchema, registered, call, sent>>, JobUnder(v, b)',
             ShownUnder(b)'
      PROVE  Under(v, b)' /\ SendsUnder(v, b)
  BY <1>2, <1>3, <1>4 DEF Under, SendsUnder
<1>4a. ASSUME snapshot' \in {NoSnapshot, snapshot}, result' \in {NoBody, b, result},
              poll' \in {NoPoll, poll, [poll EXCEPT !.version = 0]}
       PROVE  ShownUnder(b)'
  <2>1. poll'.shape \in {NoBody, poll.shape}
    BY <1>4a DEF IInv, TypeOK, PollCalls, NoPoll
  <2>2. snapshot'.shape \in {NoBody, snapshot.shape}
    BY <1>4a DEF NoSnapshot
  <2>3. QED
    BY <1>4a, <2>1, <2>2 DEF Under, ShownUnder
<1>5. CASE JobReplays \/ JobReadsRun \/ JobReadsApproved \/ JobRegisterFails \/ JobStores
  <2>1. UNCHANGED <<versions, runSchema, registered, call, sent>>
    BY <1>5 DEF JobReplays, JobReadsRun, JobReadsApproved, JobRegisterFails, JobStores,
       database, destination
  <2>2. JobUnder(v, b)'
    <3>1. CASE JobReplays
      BY <1>1, <3>1 DEF JobReplays, JobUnder, Under, Governs, Jobs, NoJob
    <3>2. CASE JobReadsRun
      BY <1>1, <3>2 DEF JobReadsRun, JobUnder, Under, Governs, Jobs
    <3>3. CASE JobReadsApproved
      <4>1. \A w \in DOMAIN versions : IsInForce(w) => w = v
        BY DEF IsInForce, Approvals, Under, Governs
      <4>2. QED
        BY <1>1, <3>3, <4>1 DEF JobReadsApproved, JobUnder, Under, Jobs
    <3>4. CASE JobRegisterFails
      BY <1>1, <3>4 DEF JobRegisterFails, JobUnder, Under, Jobs
    <3>5. CASE JobStores
      BY <3>5 DEF JobStores, JobUnder, NoJob
    <3>6. QED
      BY <1>5, <3>1, <3>2, <3>3, <3>4, <3>5
  <2>3. ShownUnder(b)'
    <3>1. UNCHANGED <<snapshot, poll>> /\ result' \in {result, b}
      BY <1>5 DEF JobReplays, JobReadsRun, JobReadsApproved, JobRegisterFails, JobStores, Under,
         JobUnder, views
    <3>2. QED
      BY <1>4a, <3>1
  <2>4. QED
    BY <1>4, <2>1, <2>2, <2>3
<1>6. CASE JobRegisters
  <2>1. UNCHANGED <<versions, runSchema, result, call, sent, snapshot, poll>>
        /\ registered' = Registering(v, b)
    BY <1>6 DEF JobRegisters, database, views, Under, JobUnder
  <2>2. RulesOf(v)' = {[version |-> v, body |-> b]}
    BY <2>1, RegisteringUnder DEF Under, Governs
  <2>3. Governs(v, b)'
    BY <2>1, <2>2 DEF Under, Governs, Approvals, IsApproved
  <2>4. JobUnder(v, b)'
    BY <1>1, <1>6 DEF JobRegisters, Under, JobUnder, Jobs
  <2>5. QED
    BY <1>3, <1>4a, <2>1, <2>3, <2>4 DEF Under, SendsUnder
<1>7. CASE JobPushes
  <2>1. UNCHANGED <<versions, runSchema, result, call, registered>>
        /\ sent' \in {sent, sent \union Received(v, b)}
    BY <1>7 DEF JobPushes, Pushes, database, Under, JobUnder
  <2>1a. ShownUnder(b)'
    <3>1. snapshot' \in {NoSnapshot, snapshot} /\ poll' \in {poll, [poll EXCEPT !.version = 0]}
      BY <1>7 DEF JobPushes, Pushes, views
    <3>2. QED
      BY <1>4a, <2>1, <3>1
  <2>2. SendsUnder(v, b)
    BY <2>1, ReceivedUnder DEF SendsUnder, Under, Governs
  <2>3. JobUnder(v, b)'
    BY <1>1, <1>7 DEF JobPushes, Under, JobUnder, Jobs
  <2>4. QED
    BY <1>2, <1>3, <2>1, <2>1a, <2>2, <2>3 DEF Under
<1>8. CASE BeginPoll \/ PollStep
  <2>1. UNCHANGED <<versions, runSchema, registered, result, call, sent>>
        /\ job' \in {job, Started}
    BY <1>8 DEF BeginPoll, PollStep, PollStarts, PollGivesUp, PollTakesResult, PollSaves,
       database, memory, destination
  <2>2. JobUnder(v, b)'
    BY <1>1, <2>1 DEF Started, NoJob, Under, JobUnder
  <2>3. ShownUnder(b)'
    <3>1. poll \in PollCalls
      BY DEF IInv, TypeOK
    <3>2. CASE BeginPoll
      BY <2>1, <3>2 DEF BeginPoll, NoPoll, Under, ShownUnder
    <3>3. CASE PollTakesResult
      BY <2>1, <3>1, <3>3 DEF PollTakesResult, PollCalls, Under, ShownUnder
    <3>4. CASE PollStarts \/ PollGivesUp
      BY <2>1, <3>1, <3>4 DEF PollStarts, PollGivesUp, PollCalls, NoPoll, Under, ShownUnder
    <3>5. CASE PollSaves
      BY <2>1, <3>5 DEF PollSaves, NoSnapshot, NoPoll, Under, ShownUnder
    <3>6. QED
      BY <1>8, <3>2, <3>3, <3>4, <3>5 DEF PollStep
  <2>4. QED
    BY <1>4, <2>1, <2>2, <2>3
<1>9. CASE ApiRestarts
  <2>1. /\ UNCHANGED <<versions, runSchema, registered, sent>>
        /\ result' = NoBody /\ job' = NoJob
        /\ \A c \in Clients : call'[c] = Returned
    BY <1>9 DEF ApiRestarts, database, destination
  <2>2. JobUnder(v, b)' /\ \A c \in Clients : DeliverUnder(c, v, b)'
    BY <2>1 DEF JobUnder, NoJob, DeliverUnder, Returned
  <2>3. ShownUnder(b)'
    BY <1>4a, <1>9 DEF ApiRestarts
  <2>4. QED
    BY <1>2, <2>1, <2>2, <2>3 DEF Under, SendsUnder
<1>10. CASE UNCHANGED vars
  <2>1. ShownUnder(b)' /\ JobUnder(v, b)'
    BY <1>4a, <1>10 DEF vars, Under, JobUnder
  <2>2. QED
    BY <1>4, <1>10, <2>1 DEF vars
<1>11. QED
  BY <1>5, <1>6, <1>7, <1>8, <1>9, <1>10 DEF JobStep

-----------------------------------------------------------------------------
(***************************************************************************)
(* One approval at a time, and whether anything overlapped it: MCSpec, for *)
(* every bound on what people ask for and on what fails.                   *)
(***************************************************************************)
LEMMA MCStepIsStep ==
    ASSUME [MCNext]_mcVars
    PROVE  [Next]_vars
<1>1. ASSUME NEW c \in Clients, Draft(c) PROVE Next
  <2>1. (CHOOSE body \in Undrafted : TRUE) \in Bodies
    BY <1>1 DEF Draft, Undrafted
  <2>2. QED
    BY <1>1, <2>1 DEF Draft, Next, Ask
<1>2. ASSUME NEW c \in Clients, Approve(c) PROVE Next
  BY <1>2 DEF Approve, Next, Ask
<1>3. ASSUME NEW c \in Clients, Deliver(c) PROVE Next
  BY <1>3, KeepsSendingAssumption DEF Deliver, Next, Ask
<1>4. ASSUME NEW c \in Clients, Work(c) PROVE Next
  BY <1>4 DEF Work, Settle, Next, ClientStep, Approving
<1>5. CASE JobWorks \/ Polls \/ PollWorks \/ Fails
  BY <1>5 DEF JobWorks, Polls, PollWorks, Fails, Next
<1>6. CASE UNCHANGED mcVars
  BY <1>6 DEF mcVars
<1>7. QED
  BY <1>1, <1>2, <1>3, <1>4, <1>5, <1>6 DEF MCNext

LEMMA MCSpecIsSpec == MCSpec => Spec
<1>1. MCInit => Init
  BY DEF MCInit
<1>2. [MCNext]_mcVars => [Next]_vars
  BY MCStepIsStep
<1>3. QED
  BY <1>1, <1>2, PTL DEF MCSpec, Spec

\* Only Approve makes a handler approve.
NoNewApproval == \A c \in Clients : call'[c].op = "approve" => call[c].op = "approve"

LEMMA ClientKeepsOp ==
    ASSUME IInv, NEW c \in Clients,
           \/ \E body : BeginDraft(c, body)
           \/ \E version, keep : BeginDeliver(c, version, keep)
           \/ ClientStep(c) \/ RegisterFails(c)
    PROVE  /\ \A d \in Clients \ {c} : call'[d] = call[d]
           /\ call'[c].op \in {"none", "draft", "deliver", call[c].op}
<1>1. call \in [Clients -> Calls] /\ call[c] \in Calls
  BY DEF IInv, TypeOK
<1>2. CASE \/ \E body : BeginDraft(c, body)
           \/ \E version, keep : BeginDeliver(c, version, keep)
  BY <1>1, <1>2 DEF BeginDraft, BeginDeliver, Called
<1>3. ASSUME NEW from, NEW to \in ClientSteps, Goto(c, from, to)
      PROVE  /\ \A d \in Clients \ {c} : call'[d] = call[d]
             /\ call'[c].op \in {"none", call[c].op}
  <2>1. \A d \in Clients \ {c} : call'[d] = call[d]
    BY <1>1, <1>3 DEF Goto
  <2>2. call'[c] = Returned \/ call'[c] = [call[c] EXCEPT !.at = to]
    BY <1>1, <1>3 DEF Goto
  <2>3. [call[c] EXCEPT !.at = to].op = call[c].op
    BY <1>1 DEF Calls
  <2>4. Returned.op = "none"
    BY DEF Returned
  <2>5. call'[c].op \in {"none", call[c].op}
    BY <2>2, <2>3, <2>4
  <2>6. QED
    BY <2>1, <2>5
<1>4. CASE TakeResult(c)
  BY <1>1, <1>4 DEF TakeResult, Calls
<1>5. CASE ReplayItself(c)
  BY <1>1, <1>5 DEF ReplayItself, Returned, Calls
<1>6. CASE ReadRules(c)
  BY <1>1, <1>6 DEF ReadRules, Returned, Calls
<1>7. CASE \/ InsertDraft(c) \/ Approving(c) \/ Push(c) \/ Register(c) \/ Forgetting(c)
           \/ RegisterFails(c)
  BY <1>3, <1>7 DEF InsertDraft, Approving, SupersedeApproved, ApproveVersion, SetRunSchema,
     StartJob, Push, Register, Forgetting, Invalidate, ClearSnapshot, RegisterFails, ClientSteps
<1>8. QED
  BY <1>2, <1>4, <1>5, <1>6, <1>7 DEF ClientStep, Delivering

LEMMA NewApprovals ==
    ASSUME IInv, [MCNext]_mcVars
    PROVE  NoNewApproval \/ \E c \in Clients : IsNext(c) /\ Approve(c)
<1>1. ASSUME NEW c \in Clients, Draft(c) \/ Deliver(c) \/ Work(c) PROVE NoNewApproval
  BY <1>1, ClientKeepsOp DEF Draft, Deliver, Work, Settle, ClientStep, Approving, NoNewApproval
<1>2. CASE JobWorks \/ Polls \/ PollWorks \/ UNCHANGED mcVars
  BY <1>2 DEF JobWorks, JobStep, JobReplays, JobReadsRun, JobReadsApproved, JobRegisters,
     JobPushes, JobStores, Polls, BeginPoll, PollWorks, PollStep, PollStarts, PollGivesUp,
     PollTakesResult, PollSaves, mcVars, vars, NoNewApproval
<1>3. CASE Fails
  <2>1. ASSUME NEW c \in Clients, RegisterFails(c) PROVE NoNewApproval
    BY <2>1, ClientKeepsOp DEF NoNewApproval
  <2>2. CASE JobRegisterFails \/ ApiRestarts
    BY <2>2 DEF JobRegisterFails, ApiRestarts, Returned, NoNewApproval
  <2>3. QED
    BY <1>3, <2>1, <2>2 DEF Fails, Outage
<1>4. QED
  BY <1>1, <1>2, <1>3 DEF MCNext

LEMMA ApproveAlone ==
    ASSUME IInv, NEW c \in Clients, Approve(c)
    PROVE  /\ \A d \in Clients : call[d].op # "approve"
           /\ \A d \in Clients \ {c} : call'[d] = call[d]
           /\ call'[c].op = "approve" /\ call'[c].at = "supersede"
<1>1. call \in [Clients -> Calls]
  BY DEF IInv, TypeOK
<1>2. QED
  BY <1>1 DEF Approve, NobodyApproves, BeginApprove, Called

LEMMA OneApprovalInvariance == MCSpec => []OneApproval
<1>1. MCInit => OneApproval
  BY DEF MCInit, Init, Returned, OneApproval
<1>2. IInv /\ OneApproval /\ [MCNext]_mcVars => OneApproval'
  BY NewApprovals, ApproveAlone DEF OneApproval, NoNewApproval
<1>3. QED
  BY <1>1, <1>2, MCSpecIsSpec, Invariance, PTL DEF MCSpec

LEMMA ApprovalsInOrder == MCSpec => [](IInv /\ OneApproval /\ ApprovalInv)
BY MCSpecIsSpec, Invariance, OneApprovalInvariance, ApprovalInvariance, PTL

\* No matter how many approvals there are and how each ends, if they do not
\* overlap one version at most is approved.
THEOREM OneAlwaysApproved == MCSpec => []OneApproved
BY MCSpecIsSpec, OneApprovalInvariance, OneApprovedWithoutOverlap, PTL

\* While an approval is alone no job runs and nobody sends or looks, so that what
\* it has registered, and the result and the view it has cleared, stay as they are.
RegisteredBy(c) ==
    RulesOf(call[c].version) = {[version |-> call[c].version, body |-> call[c].body]}
Undisturbed(c) ==
    /\ job.at = "free"
    /\ poll.at = "idle" /\ poll.shape = NoBody
    /\ \A d \in Clients : call[d].op # "deliver"
    /\ call[c].at \in {"invalidate", "clear", "start"} => RegisteredBy(c)
    /\ call[c].at \in {"clear", "start"} => result = NoBody
    /\ call[c].at = "start" => snapshot = NoSnapshot
PollShape == poll.at = "idle" => poll.shape = NoBody
AloneInv ==
    /\ PollShape
    /\ alone \in Clients \union {Nobody}
    /\ \A c \in Clients : alone = c /\ call[c].op = "approve" => Undisturbed(c)

\* Once it has ended, its version and its schema are those of everything.
SettledInv ==
    /\ settled \in DOMAIN versions \union {0}
    /\ \A v \in DOMAIN versions, b \in Bodies :
          v = settled /\ b = versions[v].body => Under(v, b)

\* A poll that has been answered has shown nothing that it would keep.
LEMMA PollShapeStep ==
    ASSUME IInv, PollShape, [Next]_vars
    PROVE  PollShape'
<1>1. poll \in PollCalls
  BY DEF IInv, TypeOK
<1>2. CASE UNCHANGED poll
  BY <1>2 DEF PollShape
<1>3. CASE BeginPoll \/ PollStep \/ ApiRestarts
  <2>1. CASE BeginPoll
    <3>1. PICK v \in Nat : poll' = [NoPoll EXCEPT !.at = "ensure", !.version = v]
      BY <2>1, RowsOfVersions DEF BeginPoll, IInv
    <3>2. QED
      BY <3>1 DEF NoPoll, PollShape
  <2>2. CASE PollStarts
    <3>1. poll' = NoPoll \/ poll' = [poll EXCEPT !.at = "collect"]
      BY <2>2 DEF PollStarts
    <3>2. QED
      BY <1>1, <3>1 DEF PollShape, PollCalls, NoPoll
  <2>3. CASE PollTakesResult
    BY <1>1, <2>3 DEF PollTakesResult, PollShape, PollCalls
  <2>4. CASE PollGivesUp \/ PollSaves \/ ApiRestarts
    BY <2>4 DEF PollGivesUp, PollSaves, ApiRestarts, PollShape, NoPoll
  <2>5. QED
    BY <1>3, <2>1, <2>2, <2>3, <2>4 DEF PollStep
<1>4. ASSUME NEW version, NEW shape, Pushes(version, shape) PROVE PollShape'
  BY <1>1, <1>2, <1>4 DEF Pushes, views, PollShape, PollCalls
<1>5. CASE JobPushes \/ \E c \in Clients : Push(c)
  BY <1>4, <1>5 DEF JobPushes, Push
<1>6. ASSUME NEW c \in Clients,
             \/ Ask(c) \/ InsertDraft(c) \/ Approving(c) \/ Register(c) \/ Forgetting(c)
             \/ TakeResult(c) \/ ReplayItself(c) \/ ReadRules(c) \/ RegisterFails(c)
      PROVE  UNCHANGED poll
  BY <1>6 DEF Ask, BeginDraft, BeginApprove, BeginDeliver, InsertDraft, Approving,
     SupersedeApproved, ApproveVersion, SetRunSchema, StartJob, Register, Forgetting,
     Invalidate, ClearSnapshot, TakeResult, ReplayItself, ReadRules, RegisterFails, views
<1>7. ASSUME \/ JobReplays \/ JobReadsRun \/ JobReadsApproved \/ JobRegisters \/ JobStores
             \/ JobRegisterFails
      PROVE  UNCHANGED poll
  BY <1>7 DEF JobReplays, JobReadsRun, JobReadsApproved, JobRegisters, JobStores,
     JobRegisterFails, views
<1>8. CASE UNCHANGED vars
  BY <1>2, <1>8 DEF vars
<1>9. QED
  BY <1>2, <1>3, <1>5, <1>6, <1>7, <1>8 DEF Next, ClientStep, Delivering, JobStep, Outage

\* Of the handlers that are not the approval that is alone, none sends.
LEMMA AloneKeeps ==
    ASSUME IInv, OneApproval, AloneInv, NEW c \in Clients, alone = c, call[c].op = "approve",
           NEW d \in Clients \ {c}, ClientStep(d) \/ RegisterFails(d)
    PROVE  InsertDraft(d)
<1>1. call[d].op \notin {"approve", "deliver"}
  BY DEF AloneInv, Undisturbed, OneApproval
<1>2. call[d] \in Calls /\ (call[d].op = "none" <=> call[d].at = "idle") /\ DraftShape(d)
  BY DEF IInv, TypeOK, CallShape
<1>3. call[d].at \in {"idle", "insert"}
  BY <1>1, <1>2 DEF Calls, DraftShape
<1>4. QED
  BY <1>3 DEF ClientStep, Approving, SupersedeApproved, ApproveVersion, SetRunSchema, StartJob,
     Delivering, TakeResult, ReplayItself, ReadRules, Push, Register, Forgetting, Invalidate,
     ClearSnapshot, RegisterFails, Goto

\* The approval that is alone goes on.
LEMMA AloneGoesOn ==
    ASSUME IInv, AloneInv, NEW c \in Clients, alone = c, call[c].op = "approve",
           call'[c].op = "approve", ClientStep(c)
    PROVE  /\ UNCHANGED <<job, poll>>
           /\ call'[c].at \in {"invalidate", "clear", "start"} => RegisteredBy(c)'
           /\ call'[c].at \in {"clear", "start"} => result' = NoBody
           /\ call'[c].at = "start" => snapshot' = NoSnapshot
<1>1. call \in [Clients -> Calls] /\ call[c] \in Calls
  BY DEF IInv, TypeOK
<1>2. ApproveShape(c)
  BY DEF IInv, CallShape
<1>3. CASE SupersedeApproved(c) \/ ApproveVersion(c) \/ SetRunSchema(c)
  BY <1>1, <1>3 DEF SupersedeApproved, ApproveVersion, SetRunSchema, Goto, Calls, memory, views
<1>4. CASE Register(c)
  <2>1. /\ registered' = Registering(call[c].version, call[c].body) /\ UNCHANGED <<job, poll>>
        /\ call'[c].version = call[c].version /\ call'[c].body = call[c].body
        /\ call'[c].at = "invalidate"
    BY <1>1, <1>4 DEF Register, Goto, Calls, memory, views
  <2>2. RegisteredBy(c)'
    BY <2>1 DEF RegisteredBy, RulesOf, Registering
  <2>3. QED
    BY <2>1, <2>2
<1>5. CASE Invalidate(c)
  <2>1. /\ UNCHANGED <<job, registered, poll>> /\ result' = NoBody /\ call[c].at = "invalidate"
        /\ call'[c].version = call[c].version /\ call'[c].body = call[c].body
        /\ call'[c].at = "clear"
    BY <1>1, <1>5 DEF Invalidate, Goto, Calls, destination, views
  <2>2. RegisteredBy(c)'
    BY <2>1 DEF AloneInv, Undisturbed, RegisteredBy, RulesOf
  <2>3. QED
    BY <2>1, <2>2
<1>5a. CASE ClearSnapshot(c)
  <2>1. /\ UNCHANGED <<job, registered, result, poll>> /\ snapshot' = NoSnapshot
        /\ call[c].at = "clear"
        /\ call'[c].version = call[c].version /\ call'[c].body = call[c].body
        /\ call'[c].at = "start"
    BY <1>1, <1>5a DEF ClearSnapshot, Goto, Calls, memory, destination
  <2>2. RegisteredBy(c)' /\ result' = NoBody
    BY <2>1 DEF AloneInv, Undisturbed, RegisteredBy, RulesOf
  <2>3. QED
    BY <2>1, <2>2
<1>6. CASE StartJob(c)
  <2>1. call'[c] = Returned
    BY <1>1, <1>6 DEF StartJob, Goto
  <2>2. QED
    BY <2>1 DEF Returned
<1>7. ~InsertDraft(c) /\ ~Delivering(c)
  BY <1>2 DEF ApproveShape, InsertDraft, Delivering, TakeResult, ReplayItself, ReadRules, Push,
     Goto
<1>8. QED
  BY <1>3, <1>4, <1>5, <1>5a, <1>6, <1>7 DEF ClientStep, Approving, Forgetting

\* ... and is left alone by the rest.
LEMMA LeftAlone ==
    ASSUME IInv, AloneInv, NEW c \in Clients, alone = c, call[c].op = "approve",
           call'[c] = call[c], UNCHANGED <<job, registered, result, snapshot, poll>>,
           \A d \in Clients : call'[d].op = "deliver" => call[d].op = "deliver"
    PROVE  Undisturbed(c)'
BY DEF AloneInv, Undisturbed, RegisteredBy, RulesOf

LEMMA AloneStep ==
    ASSUME IInv, OneApproval, AloneInv, [MCNext]_mcVars
    PROVE  AloneInv'
<1>1. call \in [Clients -> Calls]
  BY DEF IInv, TypeOK
<1>2. alone' \in Clients \union {Nobody}
  BY DEF MCNext, Draft, Approve, Deliver, Work, Settle, JobWorks, Polls, PollWorks, Fails, mcVars, AloneInv
<1>2a. PollShape'
  BY MCStepIsStep, PollShapeStep DEF AloneInv
<1>3. SUFFICES ASSUME NEW c \in Clients, alone' = c, call'[c].op = "approve"
               PROVE  Undisturbed(c)'
  BY <1>2, <1>2a DEF AloneInv
<1>4. alone' # Nobody
  BY <1>3, NobodyAssumption
<1>5. ASSUME alone' = alone, call[c].op = "approve" PROVE Undisturbed(c)
  BY <1>3, <1>5 DEF AloneInv
<1>6. ASSUME NEW d \in Clients, Draft(d) PROVE Undisturbed(c)'
  <2>1. /\ call'[d].op = "draft" /\ \A e \in Clients \ {d} : call'[e] = call[e]
        /\ UNCHANGED <<job, registered, result, snapshot, poll, alone>>
    BY <1>1, <1>6 DEF Draft, BeginDraft, Called, memory, destination, views
  <2>2. c # d
    BY <1>3, <2>1
  <2>3. QED
    BY <1>3, <2>1, <2>2, LeftAlone
<1>7. ASSUME NEW d \in Clients, Approve(d) PROVE Undisturbed(c)'
  <2>1. c = d /\ NothingElse(d)
    BY <1>3, <1>4, <1>7 DEF Approve
  <2>2. /\ \A e \in Clients \ {c} : call'[e] = call[e]
        /\ call'[c].at = "supersede"
    BY <1>7, <2>1, ApproveAlone
  <2>3. UNCHANGED <<job, poll>>
    BY <1>7 DEF Approve, BeginApprove, memory, views
  <2>4. QED
    BY <1>3, <2>1, <2>2, <2>3 DEF Undisturbed, NothingElse, AloneInv, PollShape
<1>8. ASSUME NEW d \in Clients, ClientStep(d) \/ RegisterFails(d), alone' = alone
      PROVE  Undisturbed(c)'
  <2>1. /\ \A e \in Clients \ {d} : call'[e] = call[e]
        /\ call'[d].op \in {"none", "draft", "deliver", call[d].op}
    BY <1>8, ClientKeepsOp
  <2>2. call[c].op = "approve"
    BY <1>3, <2>1
  <2>3. CASE d = c
    <3>1. ~RegisterFails(c)
      BY <1>1, <1>3 DEF RegisterFails, Goto, Returned
    <3>2. /\ UNCHANGED <<job, poll>>
          /\ call'[c].at \in {"invalidate", "clear", "start"} => RegisteredBy(c)'
          /\ call'[c].at \in {"clear", "start"} => result' = NoBody
          /\ call'[c].at = "start" => snapshot' = NoSnapshot
      BY <1>3, <1>8, <2>2, <2>3, <3>1, AloneGoesOn
    <3>3. QED
      BY <1>3, <1>5, <1>8, <2>1, <2>2, <2>3, <3>2 DEF Undisturbed
  <2>4. CASE d # c
    <3>1. InsertDraft(d)
      BY <1>3, <1>8, <2>2, <2>4, AloneKeeps
    <3>2. call'[d] = Returned /\ UNCHANGED <<job, registered, result, snapshot, poll>>
      BY <1>1, <3>1 DEF InsertDraft, Goto, memory, destination, views
    <3>3. QED
      BY <1>3, <1>8, <2>1, <2>2, <2>4, <3>2, LeftAlone DEF Returned
  <2>5. QED
    BY <2>3, <2>4
<1>9. CASE JobWorks \/ (Fails /\ JobRegisterFails)
  BY <1>3, <1>5, <1>9 DEF JobWorks, JobStep, JobReplays, JobReadsRun, JobReadsApproved,
     JobRegisters, JobPushes, JobStores, Fails, JobRegisterFails, Undisturbed
<1>10. CASE Fails /\ ApiRestarts
  BY <1>3, <1>10 DEF ApiRestarts, Returned
<1>11. CASE UNCHANGED mcVars
  BY <1>3, <1>11, LeftAlone DEF mcVars, vars
<1>11a. CASE PollWorks
  BY <1>3, <1>5, <1>11a DEF PollWorks, PollStep, PollStarts, PollGivesUp, PollTakesResult,
     PollSaves, Undisturbed
<1>12. ~Polls /\ \A d \in Clients : ~Deliver(d) /\ ~Settle(d)
  BY <1>4 DEF Polls, Deliver, Settle
<1>13. QED
  BY <1>6, <1>7, <1>8, <1>9, <1>10, <1>11, <1>11a, <1>12 DEF MCNext, Work, Fails, Outage

LEMMA AloneInvariance == MCSpec => []AloneInv
<1>1. MCInit => AloneInv
  BY NobodyAssumption DEF MCInit, Init, NoPoll, PollShape, AloneInv
<1>2. IInv /\ OneApproval /\ AloneInv /\ [MCNext]_mcVars => AloneInv'
  BY AloneStep
<1>3. QED
  BY <1>1, <1>2, ApprovalsInOrder, PTL DEF MCSpec

\* What has been settled stays so, whoever steps, until the next approval.
SettledSends ==
    \A v \in DOMAIN versions, b \in Bodies :
        v = settled /\ b = versions[v].body => SendsUnder(v, b)

LEMMA SettledStays ==
    ASSUME IInv, [Next]_vars, SettledInv, settled' = settled,
           \A v \in Nat, b \in Bodies : Under(v, b) => Under(v, b)' /\ SendsUnder(v, b)
    PROVE  SettledInv' /\ SettledSends
<1>1. Kept /\ \A v \in DOMAIN versions : v \in Nat
  BY RowsOfVersions, StepsKeepVersions DEF IInv
<1>2. SettledSends
  BY <1>1 DEF SettledInv, SettledSends
<1>3. settled' \in DOMAIN versions' \union {0}
  BY <1>1 DEF SettledInv, Kept
<1>4. ASSUME NEW v \in DOMAIN versions', NEW b \in Bodies,
             v = settled', b = versions'[v].body
      PROVE  Under(v, b)'
  <2>1. CASE v \in DOMAIN versions
    BY <1>1, <1>4, <2>1 DEF SettledInv, Kept
  <2>2. v # 0
    <3>1. IInv'
      BY InvariantKept
    <3>2. QED
      BY <1>4, <3>1 DEF IInv, TypeOK
  <2>3. QED
    BY <1>4, <2>1, <2>2 DEF SettledInv
<1>5. QED
  BY <1>2, <1>3, <1>4 DEF SettledInv

\* An approval that has been alone to its end has put its version in force.
LEMMA SettlesUnder ==
    ASSUME IInv, OneApproval, ApprovalInv, AloneInv, NEW c \in Clients, alone = c,
           StartJob(c), NEW v \in Nat, NEW b \in Bodies, v = call[c].version, b = call[c].body
    PROVE  Under(v, b)' /\ SendsUnder(v, b)
<1>1. call \in [Clients -> Calls] /\ call[c].at = "start" /\ b # NoBody
  BY NoBodyAssumption DEF IInv, TypeOK, StartJob, Goto
<1>2. call[c].op = "approve"
  BY <1>1 DEF IInv, CallShape, Calls, DraftShape, DeliverShape
<1>3. UNCHANGED <<versions, runSchema, registered, result, sent, snapshot, poll>>
      /\ job' = Started
  BY DEF StartJob, database, destination, views
<1>4. call'[c] = Returned /\ \A d \in Clients \ {c} : call'[d] = call[d]
  BY <1>1 DEF StartJob, Goto
<1>5. Approvals = {v} /\ runSchema = b
  BY <1>1, <1>2 DEF ApprovalInv, ApprovalOf
<1>6. Undisturbed(c)
  BY <1>2 DEF AloneInv
<1>7. Governs(v, b)'
  BY <1>1, <1>3, <1>5, <1>6 DEF Governs, Undisturbed, RegisteredBy, RulesOf, Approvals, IsApproved
<1>8. ShownUnder(b)'
  BY <1>1, <1>3, <1>6 DEF Undisturbed, ShownUnder, NoSnapshot
<1>9. ASSUME NEW d \in Clients PROVE DeliverUnder(d, v, b)'
  <2>1. CASE d = c
    BY <1>4, <2>1 DEF DeliverUnder, Returned
  <2>2. CASE d # c
    BY <1>2, <1>4, <1>6, <2>2 DEF DeliverUnder, Undisturbed, OneApproval
  <2>3. QED
    BY <2>1, <2>2
<1>10. JobUnder(v, b)'
  BY <1>3, <1>6 DEF Undisturbed, Started, NoJob, JobUnder
<1>11. QED
  BY <1>3, <1>7, <1>8, <1>9, <1>10 DEF Under, SendsUnder

LEMMA SettledStep ==
    ASSUME IInv, OneApproval, ApprovalInv, AloneInv, SettledInv, [MCNext]_mcVars
    PROVE  SettledInv' /\ SettledSends
<1>1. [Next]_vars /\ IInv' /\ Kept
  BY MCStepIsStep, InvariantKept, StepsKeepVersions
<1>2. /\ \A v \in DOMAIN versions : v \in Nat /\ v # 0 /\ versions[v] \in Rows
      /\ \A v \in DOMAIN versions' : v # 0
  BY <1>1, RowsOfVersions DEF IInv, TypeOK
<1>3. ASSUME NEW c \in Clients, Draft(c) PROVE SettledInv' /\ SettledSends
  <2>1. PICK body \in Bodies : BeginDraft(c, body)
    BY <1>3 DEF Draft, Undrafted
  <2>2. settled' = settled
    BY <1>3 DEF Draft
  <2>3. QED
    BY <1>1, <2>1, <2>2, ClientUnder, SettledStays
<1>4. ASSUME NEW c \in Clients, Deliver(c) PROVE SettledInv' /\ SettledSends
  <2>1. PICK version \in DOMAIN versions, keep \in BOOLEAN : BeginDeliver(c, version, keep)
    BY <1>4, KeepsSendingAssumption DEF Deliver
  <2>2. settled' = settled
    BY <1>4 DEF Deliver
  <2>3. QED
    BY <1>1, <2>1, <2>2, ClientUnder, SettledStays
<1>5. ASSUME NEW c \in Clients, ClientStep(c) \/ RegisterFails(c), settled' = settled
      PROVE  SettledInv' /\ SettledSends
  BY <1>1, <1>5, ClientUnder, SettledStays
<1>6. CASE JobWorks \/ Polls \/ PollWorks \/ (Fails /\ (JobRegisterFails \/ ApiRestarts)) \/ UNCHANGED mcVars
  <2>1. settled' = settled
    BY <1>6 DEF JobWorks, Polls, PollWorks, Fails, mcVars
  <2>2. JobStep \/ BeginPoll \/ PollStep \/ JobRegisterFails \/ ApiRestarts \/ UNCHANGED vars
    BY <1>6 DEF JobWorks, Polls, PollWorks, mcVars
  <2>3. QED
    BY <1>1, <2>1, <2>2, OthersUnder, SettledStays
<1>7. ASSUME NEW c \in Clients, Approve(c) PROVE SettledInv' /\ SettledSends
  <2>1. settled' = 0 /\ sent' = sent
    BY <1>7 DEF Approve, BeginApprove, destination
  <2>2. QED
    BY <1>2, <2>1 DEF SettledInv, SettledSends, SendsUnder
<1>8. ASSUME NEW c \in Clients, Settle(c), alone = c PROVE SettledInv' /\ SettledSends
  <2>1. StartJob(c) /\ settled' = call[c].version /\ UNCHANGED <<versions, sent>>
    BY <1>8 DEF Settle, StartJob, database, destination
  <2>2. ApproveShape(c) /\ call[c].op = "approve"
    BY <2>1 DEF StartJob, Goto, IInv, TypeOK, CallShape, Calls, DraftShape, DeliverShape
  <2>3. settled' \in DOMAIN versions'
    BY <2>1, <2>2 DEF ApproveShape
  <2>4. ASSUME NEW v \in DOMAIN versions', NEW b \in Bodies,
               v = settled', b = versions'[v].body
        PROVE  Under(v, b)'
    BY <1>2, <1>8, <2>1, <2>2, <2>4, SettlesUnder DEF ApproveShape
  <2>5. QED
    BY <2>1, <2>3, <2>4 DEF SettledInv, SettledSends, SendsUnder
<1>9. ASSUME NEW c \in Clients, Work(c) PROVE SettledInv' /\ SettledSends
  <2>1. CASE Settle(c) /\ alone # c
    BY <1>5, <2>1 DEF Settle, ClientStep, Approving
  <2>2. CASE ClientStep(c) /\ UNCHANGED <<left, alone, settled>>
    BY <1>5, <2>2
  <2>3. QED
    BY <1>8, <1>9, <2>1, <2>2 DEF Work
<1>10. ASSUME NEW c \in Clients, Fails, RegisterFails(c) PROVE SettledInv' /\ SettledSends
  BY <1>5, <1>10 DEF Fails
<1>11. QED
  BY <1>3, <1>4, <1>6, <1>7, <1>9, <1>10 DEF MCNext, Fails, Outage

LEMMA SettledInvariance == MCSpec => []SettledInv /\ [][SettledSends]_mcVars
<1>1. MCInit => SettledInv
  BY DEF MCInit, Init, SettledInv
<1>2. IInv /\ OneApproval /\ ApprovalInv /\ AloneInv /\ SettledInv /\ [MCNext]_mcVars
         => SettledInv' /\ SettledSends
  BY SettledStep
<1>3. QED
  BY <1>1, <1>2, ApprovalsInOrder, AloneInvariance, PTL DEF MCSpec

\* An approval that nothing overlaps, and nothing interrupts, is in force in all
\* three places - the row, the run, the destination - until the next approval, and
\* nobody is shown a result or a stored view of another schema.
THEOREM SettledApprovalAlwaysGoverns == MCSpec => []SettledApprovalGoverns
<1>1. IInv /\ SettledInv => SettledApprovalGoverns
  <2>. SUFFICES ASSUME IInv, SettledInv, settled # 0
                PROVE  /\ Approvals = {settled}
                       /\ runSchema = SettledBody
                       /\ {r \in registered : r.version = settled} =
                             {[version |-> settled, body |-> SettledBody]}
                       /\ {result, snapshot.shape, poll.shape} \subseteq {NoBody, SettledBody}
    BY DEF SettledApprovalGoverns
  <2>1. settled \in DOMAIN versions
    BY DEF SettledInv
  <2>2. SettledBody \in Bodies
    BY <2>1, RowsOfVersions DEF IInv, SettledBody, Rows
  <2>3. Governs(settled, SettledBody) /\ ShownUnder(SettledBody)
    BY <2>1, <2>2 DEF SettledInv, SettledBody, Under
  <2>4. QED
    BY <2>3 DEF Governs, RulesOf, ShownUnder
<1>2. QED
  BY <1>1, ApprovalsInOrder, SettledInvariance, PTL

\* ... and what is sent until then is sent under it, shaped and checked by its
\* schema, whoever sends it and whatever the API forgets meanwhile.
THEOREM SettledSendingsAlways == MCSpec => SettledSendings
<1>1. ASSUME IInv, SettledInv, SettledSends
      PROVE  settled # 0 =>
                sent' \ sent \subseteq
                    {[version |-> settled, shape |-> SettledBody, rules |-> SettledBody]}
  <2>. SUFFICES ASSUME settled # 0 PROVE SendsUnder(settled, SettledBody)
    BY DEF SendsUnder
  <2>1. settled \in DOMAIN versions
    BY <1>1 DEF SettledInv
  <2>2. SettledBody \in Bodies
    BY <1>1, <2>1, RowsOfVersions DEF IInv, SettledBody, Rows
  <2>3. QED
    BY <1>1, <2>1, <2>2 DEF SettledSends, SettledBody
<1>2. QED
  BY <1>1, ApprovalsInOrder, SettledInvariance, PTL DEF SettledSendings
=============================================================================
