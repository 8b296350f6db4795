---------------------- MODULE SchemaVersionsProperties ----------------------
(***************************************************************************)
(* What is asked of SchemaVersions.                                        *)
(***************************************************************************)
EXTENDS SchemaVersions, FiniteSets

Approvals == {v \in DOMAIN versions : IsApproved(v)}
EverApproved == {v \in DOMAIN versions : versions[v].state # "draft"}
ApprovedBodies == {versions[v].body : v \in EverApproved}

\* "Drafts do not affect processing until they are approved" (main.py,
\* put_schema): whatever the run is processed with, whatever is registered or
\* sent, and under whatever version, a person has approved it - however
\* handlers, jobs, outages and restarts interleave.
OnlyApprovedGoverns ==
    /\ {runSchema, result, job.shape, snapshot.shape, poll.shape} \subseteq ApprovedBodies \union {NoBody}
    /\ \A r \in registered : r.version \in EverApproved /\ r.body \in ApprovedBodies
    /\ \A s \in sent :
          s.version \in EverApproved /\ {s.shape, s.rules} \subseteq ApprovedBodies

\* One version is in force: approvals that do not overlap leave at most one,
\* wherever they are cut short (store.py, approve_schema).
OneApproved == Cardinality(Approvals) <= 1

\* "Approved versions are never edited in place" (store.py, add_schema_version):
\* no row changes its schema or becomes a draft again, also when two drafts are
\* given the same number.
VersionsKept ==
    [][\A v \in DOMAIN versions :
          /\ v \in DOMAIN versions'
          /\ versions'[v].body = versions[v].body
          /\ versions[v].state # "draft" => versions'[v].state # "draft"]_versions

\* "A delivered record was shaped by a particular version of the schema"
\* (store.py, add_schema_version): the one it is recorded under.
SentUnderItsVersion == \A s \in sent : s.shape = versions[s.version].body
=============================================================================
