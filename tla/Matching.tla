------------------------------ MODULE Matching ------------------------------
(***************************************************************************)
(* Which records describe the same entity (matching.py): pairs come from   *)
(* blocking keys, each is scored per 10,000 and decided without a model.   *)
(***************************************************************************)
EXTENDS TargetSchema

AutoMerge == 9200
ReviewMatch == 7200

Weight(field) == IF FieldSpec[field].unique THEN 3 ELSE IF FieldSpec[field].required THEN 2 ELSE 1

WeightOf(fields) == MapThenSumSet(Weight, fields)

\* The fields both records have, and those of them they agree on.
Shared(left, right) == {f \in FieldNames : Get(left, f) # None /\ Get(right, f) # None}
Agreed(left, right) == {f \in Shared(left, right) : Alike(f, left[f], right[f])}
Conflicted(left, right) == Shared(left, right) \ Agreed(left, right)

\* conflicting_fields: the same, in the schema's order, for two records
\* already known to be one.
ConflictingFields(left, right) == Those(FieldOrder, Conflicted(left, right))

MatchScore(left, right) ==
  LET shared == Shared(left, right)
  IN  IF shared = {} THEN 0 ELSE (10000 * WeightOf(Agreed(left, right))) \div WeightOf(shared)

AutoOrAsk(score) == IF score >= ReviewMatch THEN "review" ELSE "no_match"

\* A conflict on a unique field is never merged without asking, an agreement
\* on one always is; then the fields that never justify a merge, then the score.
DecidePair(left, right) ==
  LET agreed == Agreed(left, right)
      unique == {f \in FieldNames : FieldSpec[f].unique}
      score  == MatchScore(left, right)
  IN  IF Conflicted(left, right) \cap unique # {} THEN AutoOrAsk(score)
      ELSE IF agreed \cap unique # {}             THEN "auto_merge"
      ELSE IF agreed # {} /\ \E forbidden \in NeverMergeOn : agreed \subseteq forbidden
                                                  THEN AutoOrAsk(score)
      ELSE IF score >= AutoMerge                  THEN "auto_merge"
      ELSE AutoOrAsk(score)

\* Records in one bucket of a blocking key: every field of it is there and alike.
SameBucket(block, left, right) ==
  \A f \in Range(block) : f \in Shared(left, right) /\ Alike(f, left[f], right[f])

\* The pairs that share a bucket, by id, with the blocking key that found them
\* first and the place of the bucket's first record.
CandidatePairs(records) ==
  LET blocks(i, j) == {k \in DOMAIN BlockingKeys :
                         SameBucket(BlockingKeys[k], records[i].values, records[j].values)}
      pair(i, j) ==
        LET block == Min(blocks(i, j))
        IN  [left |-> records[i].id, right |-> records[j].id, block |-> block,
             bucket |-> Min({b \in DOMAIN records :
                SameBucket(BlockingKeys[block], records[b].values, records[i].values)}),
             score |-> MatchScore(records[i].values, records[j].values),
             decision |-> DecidePair(records[i].values, records[j].values)]
      places  == DOMAIN records
      pairs   == {p \in places \X places : /\ Place(records[p[1]].id) < Place(records[p[2]].id)
                                           /\ blocks(p[1], p[2]) # {}}
  IN  {pair(p[1], p[2]) : p \in pairs}

\* The best score first; equal scores in the order the pairs were found.
MatchRecords(records) ==
  LET rank(p) == <<-p.score, p.block, p.bucket, Place(p.left), Place(p.right)>>
      before(p, q) == \E i \in 1..5 : /\ rank(p)[i] < rank(q)[i]
                                      /\ \A j \in 1..(i - 1) : rank(p)[j] = rank(q)[j]
  IN  InOrder(CandidatePairs(records), before)
=============================================================================
