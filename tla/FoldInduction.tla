---------------------------- MODULE FoldInduction ----------------------------
(***************************************************************************)
(* Induction over the folds that the pipeline's stages are built from: an  *)
(* invariant that the base has and every step keeps is one of the result.  *)
(* The step and the invariant are parameters of the module, so that an     *)
(* instance of it stands for one loop of the code; p and q are what the    *)
(* loop closes over.  What a proof needs of induction over numbers and of  *)
(* finite sets comes with the sequence or the set that is gone through, so *)
(* that no instance carries a library with it.                             *)
(***************************************************************************)
EXTENDS Integers, Sequences

CONSTANTS
    Step(_, _, _, _),   \* what the loop makes of a state and an element
    Inv(_, _, _, _, _)  \* the invariant: p, q, where the loop began, after how many elements

\* A number that is reached from 0 step by step.
Reached(N) ==
    /\ N \in Nat
    /\ \A T : 0 \in T /\ (\A n \in 0..(N - 1) : n \in T => n + 1 \in T) => N \in T

-----------------------------------------------------------------------------
(***************************************************************************)
(* The function a fold is defined by: from the subsets of S, taken apart   *)
(* at the element that pick gives, element at(x) for x.                    *)
(***************************************************************************)
Unfolds(it, p, q, base, D, pick, at) ==
    it = [t \in D |-> IF t = {} THEN base
                      ELSE Step(p, q, it[t \ {pick[t]}], at[pick[t]])]

\* Taking out what is picked leaves a smaller set.
Shrinks(S, N, size, pick) ==
    /\ Reached(N)
    /\ \A t \in SUBSET S :
         /\ size[t] \in 0..N
         /\ size[t] = 0 => t = {}
         /\ t # {} => pick[t] \in t /\ size[t \ {pick[t]}] < size[t]
Small(S, size, n) == {t \in SUBSET S : t = {} \/ size[t] <= n}

\* There is such a function.
LEMMA UnfoldsExists ==
    ASSUME NEW p, NEW q, NEW base, NEW S, NEW N, NEW size, NEW pick, Shrinks(S, N, size, pick), NEW at
    PROVE  \E it : Unfolds(it, p, q, base, SUBSET S, pick, at)
<1> DEFINE Below(n) == Small(S, size, n)
           Good(n) == \E it : Unfolds(it, p, q, base, Below(n), pick, at)
           T == {n \in 0..N : Good(n)}
<1>1. N \in Nat
  BY DEF Shrinks, Reached
<1>2. \A t \in SUBSET S : size[t] \in 0..N /\ (size[t] = 0 => t = {})
  BY DEF Shrinks
<1>3. 0 \in T
  <2> DEFINE it == [t \in Below(0) |-> base]
  <2>1. \A t \in Below(0) : t = {}
    BY <1>1, <1>2 DEF Small
  <2>2. Unfolds(it, p, q, base, Below(0), pick, at)
    BY <2>1 DEF Unfolds
  <2>3. QED
    BY <1>1, <2>2
<1>4. ASSUME NEW n \in 0..(N - 1), n \in T PROVE n + 1 \in T
  <2>1. PICK it : Unfolds(it, p, q, base, Below(n), pick, at)
    BY <1>4
  <2> DEFINE Next(t) == Step(p, q, it[t \ {pick[t]}], at[pick[t]])
             more == [t \in Below(n + 1) |-> IF t \in Below(n) THEN it[t] ELSE Next(t)]
  <2>2. ASSUME NEW t \in Below(n + 1), t # {}
        PROVE  more[t] = Step(p, q, more[t \ {pick[t]}], at[pick[t]])
    <3>1. t \ {pick[t]} \in Below(n) /\ t \ {pick[t]} \in Below(n + 1)
      <4>1. t \in SUBSET S /\ size[t] <= n + 1
        BY <2>2 DEF Small
      <4>2. size[t \ {pick[t]}] < size[t] /\ size[t] \in 0..N /\ size[t \ {pick[t]}] \in 0..N
        BY <2>2, <4>1 DEF Shrinks
      <4>3. QED
        BY <1>1, <4>1, <4>2 DEF Small
    <3>2. more[t \ {pick[t]}] = it[t \ {pick[t]}]
      BY <3>1
    <3>3. t \in Below(n) => it[t] = Next(t)
      BY <2>1, <2>2 DEF Unfolds
    <3>4. more[t] = Next(t)
      BY <3>3
    <3>5. QED
      BY <3>2, <3>4
  <2>3. {} \in Below(n) /\ {} \in Below(n + 1)
    BY DEF Small
  <2>4. it[{}] = base
    BY <2>1, <2>3 DEF Unfolds
  <2>5. more[{}] = base
    BY <2>3, <2>4
  <2>6. Unfolds(more, p, q, base, Below(n + 1), pick, at)
    <3> HIDE DEF Next
    <3>1. more = [t \in Below(n + 1) |-> more[t]]
      OBVIOUS
    <3> HIDE DEF more
    <3>2. \A t \in Below(n + 1) :
            more[t] = IF t = {} THEN base ELSE Step(p, q, more[t \ {pick[t]}], at[pick[t]])
      BY <2>2, <2>5
    <3>3. QED
      BY <3>1, <3>2 DEF Unfolds
  <2>7. n + 1 \in 0..N
    BY <1>1
  <2>8. QED
    BY <2>6, <2>7
<1>5. N \in T
  <2> HIDE DEF T
  <2>1. Reached(N)
    BY DEF Shrinks
  <2>2. QED
    BY <1>3, <1>4, <2>1 DEF Reached
<1>6. Below(N) = SUBSET S
  BY <1>1, <1>2 DEF Small
<1>7. QED
  BY <1>5, <1>6

\* Such a function goes from subset to larger subset.
LEMMA UnfoldsAt ==
    ASSUME NEW p, NEW q, NEW base, NEW D, NEW pick, NEW at, NEW it,
           Unfolds(it, p, q, base, D, pick, at), {} \in D
    PROVE  /\ it[{}] = base
           /\ \A t \in D : t # {} => it[t] = Step(p, q, it[t \ {pick[t]}], at[pick[t]])
BY DEF Unfolds
-----------------------------------------------------------------------------
(***************************************************************************)
(* A loop over a sequence takes apart the set of its places at the last.   *)
(***************************************************************************)
Last(t) == CHOOSE x \in t : \A y \in t : x >= y
HasLast(t) == \E x \in t : \A y \in t : x >= y

\* Places that are some have a last one,
LEMMA LastExists ==
    ASSUME NEW N, Reached(N), NEW t \in SUBSET (1..N), t # {}
    PROVE  Last(t) \in t /\ \A x \in t : Last(t) >= x
<1> DEFINE T == {n \in 0..N : \A s \in SUBSET (1..n) : s # {} => HasLast(s)}
<1>0. N \in Nat
  BY DEF Reached
<1>1. 0 \in T
  <2>1. 1..0 = {} /\ 0 \in 0..N
    BY <1>0
  <2>2. QED
    BY <2>1
<1>2. ASSUME NEW n \in 0..(N - 1), n \in T PROVE n + 1 \in T
  <2>1. ASSUME NEW s \in SUBSET (1..(n + 1)), s # {} PROVE HasLast(s)
    <3>1. CASE n + 1 \in s
      BY <3>1 DEF HasLast
    <3>2. CASE n + 1 \notin s
      <4>1. s \in SUBSET (1..n)
        BY <3>2
      <4>2. QED
        BY <1>2, <2>1, <4>1
    <3>3. QED
      BY <3>1, <3>2
  <2>2. n + 1 \in 0..N
    BY <1>0
  <2>3. QED
    BY <2>1, <2>2
<1>3. N \in T
  <2> HIDE DEF T
  <2>1. QED
    BY <1>1, <1>2 DEF Reached
<1>4. HasLast(t)
  BY <1>3
<1>5. QED
  BY <1>4 DEF HasLast, Last

\* which of the first ones is the one up to which they go.
LEMMA LastOf ==
    ASSUME NEW n \in Nat
    PROVE  Last(1..(n + 1)) = n + 1
<1>1. n + 1 \in 1..(n + 1) /\ \A y \in 1..(n + 1) : n + 1 >= y
  OBVIOUS
<1>2. Last(1..(n + 1)) \in 1..(n + 1) /\ \A y \in 1..(n + 1) : Last(1..(n + 1)) >= y
  BY <1>1 DEF Last
<1>3. QED
  BY <1>1, <1>2

\* The places of a sequence go from 1 to its length, which is reached.
Sequence(seq) == Reached(Len(seq)) /\ DOMAIN seq = 1..Len(seq)

\* What a loop over the first n elements makes.
Unfolding(p, q, base, seq) ==
    CHOOSE it : it = [t \in SUBSET DOMAIN seq |-> IF t = {} THEN base
                        ELSE Step(p, q, it[t \ {Last(t)}], seq[Last(t)])]
After(p, q, base, seq, n) == Unfolding(p, q, base, seq)[1..n]

\* The loop: FoldLeft with the definitions it rests on expanded.
Over(p, q, base, seq) == Unfolding(p, q, base, seq)[DOMAIN seq]

\* A loop goes from element to element.
THEOREM FoldSteps ==
    ASSUME NEW p, NEW q, NEW base, NEW seq, Sequence(seq)
    PROVE  /\ After(p, q, base, seq, 0) = base
           /\ \A n \in 1..Len(seq) :
                After(p, q, base, seq, n) = Step(p, q, After(p, q, base, seq, n - 1), seq[n])
           /\ Over(p, q, base, seq) = After(p, q, base, seq, Len(seq))
<1>1. PICK N \in Nat : Reached(N) /\ N = Len(seq) /\ DOMAIN seq = 1..N
  BY DEF Sequence, Reached
<1> DEFINE pick == [t \in SUBSET (1..N) |-> Last(t)]
           size == [t \in SUBSET (1..N) |-> IF t = {} THEN 0 ELSE Last(t)]
           it == Unfolding(p, q, base, seq)
<1>2. Shrinks(1..N, N, size, pick)
  <2>1. ASSUME NEW t \in SUBSET (1..N), t # {}
        PROVE  Last(t) \in t /\ \A x \in t : Last(t) >= x
    BY <1>1, <2>1, LastExists
  <2>2. ASSUME NEW t \in SUBSET (1..N)
        PROVE  /\ size[t] \in 0..N
               /\ size[t] = 0 => t = {}
               /\ t # {} => pick[t] \in t /\ size[t \ {pick[t]}] < size[t]
    <3>1. CASE t = {}
      BY <3>1
    <3>2. CASE t # {}
      <4> DEFINE u == t \ {Last(t)}
      <4>1. Last(t) \in 1..N /\ \A x \in t : Last(t) >= x
        BY <2>1, <3>2
      <4>2. size[t] = Last(t) /\ pick[t] = Last(t) /\ Last(t) \in t
        BY <2>1, <3>2
      <4>3. u \in SUBSET (1..N) /\ u \in SUBSET t /\ Last(t) \notin u
        OBVIOUS
      <4> HIDE DEF u
      <4>4. u = {} => size[u] = 0
        BY <4>3
      <4>5. u # {} => size[u] = Last(u) /\ Last(u) \in u
        BY <2>1, <4>3
      <4>6. u # {} => Last(u) \in t /\ Last(u) # Last(t) /\ Last(u) \in 1..N
        BY <4>3, <4>5
      <4>7. size[u] < size[t]
        BY <4>1, <4>2, <4>4, <4>5, <4>6
      <4>8. QED
        BY <4>1, <4>2, <4>7 DEF u
    <3>3. QED
      BY <3>1, <3>2
  <2>3. QED
    BY <1>1, <2>2 DEF Shrinks
<1>3. \A i : Unfolds(i, p, q, base, SUBSET (1..N), pick, seq) <=>
               i = [t \in SUBSET (1..N) |-> IF t = {} THEN base
                      ELSE Step(p, q, i[t \ {Last(t)}], seq[Last(t)])]
  BY DEF Unfolds
<1> HIDE DEF pick
<1>4. Unfolds(it, p, q, base, SUBSET (1..N), pick, seq)
  <2>1. \E i : i = [t \in SUBSET (1..N) |-> IF t = {} THEN base
                      ELSE Step(p, q, i[t \ {Last(t)}], seq[Last(t)])]
    BY <1>2, <1>3, UnfoldsExists
  <2>2. it = [t \in SUBSET (1..N) |-> IF t = {} THEN base
                      ELSE Step(p, q, it[t \ {Last(t)}], seq[Last(t)])]
    BY <1>1, <2>1 DEF Unfolding
  <2> HIDE DEF it
  <2>3. QED
    BY <1>3, <2>2
<1>5. Over(p, q, base, seq) = it[1..N]
  BY <1>1 DEF Over
<1>6. \A n : After(p, q, base, seq, n) = it[1..n]
  BY DEF After
<1> HIDE DEF it
<1>7. /\ it[{}] = base
      /\ \A t \in SUBSET (1..N) : t # {} => it[t] = Step(p, q, it[t \ {pick[t]}], seq[pick[t]])
  <2>1. {} \in SUBSET (1..N)
    OBVIOUS
  <2> DEFINE D == SUBSET (1..N)
  <2>2. Unfolds(it, p, q, base, D, pick, seq) /\ {} \in D
    BY <1>4, <2>1
  <2> HIDE DEF D
  <2>3. it[{}] = base /\ \A t \in D : t # {} => it[t] = Step(p, q, it[t \ {pick[t]}], seq[pick[t]])
    BY <2>2, UnfoldsAt
  <2>4. QED
    BY <2>3 DEF D
<1>8. ASSUME NEW n \in 1..N PROVE it[1..n] = Step(p, q, it[1..(n - 1)], seq[n])
  <2>1. 1..n \in SUBSET (1..N) /\ 1..n # {}
    <3>1. n \in 1..n /\ \A m \in 1..n : m \in 1..N
      BY <1>1
    <3>2. QED
      BY <3>1
  <2>2. Last(1..n) = n
    <3>1. n - 1 \in Nat /\ (n - 1) + 1 = n
      BY <1>1
    <3>2. QED
      BY <3>1, LastOf
  <2>3. (1..n) \ {n} = 1..(n - 1)
    BY <1>1
  <2>4. pick[1..n] = n
    BY <2>1, <2>2 DEF pick
  <2>5. QED
    BY <1>7, <2>1, <2>3, <2>4
<1>9. 1..0 = {}
  OBVIOUS
<1>10. QED
  BY <1>1, <1>5, <1>6, <1>7, <1>8, <1>9

\* An invariant of every step of a loop over a sequence is one of its result.
THEOREM FoldKeeps ==
    ASSUME NEW p, NEW q, NEW base, NEW seq, Sequence(seq), Inv(p, q, base, 0, base),
           \A n \in 1..Len(seq) : \A x :
              Inv(p, q, base, n - 1, x) => Inv(p, q, base, n, Step(p, q, x, seq[n]))
    PROVE  Inv(p, q, base, Len(seq), Over(p, q, base, seq))
<1>1. PICK N \in Nat : Reached(N) /\ N = Len(seq)
  BY DEF Sequence, Reached
<1> DEFINE after(n) == After(p, q, base, seq, n)
           T == {n \in 0..N : Inv(p, q, base, n, after(n))}
<1>2. /\ after(0) = base
      /\ \A n \in 1..Len(seq) : after(n) = Step(p, q, after(n - 1), seq[n])
      /\ Over(p, q, base, seq) = after(Len(seq))
  <2>1. after(0) = base
    BY FoldSteps
  <2>2. Over(p, q, base, seq) = after(Len(seq))
    BY FoldSteps
  <2>3. ASSUME NEW n \in 1..Len(seq) PROVE after(n) = Step(p, q, after(n - 1), seq[n])
    BY FoldSteps
  <2>4. QED
    BY <2>1, <2>2, <2>3
<1> HIDE DEF after
<1>3. 0 \in T
  BY <1>1, <1>2
<1>4. ASSUME NEW n \in 0..(N - 1), n \in T PROVE n + 1 \in T
  <2>1. n + 1 \in 1..N /\ n + 1 \in 0..N /\ (n + 1) - 1 = n
    BY <1>1
  <2>2. after(n + 1) = Step(p, q, after(n), seq[n + 1])
    BY <1>1, <1>2, <2>1
  <2>3. Inv(p, q, base, n + 1, Step(p, q, after(n), seq[n + 1]))
    BY <1>1, <1>4, <2>1
  <2>4. QED
    BY <2>1, <2>2, <2>3
<1>5. N \in T
  <2> HIDE DEF T
  <2>1. QED
    BY <1>1, <1>3, <1>4 DEF Reached
<1>6. QED
  BY <1>1, <1>2, <1>5

-----------------------------------------------------------------------------
(***************************************************************************)
(* A loop over a set, in whatever order: MapThenFoldSet with the           *)
(* definitions it rests on expanded.                                       *)
(***************************************************************************)
Gathering(p, q, base, S) ==
    CHOOSE it : it = [t \in SUBSET S |-> IF t = {} THEN base
                        ELSE Step(p, q, it[t \ {CHOOSE x \in t : TRUE}], CHOOSE x \in t : TRUE)]
Gathered(p, q, base, S) == Gathering(p, q, base, S)[S]

\* A set that taking out elements makes smaller and smaller, down to nothing.
Sized(size, N, S) ==
    /\ Reached(N)
    /\ \A t \in SUBSET S :
         /\ size[t] \in 0..N
         /\ size[t] = 0 => t = {}
         /\ \A e \in t : size[t \ {e}] < size[t]

\* An invariant of every step of a loop over a finite set is one of its result;
\* here it speaks of the elements that were gone through.
THEOREM GatherKeeps ==
    ASSUME NEW p, NEW q, NEW base, NEW S, NEW N, NEW size, Sized(size, N, S),
           Inv(p, q, base, {}, base),
           \A t \in SUBSET S : \A e \in S : \A x :
              Inv(p, q, base, t, x) => Inv(p, q, base, t \cup {e}, Step(p, q, x, e))
    PROVE  Inv(p, q, base, S, Gathered(p, q, base, S))
<1> DEFINE one(t) == CHOOSE x \in t : TRUE
           pick == [t \in SUBSET S |-> one(t)]
           at == [x \in S |-> x]
           it == Gathering(p, q, base, S)
<1>0. N \in Nat /\ \A t \in SUBSET S : size[t] \in 0..N
  BY DEF Sized, Reached
<1>1. Shrinks(S, N, size, pick)
  <2>1. \A t \in SUBSET S : t # {} => pick[t] \in t
    OBVIOUS
  <2> HIDE DEF pick
  <2>2. QED
    BY <2>1 DEF Shrinks, Sized
<1>2. \A t \in SUBSET S : t # {} => pick[t] = one(t) /\ one(t) \in S /\ at[one(t)] = one(t)
  OBVIOUS
<1>3. \A i : Unfolds(i, p, q, base, SUBSET S, pick, at) <=>
               i = [t \in SUBSET S |-> IF t = {} THEN base
                      ELSE Step(p, q, i[t \ {one(t)}], one(t))]
  <2> TAKE i
  <2> HIDE DEF pick, at, one
  <2>1. [t \in SUBSET S |-> IF t = {} THEN base ELSE Step(p, q, i[t \ {pick[t]}], at[pick[t]])]
          = [t \in SUBSET S |-> IF t = {} THEN base ELSE Step(p, q, i[t \ {one(t)}], one(t))]
    BY <1>2
  <2>2. QED
    BY <2>1 DEF Unfolds
<1>4. Unfolds(it, p, q, base, SUBSET S, pick, at)
  <2> DEFINE Is(i) == i = [t \in SUBSET S |-> IF t = {} THEN base
                             ELSE Step(p, q, i[t \ {one(t)}], one(t))]
  <2>1. \E i : Unfolds(i, p, q, base, SUBSET S, pick, at)
    BY <1>1, UnfoldsExists
  <2>2. \A i : Unfolds(i, p, q, base, SUBSET S, pick, at) <=> Is(i)
    BY <1>3
  <2>3. it = CHOOSE i : Is(i)
    BY DEF Gathering
  <2> HIDE DEF it, Is, pick, at
  <2>4. \E i : Is(i)
    BY <2>1, <2>2
  <2>5. Is(it)
    BY <2>3, <2>4
  <2>6. QED
    BY <2>2, <2>5
<1> HIDE DEF it, pick, at, one
<1>5. /\ it[{}] = base
      /\ \A t \in SUBSET S : t # {} => it[t] = Step(p, q, it[t \ {one(t)}], one(t))
  <2> DEFINE D == SUBSET S
  <2>1. Unfolds(it, p, q, base, D, pick, at) /\ {} \in D
    BY <1>4
  <2> HIDE DEF D
  <2>2. it[{}] = base /\ \A t \in D : t # {} => it[t] = Step(p, q, it[t \ {pick[t]}], at[pick[t]])
    BY <2>1, UnfoldsAt
  <2>3. QED
    BY <1>2, <2>2 DEF D
<1> DEFINE T == {n \in 0..N : \A t \in SUBSET S : size[t] <= n => Inv(p, q, base, t, it[t])}
<1>6. 0 \in T
  <2>1. \A t \in SUBSET S : size[t] <= 0 => t = {}
    BY <1>0 DEF Sized
  <2>2. \A t \in SUBSET S : size[t] <= 0 => Inv(p, q, base, t, it[t])
    BY <1>5, <2>1
  <2>3. QED
    BY <1>0, <2>2
<1>7. ASSUME NEW n \in 0..(N - 1), n \in T PROVE n + 1 \in T
  <2>0. n \in Nat /\ n + 1 \in 0..N
    BY <1>0
  <2>1. ASSUME NEW t \in SUBSET S, size[t] <= n + 1 PROVE Inv(p, q, base, t, it[t])
    <3>1. CASE t = {}
      BY <1>5, <3>1
    <3>2. CASE t # {}
      <4>1. one(t) \in t
        BY <3>2 DEF one
      <4>2. t \ {one(t)} \in SUBSET S /\ size[t \ {one(t)}] < size[t]
        BY <4>1 DEF Sized
      <4>3. size[t \ {one(t)}] <= n
        BY <1>0, <2>0, <2>1, <4>2
      <4>4. Inv(p, q, base, t \ {one(t)}, it[t \ {one(t)}])
        BY <1>7, <4>2, <4>3
      <4>5. Inv(p, q, base, (t \ {one(t)}) \cup {one(t)}, Step(p, q, it[t \ {one(t)}], one(t)))
        BY <4>1, <4>2, <4>4
      <4>6. (t \ {one(t)}) \cup {one(t)} = t
        BY <4>1
      <4>7. QED
        BY <1>5, <3>2, <4>5, <4>6
    <3>3. QED
      BY <3>1, <3>2
  <2>2. QED
    BY <2>0, <2>1
<1>8. N \in T
  <2> HIDE DEF T
  <2>1. Reached(N)
    BY DEF Sized
  <2>2. QED
    BY <1>6, <1>7, <2>1 DEF Reached
<1>9. Gathered(p, q, base, S) = it[S]
  BY DEF Gathered, it
<1>10. QED
  BY <1>0, <1>8, <1>9
=============================================================================
