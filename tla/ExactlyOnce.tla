---------------------------- MODULE ExactlyOnce ----------------------------
(***************************************************************************)
(* What delivery promises the destination's owner, with nothing of how:    *)
(* of every record at most one copy is held at a time, the copies of a     *)
(* record are numbered 1, 2, 3, ... in the order they are held, a new one  *)
(* only comes after the one before was undone, and an undone copy never    *)
(* comes back.                                                             *)
(***************************************************************************)
EXTENDS Naturals, FiniteSets

CONSTANTS Keys, Payloads

VARIABLES
    held,       \* the copy held of each record: a set of at most one
    undone      \* the numbers of the copies of each record that were undone

onceVars == <<held, undone>>

Init ==
    /\ held = [k \in Keys |-> {}]
    /\ undone = [k \in Keys |-> {}]

\* The next copy is held.
Hold(k, payload) ==
    /\ held[k] = {}
    /\ held' = [held EXCEPT ![k] =
                  {[gen |-> Cardinality(undone[k]) + 1, payload |-> payload]}]
    /\ UNCHANGED undone

\* The copy held is undone, for good.
Undo(k) ==
    /\ held[k] # {}
    /\ held' = [held EXCEPT ![k] = {}]
    /\ undone' = [undone EXCEPT ![k] = @ \union {c.gen : c \in held[k]}]

Next == \E k \in Keys : Undo(k) \/ \E payload \in Payloads : Hold(k, payload)

Spec == Init /\ [][Next]_onceVars
=============================================================================
