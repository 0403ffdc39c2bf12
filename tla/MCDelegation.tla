---------------------------- MODULE MCDelegation ----------------------------
EXTENDS Delegation, TLC

CONSTANT talker

(* Mailboxes are busy at one task; the others have their objective only. *)
Mailboxes == [t \in Task |-> IF t = talker THEN 3 ELSE 1]

(* Tasks of a kind are alike: sound for the run without liveness. *)
Alike == Permutations(Writers) \cup Permutations(Task \ Writers)
=============================================================================
