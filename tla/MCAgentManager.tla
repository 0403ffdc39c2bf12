--------------------------- MODULE MCAgentManager ---------------------------
EXTENDS AgentManager, TLC

(* Identities are interchangeable: sound for the invariants. *)
Alike == Permutations(Sup) \cup Permutations(Proc)
=============================================================================
