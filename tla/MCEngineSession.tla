-------------------------- MODULE MCEngineSession --------------------------
(* Small instances of EngineSession. *)
EXTENDS EngineSession, TLC

\* Requests of one kind are interchangeable.
Symmetry == Permutations(Start) \union Permutations(Stop)

=============================================================================
