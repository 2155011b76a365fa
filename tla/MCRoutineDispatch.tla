-------------------------- MODULE MCRoutineDispatch --------------------------
(* Instances of RoutineDispatch for TLC.                                    *)
EXTENDS RoutineDispatch, TLC

\* Handlers are interchangeable.
Symmetry == Permutations(Procs)

=============================================================================
