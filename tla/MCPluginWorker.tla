--------------------------- MODULE MCPluginWorker ---------------------------
(* Instances of PluginWorker for TLC.                                       *)
EXTENDS PluginWorker, TLC

\* Calls are interchangeable.
Symmetry == Permutations(Calls)

=============================================================================
