--------------------------- MODULE MCAsyncExporter ---------------------------
(* Small instances of AsyncExporter for TLC. *)
EXTENDS AsyncExporter, TLC

\* Batches, workers and connections are interchangeable; no property of a run that
\* declares the symmetry is a liveness property.
Symmetry == Permutations(Batches) \cup Permutations(Workers) \cup Permutations(Conns)
=============================================================================
