---------------------------- MODULE MCLogPipeline ----------------------------
(* Small instances of LogPipeline for TLC. *)
EXTENDS LogPipeline

CONSTANT l1

\* One record fills a packet of size 2 alone.
Sizes == [l \in Logs |-> IF l = l1 THEN 2 ELSE 1]
=============================================================================
