------------------------ MODULE MCBatchSpanProcessor ------------------------
(* Small instances of BatchSpanProcessor for TLC. *)
EXTENDS BatchSpanProcessor

CONSTANTS s1, s2

\* One span fills a packet of size 2 alone, the other does not.
Sizes == [s \in Spans |-> IF s = s1 THEN 2 ELSE 1]
=============================================================================
