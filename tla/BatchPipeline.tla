---------------------------- MODULE BatchPipeline ----------------------------
(***************************************************************************)
(* What the batch processors of the repository promise their callers: an   *)
(* item a producer got accepted is handed to the exporter exactly once, in *)
(* the order of acceptance, in batches of at most MaxBatch items, and the  *)
(* pipeline is only closed once nothing accepted is left inside it.        *)
(* "Delivered" means passed to the exporter: the processors drop a batch   *)
(* whose export failed (sdk/trace/batch_span_processor.go:287-292).        *)
(***************************************************************************)
EXTENDS Naturals, Sequences, SequencesExt

CONSTANTS Item,      \* everything a producer may hand over, each item once
          MaxBatch   \* the largest batch one export carries

VARIABLES pending,    \* accepted and not yet passed to the exporter, in order
          delivered,  \* passed to the exporter, in order
          closed      \* the consumer is gone

pipeVars == <<pending, delivered, closed>>

Init == /\ pending = <<>>
        /\ delivered = <<>>
        /\ closed = FALSE

Fresh(i) == i \notin ToSet(pending) \cup ToSet(delivered)

Accept(i) ==
    /\ ~closed
    /\ Fresh(i)
    /\ pending' = Append(pending, i)
    /\ UNCHANGED <<delivered, closed>>

Deliver(n) ==
    /\ n \in 1 .. MaxBatch
    /\ n <= Len(pending)
    /\ delivered' = delivered \o SubSeq(pending, 1, n)
    /\ pending' = SubSeq(pending, n + 1, Len(pending))
    /\ UNCHANGED closed

Close ==
    /\ pending = <<>>
    /\ closed' = TRUE
    /\ UNCHANGED <<pending, delivered>>

Next == \/ \E i \in Item : Accept(i)
        \/ \E n \in 1 .. MaxBatch : Deliver(n)
        \/ Close

Spec == Init /\ [][Next]_pipeVars
=============================================================================
