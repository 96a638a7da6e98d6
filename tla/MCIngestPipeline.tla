-------------------------- MODULE MCIngestPipeline --------------------------
(***************************************************************************)
(* Instances of IngestPipeline for TLC.                                    *)
(***************************************************************************)
EXTENDS IngestPipeline

CONSTANT t1

\* The second record of t1 does not unmarshal.
OnePoison == {[topic |-> t1, offset |-> 2]}
=============================================================================
