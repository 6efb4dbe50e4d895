--------------------------- MODULE UsagePipelineMC ---------------------------
(***************************************************************************)
(* Instances of UsagePipeline for TLC.                                     *)
(***************************************************************************)
EXTENDS UsagePipeline

\* Traffic counts one and a half times: some amounts are rounded.
Half == [n \in Nodes |-> 15]
=============================================================================
