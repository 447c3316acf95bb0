-------------------------- MODULE MCExportPipeline --------------------------
(***************************************************************************)
(* Instances of ExportPipeline for TLC.                                    *)
(***************************************************************************)
EXTENDS ExportPipeline, TLC

CONSTANTS p1, p2, e1, e2

AllSkip == Projects
NoneSkip == {}


=============================================================================
