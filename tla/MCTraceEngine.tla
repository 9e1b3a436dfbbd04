--------------------------- MODULE MCTraceEngine ---------------------------
(* Instance of TraceEngine for TLC.                                        *)
EXTENDS TraceEngine
=============================================================================
