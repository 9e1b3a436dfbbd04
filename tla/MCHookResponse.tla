--------------------------- MODULE MCHookResponse ---------------------------
(* Instance of HookResponse for TLC.                                        *)
EXTENDS HookResponse
=============================================================================
