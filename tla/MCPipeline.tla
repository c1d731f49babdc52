----------------------------- MODULE MCPipeline -----------------------------
(* Two transactions, the suspicious one twice in the stream. *)
EXTENDS Pipeline

CONSTANTS a, b

MCStream == <<b, Malformed, a, a>>
=============================================================================
