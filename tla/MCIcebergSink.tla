--------------------------- MODULE MCIcebergSink ---------------------------
(* Three transactions, the first of them twice in the stream. *)
EXTENDS IcebergSink

CONSTANTS a, b, c

MCStream == <<a, b, a, c>>
=============================================================================
