------------------------------ MODULE MCServices ------------------------------
(* Two threads that score and one that asks for features, a queue of two alerts,
   two starts of every thread, two requests in two lives of the server, and the
   replays of MCReplay. *)
EXTENDS Services, MCReplay

CONSTANTS a1
===============================================================================
