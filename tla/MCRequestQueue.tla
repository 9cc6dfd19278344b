--------------------------- MODULE MCRequestQueue ---------------------------
(* The request queue for TLC: ordinary and urgent requests, each given to    *)
(* the queue once.  No symmetry: a liveness property is checked.             *)
EXTENDS RequestQueue
=============================================================================
