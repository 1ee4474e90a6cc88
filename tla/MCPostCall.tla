----------------------------- MODULE MCPostCall -----------------------------
(* Instances of PostCall for TLC.  Tasks and handlers are model values of   *)
(* the configurations; no symmetry, as a liveness property is checked.      *)
EXTENDS PostCall
=============================================================================
