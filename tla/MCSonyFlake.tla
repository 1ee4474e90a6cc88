---------------------------- MODULE MCSonyFlake ----------------------------
(* Instances of SonyFlake for TLC. *)
EXTENDS SonyFlake, TLC

CONSTANTS p1, p2, t1, t2, t3

(* Two threads share the first process. *)
MCProc == (t1 :> p1) @@ (t2 :> p1) @@ (t3 :> p2)
(* The two threads of p1 are interchangeable. *)
Symmetry == Permutations({t1, t2})

(* Hosts with addresses of their own. *)
Apart == (p1 :> 0) @@ (p2 :> 1)

(* Two workers of a server, with the default machine id. *)
Alike == (p1 :> 1) @@ (p2 :> 1)
=============================================================================
