---------------------------- MODULE MCCallTask ----------------------------
(* Small instances of CallTask.                                            *)
EXTENDS CallTask, TLC

CONSTANTS t1, t2

MCErrors == {"none", "max_retries", "other"}

(* One provider for each task of the run.                                  *)
OnVapi    == [t \in Tasks |-> "vapi"]
OnPipecat == [t \in Tasks |-> "pipecat"]

(* What a user may ask for: a run at once, or at a later time as well.     *)
JustPending == {"pending"}
EitherWay   == {"pending", "scheduled"}

NoFaults      == {}
AllButOverrun == FaultKinds \ {"overrun"}
CrashEvict    == {"crash", "evict"}

Symmetry == Permutations(Flows)
=============================================================================
