----------------------------- MODULE MCCallRun -----------------------------
(* Small instances of CallRun.                                             *)
EXTENDS CallRun

CONSTANTS t1, cron

(* Classes of call failures: those of each run.                            *)
RetryErrors    == {"none", "max_retries", "retryable"}
CustomerErrors == {"none", "max_retries", "unanswered"}

(* One provider for all tasks.                                             *)
OnVapi    == [t \in Tasks |-> "vapi"]
OnPipecat == [t \in Tasks |-> "pipecat"]

(* What a user may ask for: a run at once, or at a later time as well.     *)
JustPending == {"pending"}
EitherWay   == {"pending", "scheduled"}

NoFaults  == {}
CrashOnly == {"crash"}

Immortal  == {}
SlotsOnly == Scanners \ {Cron}
=============================================================================
