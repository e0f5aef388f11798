---------------------------- MODULE AflRunTarget ----------------------------
(***************************************************************************)
(* What the rest of afl-fuzz expects of afl_fsrv_run_target: runs of the   *)
(* target follow one another, the target ends each of them once, and the   *)
(* answer to a run speaks of that run.  Only after a stop request is the   *)
(* answer worthless; common_fuzz_stuff drops it then.                      *)
(*                                                                         *)
(* AflForkserver is shown to implement this specification.                 *)
(***************************************************************************)
EXTENDS Integers

CONSTANT MaxRuns                  \* bound on the number of runs

Run == 1 .. MaxRuns
Fate == {"none", "ok", "crash", "killed"}

\* What afl_fsrv_run_target returns: FSRV_RUN_OK, _CRASH and _TMOUT.
Outcome == {"ok", "crash", "tmout"}
NoResult == [run |-> 0, outcome |-> "ok"]

VARIABLES
    phase,            \* "idle", "busy" in a run, or "over"
    run,              \* the number of runs requested so far
    fate,             \* how the target ended each run
    result,           \* the last answer
    stopping          \* a stop was requested

vars == <<phase, run, fate, result, stopping>>

Init ==
    /\ phase = "idle"
    /\ run = 0
    /\ fate = [r \in Run |-> "none"]
    /\ result = NoResult
    /\ stopping = FALSE

Begin ==
    /\ phase = "idle" /\ run < MaxRuns
    /\ phase' = "busy"
    /\ run' = run + 1
    /\ UNCHANGED <<fate, result, stopping>>

\* The target acts only inside its run.  A process the stop left behind may
\* still end.
TargetEnds(f) ==
    /\ phase = "busy" \/ stopping
    /\ run \in Run /\ fate[run] = "none"
    /\ fate' = [fate EXCEPT ![run] = f]
    /\ UNCHANGED <<phase, run, result, stopping>>

Answers(o) ==
    \/ stopping
    \/ o = "tmout" /\ fate[run] # "none"
    \/ o = fate[run]

Return(o) ==
    /\ phase = "busy"
    /\ Answers(o)
    /\ phase' = "idle"
    /\ result' = [run |-> run, outcome |-> o]
    /\ UNCHANGED <<run, fate, stopping>>

Stop ==
    /\ phase # "over"
    /\ stopping' = TRUE
    /\ UNCHANGED <<phase, run, fate, result>>

GiveUp ==
    /\ phase # "over"
    /\ phase' = "over"
    /\ UNCHANGED <<run, fate, result, stopping>>

Next ==
    \/ Begin
    \/ \E f \in Fate \ {"none"} : TargetEnds(f)
    \/ \E o \in Outcome : Return(o)
    \/ Stop
    \/ GiveUp

Spec == Init /\ [][Next]_vars
=============================================================================
