---------------------------- MODULE AflForkserver ---------------------------
(***************************************************************************)
(* The forkserver protocol: afl-fuzz (afl-forkserver.c, and the signal     *)
(* handler in afl-fuzz-state.c), the server inside the target              *)
(* (__afl_start_forkserver in afl-compiler-rt.o.c) and its children.       *)
(*                                                                         *)
(* Three kinds of processes run concurrently.  afl-fuzz writes the test    *)
(* case into shared memory, clears the trace and sends a request on the    *)
(* control pipe; the server forks a child, or continues a persistent one,  *)
(* and answers on the status pipe with the child's pid and, later, with    *)
(* its wait status.  afl-fuzz kills a child that takes too long and then   *)
(* waits for the server to tell it so.  A stop signal may interrupt        *)
(* afl-fuzz anywhere.                                                      *)
(*                                                                         *)
(* Pids count the forks of the session, so none is reused.                 *)
(***************************************************************************)
EXTENDS Integers, Sequences, FiniteSets

CONSTANTS
    MaxRuns,          \* bound on the number of runs
    Targets,          \* whether the target may call __AFL_LOOP: is_persistent
    Loop,             \* the argument of __AFL_LOOP
    CntWord,          \* 2^32, the number of values of cycle_cnt
    AutoDict,         \* the target offers a dictionary
    Maps,             \* whether the map may be larger than afl-fuzz expected
    ChildKill,        \* child_kill_signal: "KILL" or "TERM"
    CrashCodes,       \* the exit codes that count as a crash
    ForkMayFail

ASSUME ForkserverAssumption ==
    /\ MaxRuns \in Nat \ {0}
    /\ CntWord \in Nat \ {0} /\ Loop \in 0 .. CntWord - 1
    /\ Targets \in SUBSET BOOLEAN /\ AutoDict \in BOOLEAN
    /\ Maps \in SUBSET BOOLEAN
    /\ ChildKill \in {"KILL", "TERM"}
    /\ CrashCodes \subseteq 1 .. 255
    /\ ForkMayFail \in BOOLEAN

Run == 1 .. MaxRuns
Pid == 1 .. MaxRuns               \* a run forks at most one child
NoPid == 0                        \* -1 in the code
SIGSTOP == 19
Fate == {"none", "ok", "crash", "killed"}
Outcome == {"ok", "crash", "tmout"}

\* A wait status, as WIFEXITED, WIFSIGNALED and WIFSTOPPED take it apart.
Status == [how : {"exited", "signaled", "stopped"}, code : 0 .. 255]
NoStatus == [how |-> "exited", code |-> 0]

\* A 32 bit word in a pipe; its kind says what the writer meant by it.
Word(kind, val) == [kind |-> kind, val |-> val]

VARIABLES
    fsrv,             \* afl-fuzz: where it is, and the fields of
                      \* afl_forkserver_t
    srv,              \* the server in the target
    proc, forks,      \* the children, and how many there were
    ctl, st,          \* the control and the status pipe
    input, trace,     \* the shared memory: the test case, and the runs
                      \* whose coverage is in trace_bits
    fate              \* history: how the target ended each run

vars == <<fsrv, srv, proc, forks, ctl, st, input, trace, fate>>

NoChild == [state |-> "none", left |-> 0, doing |-> 0, pending |-> "none",
            status |-> NoStatus]

Alive(p) == p \in Pid /\ proc[p].state \in {"begin", "run", "stop"}

-----------------------------------------------------------------------------
(* Signals.  A stopped process dies of SIGKILL at once, but notices        *)
(* SIGTERM only when it is continued.                                      *)

kill(p, s) == IF Alive(p) THEN [proc EXCEPT ![p].pending = s] ELSE proc

\* The fate of the run p works at when p is killed.
Killed(p) ==
    CASE proc[p].state = "run"   -> [fate EXCEPT ![proc[p].doing] = "killed"]
      [] proc[p].state = "begin" -> [fate EXCEPT ![input] = "killed"]
      [] OTHER                   -> fate

\* The kernel delivers the signal.
Dies(p) ==
    /\ \/ proc[p].pending = "KILL" /\ Alive(p)
       \/ proc[p].pending = "TERM" /\ proc[p].state \in {"begin", "run"}
    /\ proc' = [proc EXCEPT ![p].state = "zombie",
                            ![p].status = [how |-> "signaled", code |-> 9]]
    /\ fate' = Killed(p)
    /\ UNCHANGED <<fsrv, srv, forks, ctl, st, input, trace>>

-----------------------------------------------------------------------------
(* The target.  A child reads the test case, leaves a trace, and exits,    *)
(* crashes, or comes back to __AFL_LOOP; nothing makes it end.             *)

ChildBegins(p) ==
    /\ proc[p].state = "begin"
    /\ proc' = [proc EXCEPT ![p].state = "run", ![p].doing = input]
    /\ trace' = trace \cup {input}
    /\ UNCHANGED <<fsrv, srv, forks, ctl, st, input, fate>>

Ends(p, s, f) ==
    /\ proc' = [proc EXCEPT ![p].state = "zombie", ![p].status = s]
    /\ fate' = [fate EXCEPT ![proc[p].doing] = f]
    /\ UNCHANGED <<fsrv, srv, forks, ctl, st, input, trace>>

ChildExits(p) ==
    /\ proc[p].state = "run"
    /\ \E c \in {0} \cup CrashCodes :
           Ends(p, [how |-> "exited", code |-> c],
                IF c \in CrashCodes THEN "crash" ELSE "ok")

ChildCrashes(p) ==
    /\ proc[p].state = "run"
    /\ Ends(p, [how |-> "signaled", code |-> 11], "crash")

\* --cycle_cnt, a u32.
CountDown(n) == (n - 1) % CntWord

\* __afl_persistent_loop: stop and wait for the next test case, or leave the
\* loop and exit.
ChildLoops(p) ==
    LET left == CountDown(proc[p].left) IN
    /\ fsrv.persistent_mode
    /\ proc[p].state = "run"
    /\ \/ /\ left # 0
          /\ proc' = [proc EXCEPT ![p].state = "stop", ![p].left = left]
          /\ fate' = [fate EXCEPT ![proc[p].doing] = "ok"]
          /\ UNCHANGED <<fsrv, srv, forks, ctl, st, input, trace>>
       \/ /\ left = 0
          /\ Ends(p, [how |-> "exited", code |-> 0], "ok")

-----------------------------------------------------------------------------
(* The server.                                                             *)

ServerUp == [pc |-> "boot", sig |-> FALSE, child_pid |-> NoPid,
             child_stopped |-> FALSE, status |-> NoStatus]

ServerHello ==
    /\ srv.pc = "boot"
    /\ srv' = [srv EXCEPT !.pc = "reply"]
    /\ st' = Append(st, Word("version", 0))
    /\ UNCHANGED <<fsrv, proc, forks, ctl, input, trace, fate>>

\* The words that follow the version: the options, their parameters in the
\* order of the option bits, and the version again.
Options ==
    <<Word("options", 0), Word("map", 0)>>
      \o (IF AutoDict THEN <<Word("dictlen", 0), Word("dict", 0)>> ELSE << >>)
      \o <<Word("version", 0)>>

ServerOptions ==
    /\ srv.pc = "reply" /\ ctl # << >>
    /\ srv' = [srv EXCEPT !.pc = "idle"]
    /\ ctl' = Tail(ctl)
    /\ st' = st \o Options
    /\ UNCHANGED <<fsrv, proc, forks, input, trace, fate>>

\* Whether a stopped child has to be written off: afl-fuzz killed it.
WriteOff(was_killed) == srv.child_stopped /\ was_killed

ServerRead ==
    LET was_killed == Head(ctl).val IN
    /\ srv.pc = "idle" /\ ctl # << >>
    /\ srv' = IF WriteOff(was_killed)
                THEN [srv EXCEPT !.pc = "reap", !.child_stopped = FALSE]
                ELSE [srv EXCEPT !.pc = "go"]
    /\ ctl' = Tail(ctl)
    /\ UNCHANGED <<fsrv, proc, forks, st, input, trace, fate>>

ServerReaps ==
    /\ srv.pc = "reap" /\ proc[srv.child_pid].state = "zombie"
    /\ srv' = [srv EXCEPT !.pc = "go"]
    /\ proc' = [proc EXCEPT ![srv.child_pid].state = "gone"]
    /\ UNCHANGED <<fsrv, forks, ctl, st, input, trace, fate>>

\* fork() returns; its result is not yet in child_pid.
ServerForks ==
    /\ srv.pc = "go" /\ ~srv.child_stopped
    /\ srv' = [srv EXCEPT !.pc = "forked"]
    /\ forks' = forks + 1
    /\ proc' = [proc EXCEPT ![forks + 1] =
                   [NoChild EXCEPT !.state = "begin", !.left = Loop]]
    /\ UNCHANGED <<fsrv, ctl, st, input, trace, fate>>

ServerCannotFork ==
    /\ ForkMayFail
    /\ srv.pc = "go" /\ ~srv.child_stopped
    /\ srv' = [srv EXCEPT !.pc = "dead"]
    /\ UNCHANGED <<fsrv, proc, forks, ctl, st, input, trace, fate>>

ServerTellsPid ==
    /\ srv.pc = "forked"
    /\ srv' = [srv EXCEPT !.pc = "wait", !.child_pid = forks]
    /\ st' = Append(st, Word("pid", forks))
    /\ UNCHANGED <<fsrv, proc, forks, ctl, input, trace, fate>>

\* SIGCONT to the stopped child, which goes on with the next test case.
ServerContinues ==
    /\ srv.pc = "go" /\ srv.child_stopped
    /\ srv' = [srv EXCEPT !.pc = "wait", !.child_stopped = FALSE]
    /\ proc' = IF proc[srv.child_pid].state = "stop"
                 THEN [proc EXCEPT ![srv.child_pid].state = "begin"]
                 ELSE proc
    /\ st' = Append(st, Word("pid", srv.child_pid))
    /\ UNCHANGED <<fsrv, forks, ctl, input, trace, fate>>

\* waitpid(), which sees a stopped child only in persistent mode.
ServerWaits ==
    LET p == srv.child_pid IN
    /\ srv.pc = "wait"
    /\ \/ /\ proc[p].state = "zombie"
          /\ srv' = [srv EXCEPT !.pc = "report", !.status = proc[p].status]
          /\ proc' = [proc EXCEPT ![p].state = "gone"]
       \/ /\ fsrv.persistent_mode /\ proc[p].state = "stop"
          /\ srv' = [srv EXCEPT !.pc = "report", !.child_stopped = TRUE,
                         !.status = [how |-> "stopped", code |-> SIGSTOP]]
          /\ UNCHANGED proc
    /\ UNCHANGED <<fsrv, forks, ctl, st, input, trace, fate>>

ServerReports ==
    /\ srv.pc = "report"
    /\ srv' = [srv EXCEPT !.pc = "idle"]
    /\ st' = Append(st, Word("status", srv.status))
    /\ UNCHANGED <<fsrv, proc, forks, ctl, input, trace, fate>>

\* A variant that does not kill the child.
AtExitLeaves ==
    /\ srv.sig /\ srv.pc # "dead"
    /\ srv' = [srv EXCEPT !.pc = "dead"]
    /\ UNCHANGED <<fsrv, proc, forks, ctl, st, input, trace, fate>>

\* A variant that waits for the child without killing it.
AtExitWaits ==
    /\ srv.child_pid # NoPid =>
           proc[srv.child_pid].state \notin {"begin", "run"}
    /\ AtExitLeaves

\* at_exit, the handler of the server for SIGTERM: kill the child, wait for
\* it, _exit.  Before the handshake there is no child yet.
at_exit ==
    LET p == srv.child_pid IN
    /\ srv.sig /\ srv.pc # "dead"
    /\ srv' = [srv EXCEPT !.pc = "dead"]
    /\ IF Alive(p)
         THEN /\ proc' = [proc EXCEPT ![p].state = "gone"]
              /\ fate' = Killed(p)
         ELSE UNCHANGED <<proc, fate>>
    /\ UNCHANGED <<fsrv, forks, ctl, st, input, trace>>

-----------------------------------------------------------------------------
(* afl-fuzz: the handshake.                                                *)

Goto(pc) == fsrv' = [fsrv EXCEPT !.pc = pc]

\* The version arrived in time; it goes back inverted.
FuzzerHello ==
    /\ fsrv.pc = "hello" /\ st # << >> /\ ~fsrv.stop_soon
    /\ st' = Tail(st)
    /\ ctl' = Append(ctl, Word("reply", 0))
    /\ Goto("options")
    /\ UNCHANGED <<srv, proc, forks, input, trace, fate>>

\* No hello in time, or a stop: kill the target and give up.
HelloFails ==
    /\ fsrv.pc = "hello" /\ (st = << >> \/ fsrv.stop_soon)
    /\ srv' = [srv EXCEPT !.pc = "dead"]
    /\ Goto("fatal")
    /\ UNCHANGED <<proc, forks, ctl, st, input, trace, fate>>

\* A variant that leaves an unwanted dictionary in the pipe.
WordsWithoutDict == 3

\* The words read after the version; the dictionary is read even when it is
\* not wanted.
OptionWords == Len(Options)

FuzzerOptions ==
    /\ fsrv.pc = "options" /\ Len(st) >= OptionWords
    /\ st' = SubSeq(st, OptionWords + 1, Len(st))
    /\ Goto(IF fsrv.larger_map /\ fsrv.starts = 1 THEN "remap" ELSE "ready")
    /\ UNCHANGED <<srv, proc, forks, ctl, input, trace, fate>>

OptionsFail ==
    /\ fsrv.pc = "options" /\ Len(st) < OptionWords /\ srv.pc = "dead"
    /\ Goto("fatal")
    /\ UNCHANGED <<srv, proc, forks, ctl, st, input, trace, fate>>

-----------------------------------------------------------------------------
(* afl-fuzz: a run.                                                        *)

\* afl_fsrv_write_to_testcase, unless the caller saw the stop.
WriteTestcase ==
    /\ fsrv.pc = "ready" /\ ~fsrv.stop_soon /\ fsrv.run < MaxRuns
    /\ fsrv' = [fsrv EXCEPT !.pc = "request", !.run = @ + 1]
    /\ input' = fsrv.run + 1
    /\ UNCHANGED <<srv, proc, forks, ctl, st, trace, fate>>

\* The caller gets 0, which is FSRV_RUN_OK, when a stop spoils the run; all
\* else that fails is fatal.
RunFails ==
    fsrv' = IF fsrv.stop_soon
              THEN [fsrv EXCEPT !.pc = "ready",
                        !.result = [run |-> fsrv.run, outcome |-> "ok"]]
              ELSE [fsrv EXCEPT !.pc = "fatal"]

\* Clear the trace and ask for a child, telling the fate of the last one.
Request ==
    /\ fsrv.pc = "request"
    /\ trace' = {}
    /\ IF srv.pc = "dead"
         THEN RunFails /\ UNCHANGED ctl
         ELSE /\ ctl' = Append(ctl, Word("was_killed",
                                         fsrv.last_run_timed_out))
              /\ fsrv' = [fsrv EXCEPT !.pc = "pid",
                                      !.last_run_timed_out = FALSE]
    /\ UNCHANGED <<srv, proc, forks, st, input, fate>>

\* A read meets the end of the status pipe.
ReadFails ==
    /\ fsrv.pc \in {"pid", "wait", "drain"}
    /\ st = << >> /\ srv.pc = "dead"
    /\ RunFails
    /\ UNCHANGED <<srv, proc, forks, ctl, st, input, trace, fate>>

ReadPid ==
    /\ fsrv.pc = "pid" /\ st # << >>
    /\ st' = Tail(st)
    /\ fsrv' = [fsrv EXCEPT !.pc = "wait", !.child_pid = Head(st).val]
    /\ UNCHANGED <<srv, proc, forks, ctl, input, trace, fate>>

\* WEXITSTATUS: the second byte of the status, whatever the status is.
WEXITSTATUS(s) == IF s.how = "signaled" THEN 0 ELSE s.code

\* A variant that answers with what became of the child.
ResultIsFate(s, timed_out) ==
    IF s.how = "signaled" THEN IF timed_out THEN "killed" ELSE "crash" ELSE "ok"

run_result(s, timed_out) ==
    IF timed_out THEN "tmout"
    ELSE IF s.how = "signaled" \/ WEXITSTATUS(s) \in CrashCodes
           THEN "crash" ELSE "ok"

Returns(s) ==
    fsrv' = [fsrv EXCEPT
                !.pc = "ready",
                !.child_pid = IF s.how = "stopped" THEN @ ELSE NoPid,
                !.result = [run |-> fsrv.run,
                            outcome |-> run_result(s,
                                           fsrv.last_run_timed_out)]]

\* A variant that takes an answer read after the timeout for none.
LateIsTimeout ==
    /\ fsrv.pc = "wait" /\ st # << >>
    /\ IF fsrv.stop_soon
         THEN RunFails /\ UNCHANGED <<st, proc>>
         ELSE /\ st' = Tail(st)
              /\ \/ Returns(Head(st).val) /\ UNCHANGED proc
                 \/ /\ proc' = kill(fsrv.child_pid, ChildKill)
                    /\ fsrv' = [fsrv EXCEPT !.pc = "drain",
                                            !.child_pid = NoPid,
                                            !.last_run_timed_out = TRUE]
    /\ UNCHANGED <<srv, forks, ctl, input, trace, fate>>

\* read_s32_timed finds the status, before the timeout or after it.
ReadStatus ==
    /\ fsrv.pc = "wait" /\ st # << >>
    /\ IF fsrv.stop_soon
         THEN RunFails /\ UNCHANGED st
         ELSE Returns(Head(st).val) /\ st' = Tail(st)
    /\ UNCHANGED <<srv, proc, forks, ctl, input, trace, fate>>

\* A variant that returns without waiting for the server.
TimeoutReturns ==
    /\ fsrv.pc = "wait" /\ st = << >> /\ srv.pc # "dead"
    /\ proc' = kill(fsrv.child_pid, ChildKill)
    /\ fsrv' = [fsrv EXCEPT !.pc = "ready", !.child_pid = NoPid,
                            !.last_run_timed_out = TRUE,
                            !.result = [run |-> fsrv.run, outcome |-> "tmout"]]
    /\ UNCHANGED <<srv, forks, ctl, st, input, trace, fate>>

\* read_s32_timed finds nothing in time: kill the child, and wait for the
\* server to say so.
Timeout ==
    /\ fsrv.pc = "wait" /\ st = << >> /\ srv.pc # "dead"
    /\ proc' = kill(fsrv.child_pid, ChildKill)
    /\ fsrv' = [fsrv EXCEPT !.pc = "drain", !.child_pid = NoPid,
                            !.last_run_timed_out = TRUE]
    /\ UNCHANGED <<srv, forks, ctl, st, input, trace, fate>>

Drain ==
    /\ fsrv.pc = "drain" /\ st # << >>
    /\ st' = Tail(st)
    /\ Returns(Head(st).val)
    /\ UNCHANGED <<srv, proc, forks, ctl, input, trace, fate>>

-----------------------------------------------------------------------------
(* afl-fuzz: stopping.                                                     *)

\* Kill the child afl-fuzz knows of, and the server.
KillBoth ==
    /\ proc' = kill(fsrv.child_pid, ChildKill)
    /\ srv' = [srv EXCEPT !.sig = TRUE]

Working == fsrv.pc \notin {"handler", "killing", "restart", "over", "fatal"}

\* afl_states_stop in the signal handler, up to its blocking waitpid.
StopSignal ==
    /\ Working /\ ~fsrv.stop_soon
    /\ KillBoth
    /\ fsrv' = [fsrv EXCEPT !.stop_soon = TRUE, !.pc = "handler",
                            !.back = fsrv.pc]
    /\ UNCHANGED <<forks, ctl, st, input, trace, fate>>

HandlerReturns ==
    /\ fsrv.pc = "handler" /\ srv.pc = "dead"
    /\ Goto(fsrv.back)
    /\ UNCHANGED <<srv, proc, forks, ctl, st, input, trace, fate>>

\* afl_fsrv_kill, up to its blocking waitpid: at the end of the session, and
\* before the target is started again with a larger map.
afl_fsrv_kill ==
    /\ \/ fsrv.pc = "remap" /\ fsrv' = [fsrv EXCEPT !.pc = "restart"]
       \/ /\ fsrv.pc = "ready" /\ (fsrv.stop_soon \/ fsrv.run = MaxRuns)
          /\ fsrv' = [fsrv EXCEPT !.pc = "killing"]
    /\ KillBoth
    /\ UNCHANGED <<forks, ctl, st, input, trace, fate>>

SessionEnds ==
    /\ fsrv.pc = "killing" /\ srv.pc = "dead"
    /\ fsrv' = [fsrv EXCEPT !.pc = "over", !.child_pid = NoPid]
    /\ UNCHANGED <<srv, proc, forks, ctl, st, input, trace, fate>>

\* afl_fsrv_start again: new pipes, a new server.
Restart ==
    /\ fsrv.pc = "restart" /\ srv.pc = "dead"
    /\ fsrv' = [fsrv EXCEPT !.pc = "hello", !.child_pid = NoPid, !.starts = 2]
    /\ srv' = ServerUp
    /\ ctl' = << >> /\ st' = << >>
    /\ UNCHANGED <<proc, forks, input, trace, fate>>

-----------------------------------------------------------------------------

Init ==
    /\ \E persistent \in Targets, larger \in Maps :
         fsrv = [pc |-> "hello", back |-> "hello", run |-> 0, starts |-> 1,
                 child_pid |-> NoPid, last_run_timed_out |-> FALSE,
                 stop_soon |-> FALSE, result |-> [run |-> 0, outcome |-> "ok"],
                 persistent_mode |-> persistent, larger_map |-> larger]
    /\ srv = ServerUp
    /\ proc = [p \in Pid |-> NoChild] /\ forks = 0
    /\ ctl = << >> /\ st = << >>
    /\ input = 0 /\ trace = {}
    /\ fate = [r \in Run |-> "none"]

Server ==
    \/ ServerHello \/ ServerOptions \/ ServerRead \/ ServerReaps
    \/ ServerForks \/ ServerCannotFork \/ ServerTellsPid \/ ServerContinues
    \/ ServerWaits \/ ServerReports

Fuzzer ==
    \/ FuzzerHello \/ HelloFails \/ FuzzerOptions \/ OptionsFail
    \/ WriteTestcase \/ Request \/ ReadFails \/ ReadPid \/ ReadStatus
    \/ Timeout \/ Drain \/ HandlerReturns \/ afl_fsrv_kill \/ SessionEnds
    \/ Restart

Target ==
    \E p \in Pid : \/ ChildBegins(p) \/ ChildExits(p) \/ ChildCrashes(p)
                   \/ ChildLoops(p)

\* The session is over; what it left behind is on its own.
Terminated == fsrv.pc \in {"over", "fatal"} /\ UNCHANGED vars

Next ==
    \/ Server \/ at_exit \/ Fuzzer \/ StopSignal \/ Target
    \/ \E p \in Pid : Dies(p)
    \/ Terminated

Spec == Init /\ [][Next]_vars

\* The processes are scheduled and signals are delivered; the timeout is one
\* of the steps of afl-fuzz.  The target may hang, and nobody has to stop
\* afl-fuzz.
FairSpec ==
    /\ Spec
    /\ WF_vars(Server) /\ WF_vars(at_exit) /\ WF_vars(Fuzzer)
    /\ \A p \in Pid : WF_vars(Dies(p))

-----------------------------------------------------------------------------
(* Properties.                                                             *)

FuzzerPc == {"hello", "options", "remap", "restart", "ready", "request", "pid",
             "wait", "drain", "handler", "killing", "over", "fatal"}
ServerPc == {"boot", "reply", "idle", "reap", "go", "forked", "wait", "report",
             "dead"}

Child == [state : {"none", "begin", "run", "stop", "zombie", "gone"},
          left : 0 .. CntWord - 1, doing : {0} \cup Run,
          pending : {"none", "KILL", "TERM"}, status : Status]

\* Every field stays in its range.
TypeOK ==
    /\ fsrv \in [pc : FuzzerPc, back : FuzzerPc, run : {0} \cup Run,
                 starts : 1 .. 2, child_pid : {NoPid} \cup Pid,
                 last_run_timed_out : BOOLEAN, stop_soon : BOOLEAN,
                 result : [run : {0} \cup Run, outcome : Outcome],
                 persistent_mode : Targets, larger_map : Maps]
    /\ srv \in [pc : ServerPc, sig : BOOLEAN, child_pid : {NoPid} \cup Pid,
                child_stopped : BOOLEAN, status : Status]
    /\ proc \in [Pid -> Child] /\ forks \in {0} \cup Pid
    /\ input \in {0} \cup Run /\ trace \subseteq Run
    /\ fate \in [Run -> Fate]

\* What afl-fuzz takes the next word of the status pipe for.
Expected ==
    CASE fsrv.pc = "hello"            -> {"version"}
      [] fsrv.pc = "options"          -> {"options"}
      [] fsrv.pc = "pid"              -> {"pid"}
      [] fsrv.pc \in {"wait", "drain"} -> {"status"}
      [] fsrv.pc \in {"ready", "request"} -> {}
      [] OTHER -> {"version", "options", "pid", "status"}

\* The two sides stay in step: a word on the status pipe is what the reader
\* takes it for, and no word is left over from one run for the next, whenever
\* the timeout meets the answer.
InStep == st # << >> /\ ~fsrv.stop_soon => Head(st).kind \in Expected

\* When afl_fsrv_run_target returns, the trace holds the coverage of this run
\* only, and all of it unless the run was cut short.
TraceOwn ==
    fsrv.pc = "ready" /\ fsrv.run > 0 /\ ~fsrv.stop_soon =>
        /\ trace \subseteq {fsrv.run}
        /\ fsrv.result.outcome # "tmout" => trace = {fsrv.run}

\* A terminated server leaves no child behind that it has learnt of.
KnownChildGone == srv.pc = "dead" => ~Alive(srv.child_pid)

\* No child that was not waited for disturbs a later run or the session's end.
NoStrayChild == TraceOwn /\ KnownChildGone

\* The runs seen from outside.
Phase(pc) ==
    CASE pc \in {"request", "pid", "wait", "drain"} -> "busy"
      [] pc \in {"over", "fatal"}                   -> "over"
      [] OTHER                                      -> "idle"

Contract == INSTANCE AflRunTarget
                WITH run <- fsrv.run, result <- fsrv.result,
                     stopping <- fsrv.stop_soon,
                     phase <- Phase(IF fsrv.pc = "handler" THEN fsrv.back
                                                           ELSE fsrv.pc)

\* The protocol keeps what callers of afl_fsrv_run_target rely on: the target
\* ends a run once and only inside it, and the answer is about that run.
ImplementsContract == Contract!Spec

Busy == fsrv.pc \in {"request", "pid", "wait", "drain", "handler", "killing",
                     "restart"}

\* afl_fsrv_run_target, the handler of a stop signal and afl_fsrv_kill, which
\* all block on other processes, return, even when the target hangs.
RunReturns == Busy ~> ~Busy

\* A stop request ends the session.
StopEnds == fsrv.stop_soon ~> fsrv.pc \in {"over", "fatal"}
=============================================================================
