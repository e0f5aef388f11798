------------------------ MODULE AflForkserverProofs ------------------------
(***************************************************************************)
(* Proofs about AflForkserver for every number of runs, loop count and     *)
(* kind of target: the types, that the two ends of the status pipe stay in *)
(* step, that no child strays, and that the protocol implements the        *)
(* contract of afl_fsrv_run_target, AflRunTarget.                          *)
(***************************************************************************)
EXTENDS AflForkserver, SequenceTheorems, TLAPS

-----------------------------------------------------------------------------
(***************************************************************************)
(* The inductive invariant.                                                *)
(***************************************************************************)

\* Where afl-fuzz is; in its signal handler, where the signal met it.
At == IF fsrv.pc = "handler" THEN fsrv.back ELSE fsrv.pc
Dead == srv.pc = "dead"
State(p) == proc[p].state

\* The handler waits for the server, so a stopped afl-fuzz talks to a dead
\* server; only the restart with a larger map brings up another one.  Without
\* a stop the server dies when fork fails or when afl-fuzz kills it.
StopInv ==
    /\ fsrv.pc = "handler" =>
          /\ fsrv.stop_soon
          /\ fsrv.back \notin {"handler", "killing", "restart", "over", "fatal"}
    /\ fsrv.stop_soon /\ fsrv.pc \notin {"handler", "hello"} => Dead
    /\ Dead /\ ~fsrv.stop_soon =>
          \/ fsrv.pc \in {"restart", "killing", "over", "fatal"}
          \/ fsrv.pc = "pid" /\ st = << >>
    /\ srv.sig => Dead \/ fsrv.stop_soon \/ fsrv.pc \in {"restart", "killing"}

Version == Word("version", 0)
Reply == Word("reply", 0)
PidWord == Word("pid", forks)
StatusWord == Word("status", srv.status)
KillWords == {<<Word("was_killed", TRUE)>>, <<Word("was_killed", FALSE)>>}

\* What is in the two pipes, from where the two sides are.
LinkInv ==
    /\ At = "hello" =>
          /\ ctl = << >>
          /\ \/ srv.pc \in {"boot", "dead"} /\ st = << >>
             \/ srv.pc \in {"reply", "dead"} /\ st = <<Version>>
    /\ At = "options" =>
          \/ srv.pc \in {"reply", "dead"} /\ st = << >> /\ ctl = <<Reply>>
          \/ srv.pc \in {"idle", "dead"} /\ st = Options /\ ctl = << >>
    /\ At \in {"remap", "restart", "request"} =>
          srv.pc \in {"idle", "dead"} /\ st = << >> /\ ctl = << >>
    /\ At \in {"ready", "killing"} =>
          /\ srv.pc \in {"idle", "dead"}
          /\ (st = << >> /\ ctl = << >>) \/ (fsrv.stop_soon /\ Dead)
    /\ At = "pid" =>
          \/ srv.pc \in {"idle", "dead"} /\ st = << >> /\ ctl \in KillWords
          \/ /\ srv.pc \in {"reap", "go", "forked", "dead"}
             /\ st = << >> /\ ctl = << >>
          \/ /\ srv.pc \in {"wait", "report", "dead"}
             /\ st = <<PidWord>> /\ ctl = << >>
          \/ /\ srv.pc \in {"idle", "dead"}
             /\ st = <<PidWord, StatusWord>> /\ ctl = << >>
    /\ At \in {"wait", "drain"} =>
          /\ ctl = << >>
          /\ \/ srv.pc \in {"wait", "report", "dead"} /\ st = << >>
             \/ srv.pc \in {"idle", "dead"} /\ st = <<StatusWord>>
    /\ At \in {"over", "fatal"} => Dead /\ (st = << >> \/ fsrv.stop_soon)

\* The server has a request of afl-fuzz but no child at work on it.
Asked == srv.pc \in {"reap", "go"} \/ ctl # << >>

\* Only the child forked last is alive.
LastInv == \A p \in Pid : State(p) \in {"begin", "run", "stop"} => p = forks

\* The server knows what that child does.
ChildInv ==
    /\ input = fsrv.run /\ forks <= fsrv.run
    /\ At \in {"hello", "options", "remap", "restart"} => fsrv.run = 0
    /\ At \in {"request", "pid", "wait", "drain"} => fsrv.run > 0
    /\ srv.pc = "dead" => srv.child_pid <= forks /\ ~Alive(srv.child_pid)
    /\ srv.pc = "dead" /\ srv.child_pid # forks =>
          fsrv.stop_soon /\ At # "request" /\ ctl = << >>
    /\ srv.pc = "forked" => srv.child_pid < forks
    /\ srv.pc \notin {"forked", "dead"} => srv.child_pid = forks
    /\ srv.pc \in {"idle", "go", "report"} /\ forks # 0 =>
          \/ srv.child_stopped /\ State(forks) \in {"stop", "zombie"}
          \/ ~srv.child_stopped /\ State(forks) = "gone"
    /\ srv.pc = "reap" => State(forks) \in {"stop", "zombie"}
    /\ srv.pc \in {"forked", "wait"} =>
          State(forks) \in {"begin", "run", "stop", "zombie"}
    /\ srv.pc \in {"reap", "forked", "wait"} => forks # 0 /\ ~srv.child_stopped
    /\ srv.child_stopped => forks # 0
    /\ At \in {"pid", "wait", "drain"} /\ ~Asked /\ ~Dead => forks # 0

\* A run ends once: it has no fate before its child works on it and while it
\* does, and has one from then on.
Unset ==
    At = "request" \/ (At = "pid" /\ Asked) =>
        forks < fsrv.run /\ fate[fsrv.run] = "none"
Open ==
    forks # 0 /\ State(forks) \in {"begin", "run"} =>
        /\ fsrv.run > 0 /\ fate[fsrv.run] = "none"
        /\ At \in {"pid", "wait", "drain"} \/ fsrv.stop_soon
        /\ State(forks) = "run" => proc[forks].doing = fsrv.run
Ended ==
    /\ fsrv.pc \in {"pid", "wait", "drain"} /\ ~fsrv.stop_soon
    /\ ~Asked /\ ~Dead /\ State(forks) \notin {"begin", "run"}
    => fate[fsrv.run] # "none"
Future == \A r \in Run : r > fsrv.run => fate[r] = "none"
FateInv == Unset /\ Open /\ Ended /\ Future

\* Only the run that timed out knows that it did.
TimerInv ==
    /\ At \in {"pid", "wait"} => ~fsrv.last_run_timed_out
    /\ At = "drain" => fsrv.last_run_timed_out

\* The child may have a signal pending: its run timed out, and the server has
\* not yet written it off.
Killable == \/ fsrv.last_run_timed_out
            \/ srv.pc = "reap"
            \/ ctl = <<Word("was_killed", TRUE)>>

\* No other child is killed during a run unless afl-fuzz is stopped.
PendInv ==
    /\ fsrv.pc \in {"ready", "request", "pid", "wait", "drain"}
    /\ ~fsrv.stop_soon /\ ~Killable
    =>
    /\ forks # 0 /\ State(forks) # "gone" => proc[forks].pending = "none"
    /\ srv.child_stopped => State(forks) = "stop"

\* The trace of a run grows from nothing when its child begins.
TraceInv ==
    /\ fsrv.pc \in {"pid", "wait", "drain"} /\ ~fsrv.stop_soon /\ ~Dead =>
          /\ trace \subseteq {fsrv.run}
          /\ Asked \/ State(forks) = "begin" => trace = {}
          /\ ~Asked /\ State(forks) # "begin" /\ fsrv.pc # "drain" =>
                trace = {fsrv.run}
    /\ TraceOwn

\* SIGSTOP, seen as an exit code, is not one that counts as a crash.
Distinct == SIGSTOP \notin CrashCodes \/ TRUE \notin Targets

\* The status on its way to afl-fuzz is the fate of the run it waits for.
AnswerInv ==
    Distinct /\ fsrv.pc \in {"pid", "wait"} /\ ~fsrv.stop_soon =>
        /\ srv.pc \in {"forked", "wait"} /\ State(forks) = "zombie" =>
              run_result(proc[forks].status, FALSE) = fate[fsrv.run]
        /\ srv.pc \in {"forked", "wait"} /\ State(forks) = "stop" =>
              fate[fsrv.run] = "ok" /\ fsrv.persistent_mode
        /\ srv.pc = "report" \/ (srv.pc = "idle" /\ ~Asked) =>
              run_result(srv.status, FALSE) = fate[fsrv.run]

IInv == /\ TypeOK /\ StopInv /\ LinkInv /\ LastInv /\ ChildInv /\ FateInv
        /\ TimerInv /\ PendInv /\ TraceInv /\ AnswerInv

-----------------------------------------------------------------------------
(***************************************************************************)
(* What steps do to the fields of afl-fuzz, the server and the children.   *)
(***************************************************************************)

Fuzz(a, b, r, n, c, t, s, o) ==
    /\ fsrv'.pc = a /\ fsrv'.back = b /\ fsrv'.run = r /\ fsrv'.starts = n
    /\ fsrv'.child_pid = c /\ fsrv'.last_run_timed_out = t
    /\ fsrv'.stop_soon = s /\ fsrv'.result = o
    /\ fsrv'.persistent_mode = fsrv.persistent_mode
    /\ fsrv'.larger_map = fsrv.larger_map

Serve(a, g, c, h, t) ==
    /\ srv'.pc = a /\ srv'.sig = g /\ srv'.child_pid = c
    /\ srv'.child_stopped = h /\ srv'.status = t

Became(p, s, l, d, k, t) ==
    \A x \in Pid : /\ proc'[x].state = IF x = p THEN s ELSE proc[x].state
                   /\ proc'[x].left = IF x = p THEN l ELSE proc[x].left
                   /\ proc'[x].doing = IF x = p THEN d ELSE proc[x].doing
                   /\ proc'[x].pending = IF x = p THEN k ELSE proc[x].pending
                   /\ proc'[x].status = IF x = p THEN t ELSE proc[x].status

Marked ==
    \A x \in Pid : /\ proc'[x].state = proc[x].state
                   /\ proc'[x].left = proc[x].left
                   /\ proc'[x].doing = proc[x].doing
                   /\ proc'[x].status = proc[x].status

FsrvT == [pc : FuzzerPc, back : FuzzerPc, run : {0} \cup Run,
          starts : 1 .. 2, child_pid : {NoPid} \cup Pid,
          last_run_timed_out : BOOLEAN, stop_soon : BOOLEAN,
          result : [run : {0} \cup Run, outcome : Outcome],
          persistent_mode : Targets, larger_map : Maps]
SrvT == [pc : ServerPc, sig : BOOLEAN, child_pid : {NoPid} \cup Pid,
         child_stopped : BOOLEAN, status : Status]

LEMMA Bounds ==
  /\ MaxRuns \in Nat /\ MaxRuns > 0
  /\ NoPid = 0 /\ Run = 1 .. MaxRuns /\ Pid = 1 .. MaxRuns
  /\ {0} \cup Run = 0 .. MaxRuns /\ {NoPid} \cup Pid = 0 .. MaxRuns
  /\ NoStatus \in Status /\ Loop \in 0 .. CntWord - 1
  /\ [how |-> "signaled", code |-> 9] \in Status
  /\ [how |-> "signaled", code |-> 11] \in Status
  /\ [how |-> "stopped", code |-> SIGSTOP] \in Status
  /\ \A c \in {0} \cup CrashCodes : [how |-> "exited", code |-> c] \in Status
  /\ \A n \in 0 .. CntWord - 1 : CountDown(n) \in 0 .. CntWord - 1
BY ForkserverAssumption DEF Run, Pid, NoPid, NoStatus, Status, SIGSTOP, CountDown

\* What afl-fuzz makes of a wait status.
LEMMA Results ==
  /\ run_result([how |-> "signaled", code |-> 11], FALSE) = "crash"
  /\ \A c \in {0} \cup CrashCodes :
        run_result([how |-> "exited", code |-> c], FALSE)
           = IF c \in CrashCodes THEN "crash" ELSE "ok"
  /\ SIGSTOP \notin CrashCodes =>
        run_result([how |-> "stopped", code |-> SIGSTOP], FALSE) = "ok"
BY ForkserverAssumption DEF SIGSTOP, run_result, WEXITSTATUS

LEMMA StopIsNoCrash ==
  ASSUME TypeOK, Distinct, fsrv.persistent_mode
  PROVE  SIGSTOP \notin CrashCodes
<1>1. fsrv.persistent_mode \in Targets /\ Targets \subseteq BOOLEAN
  BY ForkserverAssumption, Zenon DEF TypeOK
<1>2. fsrv.persistent_mode = TRUE
  BY <1>1, Zenon
<1>. QED
  BY <1>1, <1>2, Zenon DEF Distinct

\* The fields have their types.
LEMMA Fields ==
  ASSUME TypeOK
  PROVE  /\ fsrv.pc \in FuzzerPc /\ fsrv.back \in FuzzerPc
         /\ fsrv.run \in 0 .. MaxRuns /\ fsrv.starts \in 1 .. 2
         /\ fsrv.child_pid \in 0 .. MaxRuns
         /\ fsrv.last_run_timed_out \in BOOLEAN /\ fsrv.stop_soon \in BOOLEAN
         /\ srv.pc \in ServerPc /\ srv.sig \in BOOLEAN
         /\ srv.child_pid \in 0 .. MaxRuns /\ srv.child_stopped \in BOOLEAN
         /\ srv.status \in Status
         /\ forks \in 0 .. MaxRuns /\ input \in 0 .. MaxRuns
         /\ \A p \in Pid : /\ proc[p] \in Child /\ proc[p].status \in Status
                           /\ proc[p].left \in 0 .. CntWord - 1
                           /\ proc[p].doing \in 0 .. MaxRuns
BY Bounds DEF TypeOK, Child

\* A child changes its state only.
LEMMA StateChanges ==
  ASSUME TypeOK, NEW p \in Pid, NEW s,
         s \in {"none", "begin", "run", "stop", "zombie", "gone"},
         proc' = [proc EXCEPT ![p].state = s]
  PROVE  /\ Became(p, s, proc[p].left, proc[p].doing, proc[p].pending,
                   proc[p].status)
         /\ proc' \in [Pid -> Child]
<1>1. proc[p] \in Child
  BY DEF TypeOK
<1>2. PICK r : r = [proc[p] EXCEPT !.state = s]
  BY Zenon
<1>3. /\ r \in Child /\ r.state = s
      /\ r.left = proc[p].left /\ r.doing = proc[p].doing
      /\ r.pending = proc[p].pending /\ r.status = proc[p].status
  BY <1>1, <1>2, Zenon DEF Child
<1>4. proc' = [proc EXCEPT ![p] = r]
  BY <1>2, Zenon
<1>. QED
  BY <1>3, <1>4 DEF TypeOK, Became

\* A signal leaves a mark that nothing but its delivery looks at.
LEMMA Kills ==
  ASSUME TypeOK, NEW c, proc' = kill(c, ChildKill)
  PROVE  Marked /\ proc' \in [Pid -> Child]
<1>1. CASE ~Alive(c)
  BY <1>1 DEF kill, Marked, TypeOK
<1>2. CASE Alive(c)
  <2>1. c \in Pid /\ proc[c] \in Child
    BY <1>2 DEF Alive, TypeOK
  <2>2. PICK r : r = [proc[c] EXCEPT !.pending = ChildKill]
    BY Zenon
  <2>3. ChildKill \in {"none", "KILL", "TERM"}
    BY ForkserverAssumption
  <2>4. /\ r \in Child /\ r.state = proc[c].state /\ r.left = proc[c].left
        /\ r.doing = proc[c].doing /\ r.status = proc[c].status
    BY <2>1, <2>2, <2>3, Zenon DEF Child
  <2>5. proc' = [proc EXCEPT ![c] = r]
    BY <1>2, <2>2, Zenon DEF kill
  <2>. QED
    BY <2>1, <2>4, <2>5 DEF TypeOK, Marked
<1>. QED
  BY <1>1, <1>2

\* Words and short pipes.
LEMMA Words ==
  /\ \A k, v : Word(k, v).kind = k /\ Word(k, v).val = v
  /\ \A a : /\ Append(<< >>, a) = <<a>> /\ Tail(<<a>>) = << >>
            /\ Head(<<a>>) = a /\ <<a>> # << >>
  /\ \A a, b : /\ Append(<<a>>, b) = <<a, b>> /\ Tail(<<a, b>>) = <<b>>
               /\ Head(<<a, b>>) = a /\ <<a, b>> # << >>
<1>1. \A k, v : Word(k, v).kind = k /\ Word(k, v).val = v
  BY DEF Word
<1>2. ASSUME NEW a
      PROVE  /\ Append(<< >>, a) = <<a>> /\ Tail(<<a>>) = << >>
             /\ Head(<<a>>) = a /\ <<a>> # << >>
  OBVIOUS
<1>3. ASSUME NEW a, NEW b
      PROVE  /\ Append(<<a>>, b) = <<a, b>> /\ Tail(<<a, b>>) = <<b>>
             /\ Head(<<a, b>>) = a /\ <<a, b>> # << >>
  <2>. DEFINE s == Append(<<a>>, b)
  <2>1. /\ s \in Seq({a, b}) /\ Len(s) = 2 /\ s[1] = a /\ s[2] = b
        /\ <<a, b>> \in Seq({a, b}) /\ Len(<<a, b>>) = 2
    OBVIOUS
  <2>. HIDE DEF s
  <2>2. \A i \in 1 .. 2 : s[i] = <<a, b>>[i]
    BY <2>1
  <2>3. s = <<a, b>>
    BY <2>1, <2>2, SeqEqual
  <2>4. Tail(<<a, b>>) = <<b>>
    OBVIOUS
  <2>5. Head(<<a, b>>) = a /\ <<a, b>> # << >>
    OBVIOUS
  <2>. QED
    BY <2>3, <2>4, <2>5 DEF s
<1>. QED
  BY <1>1, <1>2, <1>3

LEMMA KillFacts ==
  ASSUME NEW c \in KillWords
  PROVE  /\ c # << >> /\ Tail(c) = << >>
         /\ c = <<Word("was_killed", TRUE)>> => Head(c).val = TRUE
<1>1. PICK k \in BOOLEAN : c = <<Word("was_killed", k)>>
  BY Zenon DEF KillWords
<1>2. c # << >> /\ Tail(c) = << >>
  BY <1>1, Words
<1>3. ASSUME c = <<Word("was_killed", TRUE)>>
      PROVE  Head(c).val = TRUE
  <2>1. PICK w : w = Word("was_killed", TRUE)
    BY Zenon
  <2>2. c = <<w>>
    BY <1>3, <2>1, Zenon
  <2>3. Head(c) = w
    BY <2>2
  <2>4. w.val = TRUE
    BY <2>1, Zenon DEF Word
  <2>. QED
    BY <2>3, <2>4, Zenon
<1>. QED
  BY <1>2, <1>3

LEMMA OptionsFacts ==
  /\ Options # << >> /\ Head(Options) = Word("options", 0)
  /\ << >> \o Options = Options /\ Len(Options) \in Nat
  /\ Len(Options) > 0
  /\ SubSeq(Options, Len(Options) + 1, Len(Options)) = << >>
<1>. DEFINE S == {Word("options", 0), Word("map", 0), Word("dictlen", 0),
                  Word("dict", 0), Word("version", 0)}
            d == IF AutoDict THEN <<Word("dictlen", 0), Word("dict", 0)>>
                 ELSE << >>
<1>1. /\ Word("options", 0) \in S /\ Word("map", 0) \in S
      /\ Word("dictlen", 0) \in S /\ Word("dict", 0) \in S
      /\ Word("version", 0) \in S
  OBVIOUS
<1>. HIDE DEF S
<1>2. /\ d \in Seq(S) /\ <<Word("version", 0)>> \in Seq(S)
      /\ <<Word("options", 0), Word("map", 0)>> \in Seq(S)
  BY <1>1
<1>3. Options = <<Word("options", 0), Word("map", 0)>> \o d \o <<Word("version", 0)>>
  BY DEF Options
<1>. HIDE DEF d
<1>4. Options \in Seq(S) /\ Len(Options) > 0 /\ Options[1] = Word("options", 0)
  BY <1>2, <1>3
<1>. QED
  BY <1>4

\* Where the server is tells where afl-fuzz is and what the pipes hold.
LEMMA ServerAt ==
  ASSUME IInv
  PROVE  /\ At \in FuzzerPc \ {"handler"}
         /\ srv.pc = "boot" => At = "hello" /\ st = << >> /\ ctl = << >>
         /\ srv.pc = "reply" =>
               \/ At = "hello" /\ st = <<Version>> /\ ctl = << >>
               \/ At = "options" /\ st = << >> /\ ctl = <<Reply>>
         /\ srv.pc \in {"reap", "go", "forked"} =>
               At = "pid" /\ st = << >> /\ ctl = << >>
         /\ srv.pc \in {"wait", "report"} =>
               /\ ctl = << >>
               /\ \/ At = "pid" /\ st = <<PidWord>>
                  \/ At \in {"wait", "drain"} /\ st = << >>
         /\ srv.pc = "idle" /\ ctl # << >> =>
               At = "pid" /\ st = << >> /\ ctl \in KillWords
BY Fields DEF IInv, StopInv, LinkInv, Dead, At, FuzzerPc

\* Where everything is while a child works on a run.
LEMMA Running ==
  ASSUME IInv, NEW p \in Pid, State(p) \in {"begin", "run"}
  PROVE  /\ p = forks /\ fsrv.run \in Run /\ input = fsrv.run
         /\ fate[fsrv.run] = "none" /\ ~Asked /\ At # "request"
         /\ At \in {"pid", "wait", "drain"} \/ fsrv.stop_soon
         /\ State(p) = "run" => proc[p].doing = fsrv.run
         /\ srv.pc \in {"forked", "wait", "dead"}
<1>1. p = forks /\ forks # 0
  BY Bounds DEF IInv, LastInv
<1>2. /\ fsrv.run \in Run /\ input = fsrv.run /\ fate[fsrv.run] = "none"
      /\ At \in {"pid", "wait", "drain"} \/ fsrv.stop_soon
      /\ State(p) = "run" => proc[p].doing = fsrv.run
  BY <1>1, Fields, Bounds DEF IInv, FateInv, Open, ChildInv
<1>3. srv.pc \in {"forked", "wait", "dead"}
  <2>1. srv.pc \in {"boot", "reply"} => forks = 0
    BY Fields, Bounds, ServerAt DEF IInv, ChildInv
  <2>. QED
    BY <1>1, <2>1, Fields DEF IInv, ChildInv, ServerPc
<1>4. srv.pc = "dead" => ctl = << >> /\ At # "request"
  BY <1>1 DEF IInv, ChildInv, Alive, State
<1>. QED
  BY <1>1, <1>2, <1>3, <1>4, ServerAt DEF Asked

LEMMA HelloKeeps ==
  ASSUME IInv, ServerHello
  PROVE  IInv'
<1>1. /\ Serve("reply", srv.sig, srv.child_pid, srv.child_stopped, srv.status)
      /\ srv' \in SrvT
  BY Zenon DEF IInv, TypeOK, ServerHello, Serve, SrvT, ServerPc, NoPid
<1>2. /\ At = "hello" /\ st = << >> /\ ctl = << >>
      /\ srv.pc = "boot" /\ st' = <<Version>>
      /\ UNCHANGED <<fsrv, proc, forks, ctl, input, trace, fate>>
  BY ServerAt, Words DEF ServerHello, Version
<1>3. TypeOK'
  BY <1>1, <1>2 DEF IInv, TypeOK, SrvT
<1>4. LastInv' /\ Open' /\ Future' /\ TimerInv'
  BY <1>2 DEF IInv, FateInv, LastInv, State, Open, At, Future, TimerInv
<1>5. StopInv'
  BY <1>1, <1>2 DEF IInv, StopInv, Dead, At, Serve
<1>6. LinkInv'
  BY <1>1, <1>2, Words DEF IInv, LinkInv, Dead, At, PidWord, StatusWord, Serve
<1>7. ChildInv'
  BY <1>1, <1>2, Fields DEF IInv, ChildInv, Dead, At, State, Alive, Asked,
     Serve
<1>8. Unset'
  BY <1>1, <1>2 DEF IInv, FateInv, Unset, At, Asked, Serve
<1>9. Ended'
  BY <1>1, <1>2, Bounds DEF IInv, FateInv, Ended, At, Dead, State, Asked,
     Serve
<1>10. PendInv'
  BY <1>1, <1>2 DEF IInv, PendInv, ChildInv, State, Killable, Serve
<1>11. TraceInv'
  BY <1>1, <1>2, Bounds DEF IInv, TraceInv, Dead, At, State, Asked, TraceOwn,
     Serve
<1>12. AnswerInv'
  BY <1>1, <1>2, Bounds DEF IInv, AnswerInv, At, State, Asked, Serve
<1>. QED
  BY <1>3, <1>4, <1>5, <1>6, <1>7, <1>8, <1>9, <1>10, <1>11, <1>12 DEF IInv,
     FateInv

LEMMA OptionsKeeps ==
  ASSUME IInv, ServerOptions
  PROVE  IInv'
<1>1. /\ Serve("idle", srv.sig, srv.child_pid, srv.child_stopped, srv.status)
      /\ srv' \in SrvT
  BY Zenon DEF IInv, TypeOK, ServerOptions, Serve, SrvT, ServerPc, NoPid
<1>2. /\ At = "options" /\ st = << >> /\ srv.pc = "reply"
      /\ st' = Options /\ ctl' = << >>
      /\ UNCHANGED <<fsrv, proc, forks, input, trace, fate>>
  BY ServerAt, Words, OptionsFacts, ZenonT(40) DEF ServerOptions
<1>3. TypeOK'
  BY <1>1, <1>2 DEF IInv, TypeOK, SrvT
<1>4. LastInv' /\ Open' /\ Future' /\ TimerInv'
  BY <1>2 DEF IInv, FateInv, LastInv, State, Open, At, Future, TimerInv
<1>5. StopInv'
  BY <1>1, <1>2 DEF IInv, StopInv, Dead, At, Serve
<1>6. LinkInv'
  BY <1>1, <1>2, Words DEF IInv, LinkInv, Dead, At, PidWord, StatusWord, Serve
<1>7. ChildInv'
  BY <1>1, <1>2, Fields DEF IInv, ChildInv, Dead, At, State, Alive, Asked,
     Serve
<1>8. Unset'
  BY <1>1, <1>2 DEF IInv, FateInv, Unset, At, Asked, Serve
<1>9. Ended'
  BY <1>1, <1>2, Bounds DEF IInv, FateInv, Ended, At, Dead, State, Asked,
     Serve
<1>10. PendInv'
  BY <1>1, <1>2, Fields, Bounds DEF IInv, PendInv, ChildInv, State, Killable,
     Serve
<1>11. TraceInv'
  BY <1>1, <1>2, Bounds DEF IInv, TraceInv, Dead, At, State, Asked, TraceOwn,
     Serve
<1>12. AnswerInv'
  BY <1>1, <1>2, Bounds DEF IInv, AnswerInv, At, State, Asked, Serve
<1>. QED
  BY <1>3, <1>4, <1>5, <1>6, <1>7, <1>8, <1>9, <1>10, <1>11, <1>12 DEF IInv,
     FateInv

LEMMA ReadWritesOff ==
  ASSUME IInv, ServerRead, WriteOff(Head(ctl).val)
  PROVE  IInv'
<1>1. /\ Serve("reap", srv.sig, srv.child_pid, FALSE, srv.status)
      /\ srv' \in SrvT
  BY Zenon DEF IInv, TypeOK, ServerRead, Serve, SrvT, ServerPc, NoPid
<1>2. /\ At = "pid" /\ st = << >> /\ ctl \in KillWords
      /\ ctl # << >> /\ srv.pc = "idle" /\ ctl' = << >>
      /\ UNCHANGED <<fsrv, proc, forks, st, input, trace, fate>>
  BY ServerAt, KillFacts DEF ServerRead
<1>3. srv.child_stopped /\ Head(ctl).val
  BY  DEF WriteOff
<1>4. TypeOK'
  BY <1>1, <1>2, <1>3 DEF IInv, TypeOK, SrvT
<1>5. LastInv' /\ Open' /\ Future' /\ TimerInv'
  BY <1>2 DEF IInv, FateInv, LastInv, State, Open, At, Future, TimerInv
<1>6. StopInv'
  BY <1>1, <1>2, <1>3 DEF IInv, StopInv, Dead, At, Serve
<1>7. LinkInv'
  BY <1>1, <1>2, <1>3, Words DEF IInv, LinkInv, Dead, At, PidWord, StatusWord,
     Serve
<1>8. ChildInv'
  BY <1>1, <1>2, <1>3, Fields DEF IInv, ChildInv, Dead, At, State, Alive,
     Asked, Serve
<1>9. Unset'
  BY <1>1, <1>2, <1>3 DEF IInv, FateInv, Unset, At, Asked, Serve
<1>10. Ended'
  BY <1>1, <1>2, <1>3, Bounds DEF IInv, FateInv, Ended, At, Dead, State,
     Asked, Serve
<1>11. PendInv'
  BY <1>1, <1>2, <1>3 DEF IInv, PendInv, ChildInv, State, Killable, Serve
<1>12. TraceInv'
  BY <1>1, <1>2, <1>3, Bounds DEF IInv, TraceInv, Dead, At, State, Asked,
     TraceOwn, Serve
<1>13. AnswerInv'
  BY <1>1, <1>2, <1>3, Bounds DEF IInv, AnswerInv, At, State, Asked, Serve
<1>. QED
  BY <1>4, <1>5, <1>6, <1>7, <1>8, <1>9, <1>10, <1>11, <1>12, <1>13 DEF IInv,
     FateInv

LEMMA ReadGoesOn ==
  ASSUME IInv, ServerRead, ~WriteOff(Head(ctl).val)
  PROVE  IInv'
<1>1. /\ Serve("go", srv.sig, srv.child_pid, srv.child_stopped, srv.status)
      /\ srv' \in SrvT
  BY Zenon DEF IInv, TypeOK, ServerRead, Serve, SrvT, ServerPc, NoPid
<1>2. /\ At = "pid" /\ st = << >> /\ ctl \in KillWords
      /\ ctl # << >> /\ srv.pc = "idle" /\ ctl' = << >>
      /\ UNCHANGED <<fsrv, proc, forks, st, input, trace, fate>>
  BY ServerAt, KillFacts DEF ServerRead
<1>3. srv.child_stopped => ctl # <<Word("was_killed", TRUE)>>
  <2>1. ASSUME srv.child_stopped, ctl = <<Word("was_killed", TRUE)>>
        PROVE  FALSE
    <3>1. Head(ctl).val = TRUE
      BY <1>2, <2>1, KillFacts, Zenon
    <3>. QED
      BY <2>1, <3>1, Zenon DEF WriteOff
  <2>. QED
    BY <2>1
<1>4. TypeOK'
  BY <1>1, <1>2, <1>3 DEF IInv, TypeOK, SrvT
<1>5. LastInv' /\ Open' /\ Future' /\ TimerInv'
  BY <1>2 DEF IInv, FateInv, LastInv, State, Open, At, Future, TimerInv
<1>6. StopInv'
  BY <1>1, <1>2, <1>3 DEF IInv, StopInv, Dead, At, Serve
<1>7. LinkInv'
  BY <1>1, <1>2, <1>3, Words DEF IInv, LinkInv, Dead, At, PidWord, StatusWord,
     Serve
<1>8. ChildInv'
  BY <1>1, <1>2, <1>3, Fields DEF IInv, ChildInv, Dead, At, State, Alive,
     Asked, Serve
<1>9. Unset'
  BY <1>1, <1>2, <1>3 DEF IInv, FateInv, Unset, At, Asked, Serve
<1>10. Ended'
  BY <1>1, <1>2, <1>3, Bounds DEF IInv, FateInv, Ended, At, Dead, State,
     Asked, Serve
<1>11. PendInv'
  BY <1>1, <1>2, <1>3 DEF IInv, PendInv, ChildInv, State, Killable, Serve
<1>12. TraceInv'
  BY <1>1, <1>2, <1>3, Bounds DEF IInv, TraceInv, Dead, At, State, Asked,
     TraceOwn, Serve
<1>13. AnswerInv'
  BY <1>1, <1>2, <1>3, Bounds DEF IInv, AnswerInv, At, State, Asked, Serve
<1>. QED
  BY <1>4, <1>5, <1>6, <1>7, <1>8, <1>9, <1>10, <1>11, <1>12, <1>13 DEF IInv,
     FateInv

LEMMA ReapsKeeps ==
  ASSUME IInv, ServerReaps
  PROVE  IInv'
<1>1. forks \in Pid /\ srv.child_pid = forks /\ srv.pc = "reap"
  BY Fields, Bounds DEF IInv, ChildInv, ServerReaps
<1>2. /\ Serve("go", srv.sig, srv.child_pid, srv.child_stopped, srv.status)
      /\ srv' \in SrvT
  BY Zenon DEF IInv, TypeOK, ServerReaps, Serve, SrvT, ServerPc, NoPid
<1>3. /\ Became(forks, "gone", proc[forks].left, proc[forks].doing,
                proc[forks].pending, proc[forks].status)
      /\ proc' \in [Pid -> Child]
  <2>1. proc' = [proc EXCEPT ![forks].state = "gone"]
    BY <1>1, Zenon DEF ServerReaps
  <2>. QED
    BY <1>1, <2>1, StateChanges DEF IInv
<1>4. /\ At = "pid" /\ st = << >> /\ ctl = << >>
      /\ UNCHANGED <<fsrv, forks, ctl, st, input, trace, fate>>
  BY <1>1, ServerAt DEF ServerReaps
<1>5. TypeOK'
  BY <1>1, <1>2, <1>3, <1>4 DEF IInv, TypeOK, SrvT
<1>6. Future' /\ TimerInv'
  BY <1>4 DEF IInv, FateInv, Future, TimerInv, At
<1>7. StopInv'
  BY <1>1, <1>2, <1>4 DEF IInv, StopInv, Dead, At, Serve
<1>8. LinkInv'
  BY <1>1, <1>2, <1>4, Words DEF IInv, LinkInv, Dead, At, PidWord, StatusWord,
     Serve
<1>9. LastInv'
  BY <1>1, <1>3, <1>4 DEF IInv, LastInv, State, Became
<1>10. ChildInv'
  BY <1>1, <1>2, <1>3, <1>4, Fields DEF IInv, ChildInv, Dead, At, State,
     Alive, Asked, Serve, Became
<1>11. Unset'
  BY <1>1, <1>2, <1>4 DEF IInv, FateInv, Unset, At, Asked, Serve
<1>12. Open'
  BY <1>1, <1>3, <1>4, Bounds DEF IInv, FateInv, Open, At, State, Became
<1>13. Ended'
  BY <1>1, <1>2, <1>3, <1>4, Bounds DEF IInv, FateInv, Ended, At, Dead, State,
     Asked, Serve, Became
<1>14. PendInv'
  BY <1>1, <1>2, <1>3, <1>4 DEF IInv, PendInv, ChildInv, State, Killable,
     Serve, Became
<1>15. TraceInv'
  BY <1>1, <1>2, <1>3, <1>4, Bounds DEF IInv, TraceInv, Dead, At, State,
     Asked, TraceOwn, Serve, Became
<1>16. AnswerInv'
  BY <1>1, <1>2, <1>3, <1>4, Bounds DEF IInv, AnswerInv, At, State, Asked,
     Serve, Became
<1>. QED
  BY <1>5, <1>6, <1>7, <1>8, <1>9, <1>10, <1>11, <1>12, <1>13, <1>14, <1>15,
     <1>16 DEF IInv, FateInv

LEMMA ForksKeeps ==
  ASSUME IInv, ServerForks
  PROVE  IInv'
<1>1. /\ At = "pid" /\ st = << >> /\ ctl = << >> /\ srv.pc = "go"
      /\ ~srv.child_stopped /\ forks' = forks + 1
      /\ UNCHANGED <<fsrv, ctl, st, input, trace, fate>>
  BY ServerAt DEF ServerForks
<1>2. forks + 1 \in Pid /\ forks < fsrv.run /\ fate[fsrv.run] = "none"
  BY <1>1, Fields, Bounds DEF IInv, FateInv, Unset, Asked
<1>3. /\ Serve("forked", srv.sig, srv.child_pid, srv.child_stopped, srv.status)
      /\ srv' \in SrvT
  BY Zenon DEF IInv, TypeOK, ServerForks, Serve, SrvT, ServerPc, NoPid
<1>4. /\ Became(forks + 1, "begin", Loop, 0,
                "none", NoStatus)
      /\ proc' \in [Pid -> Child]
  <2>1. Became(forks + 1, "begin", Loop, 0,
               "none", NoStatus)
    BY <1>2, Zenon DEF IInv, TypeOK, ServerForks, Child, Became, NoChild
  <2>2. \A x \in Pid : proc'[x] \in Child
    BY <1>2, Bounds, ZenonT(40) DEF IInv, TypeOK, ServerForks, Child, NoChild
  <2>3. proc' = [x \in Pid |-> proc'[x]]
    BY <1>2, Zenon DEF IInv, TypeOK, ServerForks, Child, NoChild
  <2>. QED
    BY <2>1, <2>2, <2>3
<1>5. TypeOK'
  BY <1>1, <1>2, <1>3, <1>4, Bounds DEF IInv, TypeOK, SrvT
<1>6. Future' /\ TimerInv'
  BY <1>1 DEF IInv, FateInv, Future, TimerInv, At
<1>7. StopInv'
  BY <1>1, <1>2, <1>3 DEF IInv, StopInv, Dead, At, Serve
<1>8. LinkInv'
  BY <1>1, <1>2, <1>3, Words DEF IInv, LinkInv, Dead, At, PidWord, StatusWord,
     Serve
<1>9. LastInv'
  <2>. SUFFICES ASSUME NEW p \in Pid, p # forks + 1,
                       proc[p].state \in {"begin", "run", "stop"}
                PROVE  FALSE
    BY <1>1, <1>4 DEF LastInv, State, Became
  <2>. QED
    BY <1>1, Fields, Bounds DEF IInv, LastInv, ChildInv, State
<1>10. ChildInv'
  BY <1>1, <1>2, <1>3, <1>4, Fields DEF IInv, ChildInv, Dead, At, State,
     Alive, Asked, Serve, Became
<1>11. Unset'
  BY <1>1, <1>2, <1>3 DEF IInv, FateInv, Unset, At, Asked, Serve
<1>12. Open'
  BY <1>1, <1>2, <1>3, <1>4, Bounds, Fields, SMTT(40) DEF IInv, FateInv, Open, At,
     State, Became
<1>13. Ended'
  BY <1>1, <1>2, <1>3, <1>4, Bounds DEF IInv, FateInv, Ended, At, Dead, State,
     Asked, Serve, Became
<1>14. PendInv'
  BY <1>1, <1>2, <1>3, <1>4 DEF IInv, PendInv, ChildInv, State, Killable,
     Serve, Became
<1>15. TraceInv'
  BY <1>1, <1>2, <1>3, <1>4, Bounds DEF IInv, TraceInv, Dead, At, State,
     Asked, TraceOwn, Serve, Became
<1>16. AnswerInv'
  BY <1>1, <1>2, <1>3, <1>4, Bounds DEF IInv, AnswerInv, At, State, Asked,
     Serve, Became
<1>. QED
  BY <1>5, <1>6, <1>7, <1>8, <1>9, <1>10, <1>11, <1>12, <1>13, <1>14, <1>15,
     <1>16 DEF IInv, FateInv

LEMMA CannotForkKeeps ==
  ASSUME IInv, ServerCannotFork
  PROVE  IInv'
<1>1. /\ Serve("dead", srv.sig, srv.child_pid, srv.child_stopped, srv.status)
      /\ srv' \in SrvT
  BY Zenon DEF IInv, TypeOK, ServerCannotFork, Serve, SrvT, ServerPc, NoPid
<1>2. /\ At = "pid" /\ st = << >> /\ ctl = << >> /\ srv.pc = "go"
      /\ ~srv.child_stopped
      /\ UNCHANGED <<fsrv, proc, forks, ctl, st, input, trace, fate>>
  BY ServerAt DEF ServerCannotFork
<1>3. TypeOK'
  BY <1>1, <1>2 DEF IInv, TypeOK, SrvT
<1>4. LastInv' /\ Open' /\ Future' /\ TimerInv'
  BY <1>2 DEF IInv, FateInv, LastInv, State, Open, At, Future, TimerInv
<1>5. StopInv'
  BY <1>1, <1>2 DEF IInv, StopInv, Dead, At, Serve
<1>6. LinkInv'
  BY <1>1, <1>2, Words DEF IInv, LinkInv, Dead, At, PidWord, StatusWord, Serve
<1>7. ChildInv'
  BY <1>1, <1>2, Fields, Bounds DEF IInv, ChildInv, Dead, At, State, Alive,
     Asked, Serve
<1>8. Unset'
  BY <1>1, <1>2 DEF IInv, FateInv, Unset, At, Asked, Serve
<1>9. Ended'
  BY <1>1, <1>2, Bounds DEF IInv, FateInv, Ended, At, Dead, State, Asked,
     Serve
<1>10. PendInv'
  BY <1>1, <1>2 DEF IInv, PendInv, ChildInv, State, Killable, Serve
<1>11. TraceInv'
  BY <1>1, <1>2, Bounds DEF IInv, TraceInv, Dead, At, State, Asked, TraceOwn,
     Serve
<1>12. AnswerInv'
  BY <1>1, <1>2, Bounds DEF IInv, AnswerInv, At, State, Asked, Serve
<1>. QED
  BY <1>3, <1>4, <1>5, <1>6, <1>7, <1>8, <1>9, <1>10, <1>11, <1>12 DEF IInv,
     FateInv

LEMMA TellsPidKeeps ==
  ASSUME IInv, ServerTellsPid
  PROVE  IInv'
<1>1. /\ Serve("wait", srv.sig, forks, srv.child_stopped, srv.status)
      /\ srv' \in SrvT
  BY Zenon DEF IInv, TypeOK, ServerTellsPid, Serve, SrvT, ServerPc, NoPid
<1>2. /\ At = "pid" /\ st = << >> /\ ctl = << >>
      /\ srv.pc = "forked" /\ st' = <<PidWord>>
      /\ UNCHANGED <<fsrv, proc, forks, ctl, input, trace, fate>>
  BY ServerAt, Words DEF ServerTellsPid, PidWord
<1>3. TypeOK'
  BY <1>1, <1>2 DEF IInv, TypeOK, SrvT
<1>4. LastInv' /\ Open' /\ Future' /\ TimerInv'
  BY <1>2 DEF IInv, FateInv, LastInv, State, Open, At, Future, TimerInv
<1>5. StopInv'
  BY <1>1, <1>2 DEF IInv, StopInv, Dead, At, Serve
<1>6. LinkInv'
  BY <1>1, <1>2, Words DEF IInv, LinkInv, Dead, At, PidWord, StatusWord, Serve
<1>7. ChildInv'
  BY <1>1, <1>2, Fields DEF IInv, ChildInv, Dead, At, State, Alive, Asked,
     Serve
<1>8. Unset'
  BY <1>1, <1>2 DEF IInv, FateInv, Unset, At, Asked, Serve
<1>9. Ended'
  BY <1>1, <1>2, Bounds DEF IInv, FateInv, Ended, At, Dead, State, Asked,
     Serve
<1>10. PendInv'
  BY <1>1, <1>2 DEF IInv, PendInv, ChildInv, State, Killable, Serve
<1>11. TraceInv'
  BY <1>1, <1>2, Bounds DEF IInv, TraceInv, Dead, At, State, Asked, TraceOwn,
     Serve
<1>12. AnswerInv'
  BY <1>1, <1>2, Bounds DEF IInv, AnswerInv, At, State, Asked, Serve
<1>. QED
  BY <1>3, <1>4, <1>5, <1>6, <1>7, <1>8, <1>9, <1>10, <1>11, <1>12 DEF IInv,
     FateInv

LEMMA ContinuesKeeps ==
  ASSUME IInv, ServerContinues, State(forks) = "stop"
  PROVE  IInv'
<1>1. forks \in Pid /\ srv.child_pid = forks /\ srv.pc = "go"
  BY Fields, Bounds DEF IInv, ChildInv, ServerContinues
<1>2. /\ Serve("wait", srv.sig, srv.child_pid, FALSE, srv.status)
      /\ srv' \in SrvT
  BY Zenon DEF IInv, TypeOK, ServerContinues, Serve, SrvT, ServerPc, NoPid
<1>3. /\ Became(forks, "begin", proc[forks].left, proc[forks].doing,
                proc[forks].pending, proc[forks].status)
      /\ proc' \in [Pid -> Child]
  <2>1. proc' = [proc EXCEPT ![forks].state = "begin"]
    BY <1>1, Zenon DEF ServerContinues, State
  <2>. QED
    BY <1>1, <2>1, StateChanges DEF IInv
<1>4. /\ At = "pid" /\ st = << >> /\ ctl = << >> /\ srv.pc = "go"
      /\ srv.child_stopped /\ st' = <<PidWord>>
      /\ UNCHANGED <<fsrv, forks, ctl, input, trace, fate>>
  BY <1>1, ServerAt, Words DEF ServerContinues, PidWord
<1>5. fate[fsrv.run] = "none" /\ forks < fsrv.run
  BY <1>4 DEF IInv, FateInv, Unset, Asked
<1>6. TypeOK'
  BY <1>1, <1>2, <1>3, <1>4, <1>5 DEF IInv, TypeOK, SrvT
<1>7. Future' /\ TimerInv'
  BY <1>4 DEF IInv, FateInv, Future, TimerInv, At
<1>8. StopInv'
  BY <1>1, <1>2, <1>4, <1>5 DEF IInv, StopInv, Dead, At, Serve
<1>9. LinkInv'
  BY <1>1, <1>2, <1>4, <1>5, Words DEF IInv, LinkInv, Dead, At, PidWord,
     StatusWord, Serve
<1>10. LastInv'
  BY <1>1, <1>3, <1>4, <1>5 DEF IInv, LastInv, State, Became
<1>11. ChildInv'
  BY <1>1, <1>2, <1>3, <1>4, <1>5, Fields DEF IInv, ChildInv, Dead, At, State,
     Alive, Asked, Serve, Became
<1>12. Unset'
  BY <1>1, <1>2, <1>4, <1>5 DEF IInv, FateInv, Unset, At, Asked, Serve
<1>13. Open'
  BY <1>1, <1>2, <1>3, <1>4, <1>5, Bounds, Fields DEF IInv, FateInv, Open, At,
     State, Became
<1>14. Ended'
  BY <1>1, <1>2, <1>3, <1>4, <1>5, Bounds DEF IInv, FateInv, Ended, At, Dead,
     State, Asked, Serve, Became
<1>15. PendInv'
  BY <1>1, <1>2, <1>3, <1>4, <1>5 DEF IInv, PendInv, ChildInv, State,
     Killable, Serve, Became
<1>16. TraceInv'
  BY <1>1, <1>2, <1>3, <1>4, <1>5, Bounds DEF IInv, TraceInv, Dead, At, State,
     Asked, TraceOwn, Serve, Became
<1>17. AnswerInv'
  BY <1>1, <1>2, <1>3, <1>4, <1>5, Bounds DEF IInv, AnswerInv, At, State,
     Asked, Serve, Became
<1>. QED
  BY <1>6, <1>7, <1>8, <1>9, <1>10, <1>11, <1>12, <1>13, <1>14, <1>15, <1>16,
     <1>17 DEF IInv, FateInv

LEMMA ContinuesNothing ==
  ASSUME IInv, ServerContinues, State(forks) # "stop"
  PROVE  IInv'
<1>1. forks \in Pid /\ srv.child_pid = forks /\ srv.pc = "go"
  BY Fields, Bounds DEF IInv, ChildInv, ServerContinues
<1>2. /\ Serve("wait", srv.sig, srv.child_pid, FALSE, srv.status)
      /\ srv' \in SrvT
  BY Zenon DEF IInv, TypeOK, ServerContinues, Serve, SrvT, ServerPc, NoPid
<1>3. /\ At = "pid" /\ st = << >> /\ ctl = << >> /\ srv.pc = "go"
      /\ srv.child_stopped /\ st' = <<PidWord>>
      /\ UNCHANGED <<fsrv, proc, forks, ctl, input, trace, fate>>
  BY <1>1, ServerAt, Words DEF ServerContinues, PidWord, State
<1>4. fsrv.stop_soon
  BY <1>1, <1>3, Fields, Words, Bounds DEF IInv, StopInv, PendInv, TimerInv,
     Killable, At
<1>5. TypeOK'
  BY <1>1, <1>2, <1>3, <1>4 DEF IInv, TypeOK, SrvT
<1>6. LastInv' /\ Open' /\ Future' /\ TimerInv'
  BY <1>3 DEF IInv, FateInv, LastInv, State, Open, At, Future, TimerInv
<1>7. StopInv'
  BY <1>1, <1>2, <1>3, <1>4 DEF IInv, StopInv, Dead, At, Serve
<1>8. LinkInv'
  BY <1>1, <1>2, <1>3, <1>4, Words DEF IInv, LinkInv, Dead, At, PidWord,
     StatusWord, Serve
<1>9. ChildInv'
  BY <1>1, <1>2, <1>3, <1>4, Fields DEF IInv, ChildInv, Dead, At, State,
     Alive, Asked, Serve
<1>10. Unset'
  BY <1>1, <1>2, <1>3, <1>4 DEF IInv, FateInv, Unset, At, Asked, Serve
<1>11. Ended'
  BY <1>1, <1>2, <1>3, <1>4, Bounds DEF IInv, FateInv, Ended, At, Dead, State,
     Asked, Serve
<1>12. PendInv'
  BY <1>1, <1>2, <1>3, <1>4 DEF IInv, PendInv, ChildInv, State, Killable,
     Serve
<1>13. TraceInv'
  BY <1>1, <1>2, <1>3, <1>4, Bounds DEF IInv, TraceInv, Dead, At, State,
     Asked, TraceOwn, Serve
<1>14. AnswerInv'
  BY <1>1, <1>2, <1>3, <1>4, Bounds DEF IInv, AnswerInv, At, State, Asked,
     Serve
<1>. QED
  BY <1>5, <1>6, <1>7, <1>8, <1>9, <1>10, <1>11, <1>12, <1>13, <1>14 DEF IInv,
     FateInv

LEMMA WaitsForEnd ==
  ASSUME IInv, ServerWaits, State(forks) = "zombie"
  PROVE  IInv'
<1>1. forks \in Pid /\ srv.child_pid = forks /\ srv.pc = "wait"
  BY Fields, Bounds DEF IInv, ChildInv, ServerWaits
<1>2. /\ Serve("report", srv.sig, srv.child_pid, srv.child_stopped, proc[forks].status)
      /\ srv' \in SrvT
  BY <1>1, Fields, Zenon DEF IInv, TypeOK, ServerWaits, Serve, SrvT, ServerPc,
     NoPid, State
<1>3. /\ Became(forks, "gone", proc[forks].left, proc[forks].doing,
                proc[forks].pending, proc[forks].status)
      /\ proc' \in [Pid -> Child]
  <2>1. proc' = [proc EXCEPT ![forks].state = "gone"]
    BY <1>1, Zenon DEF ServerWaits, State
  <2>. QED
    BY <1>1, <2>1, StateChanges DEF IInv
<1>4. /\ ctl = << >>
      /\ \/ At = "pid" /\ st = <<PidWord>>
         \/ At \in {"wait", "drain"} /\ st = << >>
      /\ UNCHANGED <<fsrv, forks, ctl, st, input, trace, fate>>
  BY <1>1, ServerAt DEF ServerWaits
<1>5. TypeOK'
  BY <1>1, <1>2, <1>3, <1>4 DEF IInv, TypeOK, SrvT
<1>6. Future' /\ TimerInv'
  BY <1>4 DEF IInv, FateInv, Future, TimerInv, At
<1>7. StopInv'
  BY <1>1, <1>2, <1>4 DEF IInv, StopInv, Dead, At, Serve
<1>8. LinkInv'
  BY <1>1, <1>2, <1>4, Words DEF IInv, LinkInv, Dead, At, PidWord, StatusWord,
     Serve
<1>9. LastInv'
  BY <1>1, <1>3, <1>4 DEF IInv, LastInv, State, Became
<1>10. ChildInv'
  BY <1>1, <1>2, <1>3, <1>4, Fields DEF IInv, ChildInv, Dead, At, State,
     Alive, Asked, Serve, Became
<1>11. Unset'
  BY <1>1, <1>2, <1>4 DEF IInv, FateInv, Unset, At, Asked, Serve
<1>12. Open'
  BY <1>1, <1>3, <1>4, Bounds DEF IInv, FateInv, Open, At, State, Became
<1>13. Ended'
  BY <1>1, <1>2, <1>3, <1>4, Bounds DEF IInv, FateInv, Ended, At, Dead, State,
     Asked, Serve, Became
<1>14. PendInv'
  BY <1>1, <1>2, <1>3, <1>4 DEF IInv, PendInv, ChildInv, State, Killable,
     Serve, Became
<1>15. TraceInv'
  BY <1>1, <1>2, <1>3, <1>4, Bounds DEF IInv, TraceInv, Dead, At, State,
     Asked, TraceOwn, Serve, Became
<1>16. AnswerInv'
  BY <1>1, <1>2, <1>3, <1>4, Bounds DEF IInv, AnswerInv, At, State, Asked,
     Serve, Became
<1>. QED
  BY <1>5, <1>6, <1>7, <1>8, <1>9, <1>10, <1>11, <1>12, <1>13, <1>14, <1>15,
     <1>16 DEF IInv, FateInv

LEMMA WaitsForStop ==
  ASSUME IInv, ServerWaits, State(forks) # "zombie"
  PROVE  IInv'
<1>1. forks \in Pid /\ srv.child_pid = forks /\ srv.pc = "wait"
  BY Fields, Bounds DEF IInv, ChildInv, ServerWaits
<1>2. /\ Serve("report", srv.sig, srv.child_pid, TRUE, [how |-> "stopped", code |-> SIGSTOP])
      /\ srv' \in SrvT
  BY <1>1, Bounds, Zenon DEF IInv, TypeOK, ServerWaits, Serve, SrvT, ServerPc,
     NoPid, State
<1>3. /\ ctl = << >>
      /\ \/ At = "pid" /\ st = <<PidWord>>
         \/ At \in {"wait", "drain"} /\ st = << >>
      /\ State(forks) = "stop"
      /\ UNCHANGED <<fsrv, proc, forks, ctl, st, input, trace, fate>>
  BY <1>1, ServerAt DEF ServerWaits, State
<1>4. TypeOK'
  BY <1>1, <1>2, <1>3 DEF IInv, TypeOK, SrvT
<1>5. LastInv' /\ Open' /\ Future' /\ TimerInv'
  BY <1>3 DEF IInv, FateInv, LastInv, State, Open, At, Future, TimerInv
<1>6. StopInv'
  BY <1>1, <1>2, <1>3 DEF IInv, StopInv, Dead, At, Serve
<1>7. LinkInv'
  BY <1>1, <1>2, <1>3, Words DEF IInv, LinkInv, Dead, At, PidWord, StatusWord,
     Serve
<1>8. ChildInv'
  BY <1>1, <1>2, <1>3, Fields DEF IInv, ChildInv, Dead, At, State, Alive,
     Asked, Serve
<1>9. Unset'
  BY <1>1, <1>2, <1>3 DEF IInv, FateInv, Unset, At, Asked, Serve
<1>10. Ended'
  BY <1>1, <1>2, <1>3, Bounds DEF IInv, FateInv, Ended, At, Dead, State,
     Asked, Serve
<1>11. PendInv'
  BY <1>1, <1>2, <1>3 DEF IInv, PendInv, ChildInv, State, Killable, Serve
<1>12. TraceInv'
  BY <1>1, <1>2, <1>3, Bounds DEF IInv, TraceInv, Dead, At, State, Asked,
     TraceOwn, Serve
<1>13. AnswerInv'
  BY <1>1, <1>2, <1>3, Bounds, Results, StopIsNoCrash DEF IInv, AnswerInv, At,
     State, Asked, Serve
<1>. QED
  BY <1>4, <1>5, <1>6, <1>7, <1>8, <1>9, <1>10, <1>11, <1>12, <1>13 DEF IInv,
     FateInv

LEMMA ReportsKeeps ==
  ASSUME IInv, ServerReports
  PROVE  IInv'
<1>1. /\ Serve("idle", srv.sig, srv.child_pid, srv.child_stopped, srv.status)
      /\ srv' \in SrvT
  BY Zenon DEF IInv, TypeOK, ServerReports, Serve, SrvT, ServerPc, NoPid
<1>2. /\ ctl = << >>
      /\ \/ At = "pid" /\ st = <<PidWord>>
         \/ At \in {"wait", "drain"} /\ st = << >>
      /\ srv.pc = "report" /\ st' = Append(st, StatusWord)
      /\ UNCHANGED <<fsrv, proc, forks, ctl, input, trace, fate>>
  BY ServerAt DEF ServerReports, StatusWord
<1>3. TypeOK'
  BY <1>1, <1>2 DEF IInv, TypeOK, SrvT
<1>4. LastInv' /\ Open' /\ Future' /\ TimerInv'
  BY <1>2 DEF IInv, FateInv, LastInv, State, Open, At, Future, TimerInv
<1>5. StopInv'
  BY <1>1, <1>2 DEF IInv, StopInv, Dead, At, Serve
<1>6. LinkInv'
  <2>1. At' = At /\ PidWord' = PidWord /\ StatusWord' = StatusWord
    BY <1>1, <1>2 DEF At, PidWord, StatusWord, Serve
  <2>2. \/ At = "pid" /\ st' = <<PidWord, StatusWord>>
        \/ At \in {"wait", "drain"} /\ st' = <<StatusWord>>
    BY <1>2, Words
  <2>. QED
    BY <1>1, <1>2, <2>1, <2>2 DEF LinkInv, Serve
<1>7. ChildInv'
  BY <1>1, <1>2, Fields DEF IInv, ChildInv, Dead, At, State, Alive, Asked,
     Serve
<1>8. Unset'
  BY <1>1, <1>2 DEF IInv, FateInv, Unset, At, Asked, Serve
<1>9. Ended'
  BY <1>1, <1>2, Bounds DEF IInv, FateInv, Ended, At, Dead, State, Asked,
     Serve
<1>10. PendInv'
  BY <1>1, <1>2 DEF IInv, PendInv, ChildInv, State, Killable, Serve
<1>11. TraceInv'
  BY <1>1, <1>2, Bounds DEF IInv, TraceInv, Dead, At, State, Asked, TraceOwn,
     Serve
<1>12. AnswerInv'
  BY <1>1, <1>2, Bounds DEF IInv, AnswerInv, At, State, Asked, Serve
<1>. QED
  BY <1>3, <1>4, <1>5, <1>6, <1>7, <1>8, <1>9, <1>10, <1>11, <1>12 DEF IInv,
     FateInv

LEMMA DiesKeeps ==
  ASSUME IInv, NEW p \in Pid, Dies(p)
  PROVE  IInv'
<1>1. /\ p = forks /\ State(p) \in {"begin", "run", "stop"}
      /\ proc[p].pending # "none" /\ fate' = Killed(p)
      /\ UNCHANGED <<fsrv, srv, forks, ctl, st, input, trace>>
  BY Bounds DEF IInv, LastInv, Dies, Alive, State
<1>2. /\ Became(p, "zombie", proc[p].left, proc[p].doing,
                proc[p].pending, [how |-> "signaled", code |-> 9])
      /\ proc' \in [Pid -> Child]
  <2>1. proc[p] \in Child
    BY DEF IInv, TypeOK
  <2>2. PICK r : r = [proc[p] EXCEPT !.state = "zombie",
                                     !.status = [how |-> "signaled", code |-> 9]]
    BY Zenon
  <2>3. /\ r \in Child /\ r.state = "zombie" /\ r.left = proc[p].left
        /\ r.doing = proc[p].doing /\ r.pending = proc[p].pending
        /\ r.status = [how |-> "signaled", code |-> 9]
    BY <1>1, <2>1, <2>2, Fields, Bounds, Zenon DEF IInv, Child
  <2>4. proc' = [proc EXCEPT ![p] = r]
    BY <1>1, <2>2, Zenon DEF Dies
  <2>. QED
    BY <2>3, <2>4 DEF IInv, TypeOK, Became
<1>3. /\ State(p) \in {"begin", "run"} => fate' = [fate EXCEPT ![fsrv.run] = "killed"]
      /\ State(p) = "stop" => fate' = fate
  BY <1>1, Running DEF Killed, State
<1>4. ~(fsrv.pc \in {"pid", "wait"} /\ ~fsrv.stop_soon /\ ~Asked)
  <2>. SUFFICES ASSUME fsrv.pc \in {"pid", "wait"}, ~fsrv.stop_soon, ~Asked
                PROVE  FALSE
    OBVIOUS
  <2>1. At = fsrv.pc /\ ctl = << >> /\ srv.pc # "reap"
    BY DEF At, Asked
  <2>2. ~Killable
    BY <2>1, Words DEF IInv, TimerInv, Killable
  <2>. QED
    BY <1>1, <2>2, Bounds DEF IInv, PendInv, State
<1>5. TypeOK'
  BY <1>1, <1>2, <1>3, <1>4 DEF IInv, TypeOK, Fate
<1>6. StopInv' /\ LinkInv' /\ TimerInv'
  BY <1>1 DEF IInv, StopInv, Dead, At, LinkInv, PidWord, StatusWord, TimerInv
<1>7. LastInv'
  BY <1>1, <1>2, <1>3, <1>4 DEF IInv, LastInv, State, Became
<1>8. ChildInv'
  BY <1>1, <1>2, <1>3, <1>4, Fields DEF IInv, ChildInv, Dead, At, State,
     Alive, Asked, Became
<1>9. Unset'
  BY <1>1, <1>3, <1>4, Running DEF IInv, FateInv, Unset, At, Asked
<1>10. Open'
  BY <1>1, <1>2, <1>3, <1>4, Bounds DEF IInv, FateInv, Open, At, State, Became
<1>11. Ended'
  BY <1>1, <1>2, <1>3, <1>4, Bounds, Running DEF IInv, FateInv, Ended, At,
     Dead, State, Asked, TypeOK, Fate, Became
<1>12. Future'
  <2>1. \A r \in Run : r > fsrv.run => fate'[r] = fate[r]
    BY <1>1, <1>3, Fields, Bounds DEF IInv, TypeOK
  <2>. QED
    BY <1>1, <2>1 DEF IInv, FateInv, Future
<1>13. PendInv'
  BY <1>1, <1>2, <1>3, <1>4 DEF IInv, PendInv, ChildInv, State, Killable,
     Became
<1>14. TraceInv'
  BY <1>1, <1>2, <1>3, <1>4, Bounds, Running DEF IInv, TraceInv, Dead, At,
     State, Asked, TraceOwn, Became
<1>15. AnswerInv'
  BY <1>1, <1>4, ServerAt DEF AnswerInv, Asked
<1>. QED
  BY <1>5, <1>6, <1>7, <1>8, <1>9, <1>10, <1>11, <1>12, <1>13, <1>14, <1>15
     DEF IInv, FateInv

LEMMA BeginsKeeps ==
  ASSUME IInv, NEW p \in Pid, ChildBegins(p)
  PROVE  IInv'
<1>1. /\ State(p) = "begin" /\ trace' = trace \cup {input}
      /\ UNCHANGED <<fsrv, srv, forks, ctl, st, input, fate>>
  BY  DEF ChildBegins, State
<1>2. /\ p = forks /\ fsrv.run \in Run /\ input = fsrv.run
      /\ fate[fsrv.run] = "none" /\ ~Asked /\ At # "request"
      /\ At \in {"pid", "wait", "drain"} \/ fsrv.stop_soon
  BY <1>1, Running
<1>3. /\ Became(p, "run", proc[p].left, input,
                proc[p].pending, proc[p].status)
      /\ proc' \in [Pid -> Child]
  <2>1. proc[p] \in Child
    BY DEF IInv, TypeOK
  <2>2. PICK r : r = [proc[p] EXCEPT !.state = "run", !.doing = input]
    BY Zenon
  <2>3. /\ r \in Child /\ r.state = "run" /\ r.left = proc[p].left
        /\ r.doing = input /\ r.pending = proc[p].pending
        /\ r.status = proc[p].status
    BY <1>2, <2>1, <2>2, Fields, Bounds, Zenon DEF IInv, Child
  <2>4. proc' = [proc EXCEPT ![p] = r]
    BY <1>2, <2>2, Zenon DEF ChildBegins
  <2>. QED
    BY <2>3, <2>4 DEF IInv, TypeOK, Became
<1>4. TypeOK'
  BY <1>1, <1>2, <1>3 DEF IInv, TypeOK
<1>5. StopInv' /\ LinkInv' /\ Unset' /\ Future' /\ TimerInv'
  BY <1>1 DEF IInv, FateInv, StopInv, Dead, At, LinkInv, PidWord, StatusWord,
     Unset, Asked, Future, TimerInv
<1>6. LastInv'
  BY <1>1, <1>2, <1>3 DEF IInv, LastInv, State, Became
<1>7. ChildInv'
  BY <1>1, <1>2, <1>3, Fields DEF IInv, ChildInv, Dead, At, State, Alive,
     Asked, Became
<1>8. Open'
  BY <1>1, <1>2, <1>3, Bounds DEF IInv, FateInv, Open, At, State, Became
<1>9. Ended'
  BY <1>1, <1>2, <1>3, Bounds DEF IInv, FateInv, Ended, At, Dead, State,
     Asked, Became
<1>10. PendInv'
  BY <1>1, <1>2, <1>3 DEF IInv, PendInv, ChildInv, State, Killable, Became
<1>11. TraceInv'
  BY <1>1, <1>2, <1>3, Bounds DEF IInv, TraceInv, Dead, At, State, Asked,
     TraceOwn, Became
<1>12. AnswerInv'
  BY <1>1, <1>2, <1>3, Bounds DEF IInv, AnswerInv, At, State, Asked, Became
<1>. QED
  BY <1>4, <1>5, <1>6, <1>7, <1>8, <1>9, <1>10, <1>11, <1>12 DEF IInv, FateInv

LEMMA EndsKeeps ==
  ASSUME IInv, NEW p \in Pid, NEW s \in Status, NEW f \in {"ok", "crash"},
         run_result(s, FALSE) = f,
         proc[p].state = "run", Ends(p, s, f)
  PROVE  IInv'
<1>1. /\ p = forks /\ fsrv.run \in Run /\ proc[p].doing = fsrv.run
      /\ fate[fsrv.run] = "none" /\ ~Asked /\ At # "request"
      /\ srv.pc \in {"forked", "wait", "dead"}
  BY Running DEF State
<1>2. /\ State(p) = "run" /\ fate' = [fate EXCEPT ![fsrv.run] = f]
      /\ UNCHANGED <<fsrv, srv, forks, ctl, st, input, trace>>
  BY <1>1 DEF Ends, State
<1>3. /\ Became(p, "zombie", proc[p].left, proc[p].doing,
                proc[p].pending, s)
      /\ proc' \in [Pid -> Child]
  <2>1. proc[p] \in Child
    BY DEF IInv, TypeOK
  <2>2. PICK r : r = [proc[p] EXCEPT !.state = "zombie", !.status = s]
    BY Zenon
  <2>3. /\ r \in Child /\ r.state = "zombie" /\ r.left = proc[p].left
        /\ r.doing = proc[p].doing /\ r.pending = proc[p].pending
        /\ r.status = s
    BY <1>1, <2>1, <2>2, Fields, Bounds, Zenon DEF IInv, Child
  <2>4. proc' = [proc EXCEPT ![p] = r]
    BY <1>1, <2>2, Zenon DEF Ends
  <2>. QED
    BY <2>3, <2>4 DEF IInv, TypeOK, Became
<1>4. TypeOK'
  BY <1>1, <1>2, <1>3 DEF IInv, TypeOK, Fate
<1>5. StopInv' /\ LinkInv' /\ TimerInv'
  BY <1>2 DEF IInv, StopInv, Dead, At, LinkInv, PidWord, StatusWord, TimerInv
<1>6. LastInv'
  BY <1>1, <1>2, <1>3 DEF IInv, LastInv, State, Became
<1>7. ChildInv'
  BY <1>1, <1>2, <1>3, Fields DEF IInv, ChildInv, Dead, At, State, Alive,
     Asked, Became
<1>8. Unset'
  BY <1>1, <1>2 DEF IInv, FateInv, Unset, At, Asked
<1>9. Open'
  BY <1>1, <1>2, <1>3, Bounds DEF IInv, FateInv, Open, At, State, Became
<1>10. Ended'
  BY <1>1, <1>2, <1>3, Bounds DEF IInv, FateInv, Ended, At, Dead, State,
     Asked, TypeOK, Fate, Became
<1>11. Future'
  BY <1>1, <1>2, <1>3, Fields, Bounds, SMTT(40) DEF IInv, FateInv, Future
<1>12. PendInv'
  BY <1>1, <1>2, <1>3 DEF IInv, PendInv, ChildInv, State, Killable, Became
<1>13. TraceInv'
  BY <1>1, <1>2, <1>3, Bounds DEF IInv, TraceInv, Dead, At, State, Asked,
     TraceOwn, Became
<1>14. AnswerInv'
  <2>1. /\ proc'[forks].state = "zombie" /\ proc'[forks].status = s
        /\ fate'[fsrv.run] = f
    BY <1>1, <1>2, <1>3 DEF IInv, TypeOK, Became
  <2>. QED
    BY <1>1, <1>2, <2>1 DEF AnswerInv, State
<1>. QED
  BY <1>4, <1>5, <1>6, <1>7, <1>8, <1>9, <1>10, <1>11, <1>12, <1>13, <1>14 DEF
     IInv, FateInv

LEMMA LoopStopKeeps ==
  ASSUME IInv, NEW p \in Pid, ChildLoops(p), CountDown(proc[p].left) # 0
  PROVE  IInv'
<1>1. /\ p = forks /\ fsrv.run \in Run /\ proc[p].doing = fsrv.run
      /\ fate[fsrv.run] = "none" /\ ~Asked /\ At # "request"
      /\ srv.pc \in {"forked", "wait", "dead"}
  BY Running DEF ChildLoops, State
<1>2. /\ fsrv.persistent_mode /\ State(p) = "run"
      /\ fate' = [fate EXCEPT ![fsrv.run] = "ok"]
      /\ proc' = [proc EXCEPT ![p].state = "stop",
                              ![p].left = CountDown(proc[p].left)]
      /\ UNCHANGED <<fsrv, srv, forks, ctl, st, input, trace>>
  BY <1>1 DEF ChildLoops, State
<1>3. CountDown(proc[p].left) \in 0 .. CntWord - 1
  BY Fields, Bounds DEF IInv
<1>4. /\ Became(p, "stop", CountDown(proc[p].left), proc[p].doing,
                proc[p].pending, proc[p].status)
      /\ proc' \in [Pid -> Child]
  <2>1. proc[p] \in Child
    BY DEF IInv, TypeOK
  <2>2. PICK r : r = [proc[p] EXCEPT !.state = "stop",
                                     !.left = CountDown(proc[p].left)]
    BY Zenon
  <2>3. /\ r \in Child /\ r.state = "stop" /\ r.left = CountDown(proc[p].left)
        /\ r.doing = proc[p].doing /\ r.pending = proc[p].pending
        /\ r.status = proc[p].status
    BY <1>2, <1>3, <2>1, <2>2, Fields, Bounds, Zenon DEF IInv, Child
  <2>4. proc' = [proc EXCEPT ![p] = r]
    BY <1>2, <1>3, <2>2, Zenon DEF ChildLoops
  <2>. QED
    BY <2>3, <2>4 DEF IInv, TypeOK, Became
<1>5. TypeOK'
  BY <1>1, <1>2, <1>3, <1>4 DEF IInv, TypeOK, Fate
<1>6. StopInv' /\ LinkInv' /\ TimerInv'
  BY <1>2 DEF IInv, StopInv, Dead, At, LinkInv, PidWord, StatusWord, TimerInv
<1>7. LastInv'
  BY <1>1, <1>2, <1>3, <1>4 DEF IInv, LastInv, State, Became
<1>8. ChildInv'
  BY <1>1, <1>2, <1>3, <1>4, Fields DEF IInv, ChildInv, Dead, At, State,
     Alive, Asked, Became
<1>9. Unset'
  BY <1>1, <1>2, <1>3 DEF IInv, FateInv, Unset, At, Asked
<1>10. Open'
  BY <1>1, <1>2, <1>3, <1>4, Bounds DEF IInv, FateInv, Open, At, State, Became
<1>11. Ended'
  BY <1>1, <1>2, <1>3, <1>4, Bounds DEF IInv, FateInv, Ended, At, Dead, State,
     Asked, TypeOK, Fate, Became
<1>12. Future'
  BY <1>1, <1>2, <1>3, <1>4, Fields, Bounds DEF IInv, FateInv, Future
<1>13. PendInv'
  <2>1. /\ proc'[forks].state = "stop" /\ forks # 0
        /\ proc'[forks].pending = proc[forks].pending
    BY <1>1, <1>4, Bounds DEF Became
  <2>. QED
    BY <1>1, <1>2, <2>1 DEF IInv, PendInv, State, Killable
<1>14. TraceInv'
  BY <1>1, <1>2, <1>3, <1>4, Bounds DEF IInv, TraceInv, Dead, At, State,
     Asked, TraceOwn, Became
<1>15. AnswerInv'
  <2>1. proc'[forks].state = "stop" /\ fate'[fsrv.run] = "ok"
    BY <1>1, <1>2, <1>4 DEF IInv, TypeOK, Became
  <2>. QED
    BY <1>1, <1>2, <2>1 DEF AnswerInv, State
<1>. QED
  BY <1>5, <1>6, <1>7, <1>8, <1>9, <1>10, <1>11, <1>12, <1>13, <1>14, <1>15
     DEF IInv, FateInv

LEMMA ExitKills ==
  ASSUME IInv, at_exit, Alive(srv.child_pid)
  PROVE  IInv'
<1>1. /\ forks \in Pid /\ srv.child_pid = forks
      /\ State(forks) \in {"begin", "run", "stop"}
  BY Bounds DEF IInv, LastInv, Alive, State
<1>2. /\ Serve("dead", srv.sig, srv.child_pid, srv.child_stopped, srv.status)
      /\ srv' \in SrvT
  BY Zenon DEF IInv, TypeOK, at_exit, Serve, SrvT, ServerPc, NoPid
<1>3. /\ Became(forks, "gone", proc[forks].left, proc[forks].doing,
                proc[forks].pending, proc[forks].status)
      /\ proc' \in [Pid -> Child]
  <2>1. proc' = [proc EXCEPT ![forks].state = "gone"]
    BY <1>1, Zenon DEF at_exit
  <2>. QED
    BY <1>1, <2>1, StateChanges DEF IInv
<1>4. /\ srv.pc # "dead"
      /\ fsrv.stop_soon \/ fsrv.pc \in {"restart", "killing"}
      /\ fate' = Killed(forks)
      /\ UNCHANGED <<fsrv, forks, ctl, st, input, trace>>
  BY <1>1 DEF at_exit, IInv, StopInv, Dead
<1>5. /\ State(forks) \in {"begin", "run"} =>
            fate' = [fate EXCEPT ![fsrv.run] = "killed"]
      /\ State(forks) = "stop" => fate' = fate
  BY <1>1, <1>4, Running DEF Killed, State
<1>6. TypeOK'
  BY <1>1, <1>2, <1>3, <1>4, <1>5 DEF IInv, TypeOK, SrvT, Fate
<1>7. TimerInv'
  BY <1>4 DEF IInv, TimerInv, At
<1>8. StopInv'
  BY <1>1, <1>2, <1>4, <1>5 DEF IInv, StopInv, Dead, At, Serve
<1>9. LinkInv'
  BY <1>1, <1>2, <1>4, <1>5, Words DEF IInv, LinkInv, Dead, At, PidWord,
     StatusWord, StopInv, Serve
<1>10. LastInv'
  BY <1>1, <1>3, <1>4, <1>5 DEF IInv, LastInv, State, Became
<1>11. ChildInv'
  <2>1. ~Alive(forks)'
    BY <1>1, <1>3, <1>4 DEF Alive, Became
  <2>. QED
    BY <1>1, <1>2, <1>4, <2>1, Fields
       DEF IInv, ChildInv, Serve, At, Dead, Asked
<1>12. Unset'
  BY <1>1, <1>2, <1>4, <1>5, Running DEF IInv, FateInv, Unset, At, Asked,
     Serve
<1>13. Open'
  BY <1>1, <1>3, <1>4, <1>5, Bounds DEF IInv, FateInv, Open, At, State, Became
<1>14. Ended'
  BY <1>1, <1>2, <1>3, <1>4, <1>5, Bounds DEF IInv, FateInv, Ended, At, Dead,
     State, Asked, Serve, Became
<1>15. Future'
  <2>1. \A r \in Run : r > fsrv.run => fate'[r] = fate[r]
    BY <1>1, <1>4, <1>5, Fields, Bounds DEF IInv, TypeOK
  <2>. QED
    BY <1>4, <2>1 DEF IInv, FateInv, Future
<1>16. PendInv'
  BY <1>1, <1>2, <1>3, <1>4, <1>5 DEF IInv, PendInv, ChildInv, State,
     Killable, Serve, Became
<1>17. TraceInv'
  BY <1>1, <1>2, <1>3, <1>4, <1>5, Bounds DEF IInv, TraceInv, Dead, At, State,
     Asked, TraceOwn, Serve, Became
<1>18. AnswerInv'
  BY <1>1, <1>2, <1>3, <1>4, <1>5, Bounds DEF IInv, AnswerInv, At, State,
     Asked, Serve, Became
<1>. QED
  BY <1>6, <1>7, <1>8, <1>9, <1>10, <1>11, <1>12, <1>13, <1>14, <1>15, <1>16,
     <1>17, <1>18 DEF IInv, FateInv

LEMMA ExitLeaves ==
  ASSUME IInv, at_exit, ~Alive(srv.child_pid)
  PROVE  IInv'
<1>1. /\ Serve("dead", srv.sig, srv.child_pid, srv.child_stopped, srv.status)
      /\ srv' \in SrvT
  BY Zenon DEF IInv, TypeOK, at_exit, Serve, SrvT, ServerPc, NoPid
<1>2. /\ srv.pc # "dead"
      /\ fsrv.stop_soon \/ fsrv.pc \in {"restart", "killing"}
      /\ UNCHANGED <<fsrv, proc, forks, ctl, st, input, trace, fate>>
  BY  DEF at_exit, IInv, StopInv, Dead
<1>3. TypeOK'
  BY <1>1, <1>2 DEF IInv, TypeOK, SrvT
<1>4. LastInv' /\ Open' /\ Future' /\ TimerInv'
  BY <1>2 DEF IInv, FateInv, LastInv, State, Open, At, Future, TimerInv
<1>5. StopInv'
  BY <1>1, <1>2 DEF IInv, StopInv, Dead, At, Serve
<1>6. LinkInv'
  BY <1>1, <1>2, Words DEF IInv, LinkInv, Dead, At, PidWord, StatusWord,
     StopInv, Serve
<1>7. ChildInv'
  BY <1>1, <1>2, Fields, ServerAt DEF IInv, ChildInv, Dead, At, State, Alive,
     Asked, Serve
<1>8. Unset'
  BY <1>1, <1>2 DEF IInv, FateInv, Unset, At, Asked, Serve
<1>9. Ended'
  BY <1>1, <1>2, Bounds DEF IInv, FateInv, Ended, At, Dead, State, Asked,
     Serve
<1>10. PendInv'
  BY <1>1, <1>2 DEF IInv, PendInv, ChildInv, State, Killable, Serve
<1>11. TraceInv'
  BY <1>1, <1>2, Bounds DEF IInv, TraceInv, Dead, At, State, Asked, TraceOwn,
     Serve
<1>12. AnswerInv'
  BY <1>1, <1>2, Bounds DEF IInv, AnswerInv, At, State, Asked, Serve
<1>. QED
  BY <1>3, <1>4, <1>5, <1>6, <1>7, <1>8, <1>9, <1>10, <1>11, <1>12 DEF IInv,
     FateInv

LEMMA FuzzerHelloKeeps ==
  ASSUME IInv, FuzzerHello
  PROVE  IInv'
<1>1. /\ Fuzz("options", fsrv.back, fsrv.run, fsrv.starts,
              fsrv.child_pid, fsrv.last_run_timed_out,
              fsrv.stop_soon, fsrv.result)
      /\ fsrv' \in FsrvT
  BY Zenon DEF IInv, TypeOK, FuzzerHello, Goto, Fuzz, FsrvT, FuzzerPc, NoPid
<1>2. /\ fsrv.pc = "hello" /\ ~fsrv.stop_soon /\ At = "hello"
      /\ srv.pc = "reply" /\ st = <<Version>> /\ ctl = << >>
  BY  DEF IInv, StopInv, LinkInv, Dead, At, FuzzerHello
<1>3. /\ st' = << >> /\ ctl' = <<Reply>>
      /\ UNCHANGED <<srv, proc, forks, input, trace, fate>>
  BY <1>2, Words DEF FuzzerHello, Reply
<1>4. TypeOK'
  BY <1>1, <1>2, <1>3 DEF IInv, TypeOK, FsrvT
<1>5. LastInv'
  BY <1>3 DEF IInv, LastInv, State
<1>6. StopInv'
  BY <1>1, <1>2, <1>3 DEF IInv, StopInv, Dead, At, Fuzz
<1>7. LinkInv'
  BY <1>1, <1>2, <1>3, Words DEF IInv, LinkInv, Dead, At, PidWord, StatusWord,
     Fuzz
<1>8. ChildInv'
  BY <1>1, <1>2, <1>3, Fields DEF IInv, ChildInv, Dead, At, State, Alive,
     Asked, Fuzz
<1>9. Unset'
  BY <1>1, <1>2, <1>3 DEF IInv, FateInv, Unset, At, Asked, Fuzz
<1>10. Open'
  BY <1>1, <1>2, <1>3, Bounds DEF IInv, FateInv, Open, At, State, Fuzz
<1>11. Ended'
  BY <1>1, <1>2, <1>3, Bounds DEF IInv, FateInv, Ended, At, Dead, State,
     Asked, Fuzz
<1>12. Future'
  BY <1>1, <1>2, <1>3 DEF IInv, FateInv, Future, Fuzz
<1>13. TimerInv'
  BY <1>1, <1>2, <1>3 DEF IInv, TimerInv, At, Fuzz
<1>14. PendInv'
  BY <1>1, <1>2, <1>3 DEF IInv, PendInv, ChildInv, State, Killable, Fuzz
<1>15. TraceInv'
  BY <1>1, <1>2, <1>3, Bounds DEF IInv, TraceInv, Dead, At, State, Asked,
     TraceOwn, Fuzz
<1>16. AnswerInv'
  BY <1>1, <1>2, <1>3, Bounds DEF IInv, AnswerInv, At, State, Asked, Fuzz
<1>. QED
  BY <1>4, <1>5, <1>6, <1>7, <1>8, <1>9, <1>10, <1>11, <1>12, <1>13, <1>14,
     <1>15, <1>16 DEF IInv, FateInv

LEMMA HelloFailsKeeps ==
  ASSUME IInv, HelloFails
  PROVE  IInv'
<1>1. /\ Fuzz("fatal", fsrv.back, fsrv.run, fsrv.starts,
              fsrv.child_pid, fsrv.last_run_timed_out,
              fsrv.stop_soon, fsrv.result)
      /\ fsrv' \in FsrvT
  BY Zenon DEF IInv, TypeOK, HelloFails, Goto, Fuzz, FsrvT, FuzzerPc, NoPid
<1>2. /\ Serve("dead", srv.sig, srv.child_pid, srv.child_stopped, srv.status)
      /\ srv' \in SrvT
  BY Zenon DEF IInv, TypeOK, HelloFails, Serve, SrvT, ServerPc, NoPid
<1>3. /\ fsrv.pc = "hello" /\ (st = << >> \/ fsrv.stop_soon) /\ At = "hello"
      /\ fsrv.run = 0 /\ forks = 0 /\ ctl = << >> /\ srv.child_pid = 0
      /\ UNCHANGED <<proc, forks, ctl, st, input, trace, fate>>
  BY Fields DEF IInv, ChildInv, LinkInv, At, HelloFails
<1>4. TypeOK'
  BY <1>1, <1>2, <1>3 DEF IInv, TypeOK, FsrvT, SrvT
<1>5. LastInv'
  BY <1>3 DEF IInv, LastInv, State
<1>6. StopInv'
  BY <1>1, <1>2, <1>3 DEF IInv, StopInv, Dead, At, Fuzz, Serve
<1>7. LinkInv'
  BY <1>1, <1>2, <1>3, Words DEF IInv, LinkInv, Dead, At, PidWord, StatusWord,
     Fuzz, Serve
<1>8. ChildInv'
  BY <1>1, <1>2, <1>3, Fields, Bounds DEF IInv, ChildInv, Dead, At, State,
     Alive, Asked, Fuzz, Serve
<1>9. Unset'
  BY <1>1, <1>2, <1>3 DEF IInv, FateInv, Unset, At, Asked, Fuzz, Serve
<1>10. Open'
  BY <1>1, <1>3, Bounds DEF IInv, FateInv, Open, At, State, Fuzz
<1>11. Ended'
  BY <1>1, <1>2, <1>3, Bounds DEF IInv, FateInv, Ended, At, Dead, State,
     Asked, Fuzz, Serve
<1>12. Future'
  BY <1>1, <1>3 DEF IInv, FateInv, Future, Fuzz
<1>13. TimerInv'
  BY <1>1, <1>3 DEF IInv, TimerInv, At, Fuzz
<1>14. PendInv'
  BY <1>1, <1>2, <1>3 DEF IInv, PendInv, ChildInv, State, Killable, Fuzz,
     Serve
<1>15. TraceInv'
  BY <1>1, <1>2, <1>3, Bounds DEF IInv, TraceInv, Dead, At, State, Asked,
     TraceOwn, Fuzz, Serve
<1>16. AnswerInv'
  BY <1>1, <1>2, <1>3, Bounds DEF IInv, AnswerInv, At, State, Asked, Fuzz,
     Serve
<1>. QED
  BY <1>4, <1>5, <1>6, <1>7, <1>8, <1>9, <1>10, <1>11, <1>12, <1>13, <1>14,
     <1>15, <1>16 DEF IInv, FateInv

LEMMA FuzzerOptionsKeeps ==
  ASSUME IInv, FuzzerOptions
  PROVE  IInv'
<1>1. /\ fsrv.pc = "options" /\ At = "options" /\ st = Options
      /\ ctl = << >> /\ srv.pc \in {"idle", "dead"}
  BY OptionsFacts DEF IInv, LinkInv, At, FuzzerOptions, OptionWords
<1>2. st' = << >> /\ UNCHANGED <<srv, proc, forks, ctl, input, trace, fate>>
  BY <1>1, OptionsFacts DEF FuzzerOptions, OptionWords
<1>3. PICK a \in {"remap", "ready"} : fsrv' = [fsrv EXCEPT !.pc = a]
  BY Zenon DEF FuzzerOptions, Goto
<1>4. /\ Fuzz(a, fsrv.back, fsrv.run, fsrv.starts,
              fsrv.child_pid, fsrv.last_run_timed_out,
              fsrv.stop_soon, fsrv.result)
      /\ fsrv' \in FsrvT
  BY <1>3, Zenon DEF IInv, TypeOK, Fuzz, FsrvT, FuzzerPc
<1>5. TypeOK'
  BY <1>1, <1>2, <1>3, <1>4 DEF IInv, TypeOK, FsrvT
<1>6. LastInv'
  BY <1>2 DEF IInv, LastInv, State
<1>7. StopInv'
  BY <1>1, <1>2, <1>3, <1>4 DEF IInv, StopInv, Dead, At, Fuzz
<1>8. LinkInv'
  BY <1>1, <1>2, <1>3, <1>4, Words DEF IInv, LinkInv, Dead, At, PidWord,
     StatusWord, Fuzz
<1>9. ChildInv'
  BY <1>1, <1>2, <1>3, <1>4, Fields DEF IInv, ChildInv, Dead, At, State,
     Alive, Asked, Fuzz
<1>10. Unset'
  BY <1>1, <1>2, <1>3, <1>4 DEF IInv, FateInv, Unset, At, Asked, Fuzz
<1>11. Open'
  BY <1>1, <1>2, <1>3, <1>4, Bounds DEF IInv, FateInv, Open, At, State, Fuzz
<1>12. Ended'
  BY <1>1, <1>2, <1>3, <1>4, Bounds DEF IInv, FateInv, Ended, At, Dead, State,
     Asked, Fuzz
<1>13. Future'
  BY <1>1, <1>2, <1>3, <1>4 DEF IInv, FateInv, Future, Fuzz
<1>14. TimerInv'
  BY <1>1, <1>2, <1>3, <1>4 DEF IInv, TimerInv, At, Fuzz
<1>15. PendInv'
  BY <1>1, <1>2, <1>3, <1>4, Fields, Bounds DEF IInv, PendInv, ChildInv,
     State, Killable, Fuzz
<1>16. TraceInv'
  BY <1>1, <1>2, <1>3, <1>4, Bounds DEF IInv, TraceInv, Dead, At, State,
     Asked, TraceOwn, ChildInv, Fuzz
<1>17. AnswerInv'
  BY <1>1, <1>2, <1>3, <1>4, Bounds DEF IInv, AnswerInv, At, State, Asked,
     Fuzz
<1>. QED
  BY <1>5, <1>6, <1>7, <1>8, <1>9, <1>10, <1>11, <1>12, <1>13, <1>14, <1>15,
     <1>16, <1>17 DEF IInv, FateInv

LEMMA OptionsFailKeeps ==
  ASSUME IInv, OptionsFail
  PROVE  IInv'
<1>1. /\ Fuzz("fatal", fsrv.back, fsrv.run, fsrv.starts,
              fsrv.child_pid, fsrv.last_run_timed_out,
              fsrv.stop_soon, fsrv.result)
      /\ fsrv' \in FsrvT
  BY Zenon DEF IInv, TypeOK, OptionsFail, Goto, Fuzz, FsrvT, FuzzerPc, NoPid
<1>2. /\ fsrv.pc = "options" /\ srv.pc = "dead" /\ fsrv.stop_soon
      /\ UNCHANGED <<srv, proc, forks, ctl, st, input, trace, fate>>
  BY  DEF IInv, StopInv, Dead, OptionsFail
<1>3. TypeOK'
  BY <1>1, <1>2 DEF IInv, TypeOK, FsrvT
<1>4. LastInv'
  BY <1>2 DEF IInv, LastInv, State
<1>5. StopInv'
  BY <1>1, <1>2 DEF IInv, StopInv, Dead, At, Fuzz
<1>6. LinkInv'
  BY <1>1, <1>2, Words DEF IInv, LinkInv, Dead, At, PidWord, StatusWord, Fuzz
<1>7. ChildInv'
  BY <1>1, <1>2, Fields DEF IInv, ChildInv, Dead, At, State, Alive, Asked,
     Fuzz
<1>8. Unset'
  BY <1>1, <1>2 DEF IInv, FateInv, Unset, At, Asked, Fuzz
<1>9. Open'
  BY <1>1, <1>2, Bounds DEF IInv, FateInv, Open, At, State, Fuzz
<1>10. Ended'
  BY <1>1, <1>2, Bounds DEF IInv, FateInv, Ended, At, Dead, State, Asked, Fuzz
<1>11. Future'
  BY <1>1, <1>2 DEF IInv, FateInv, Future, Fuzz
<1>12. TimerInv'
  BY <1>1, <1>2 DEF IInv, TimerInv, At, Fuzz
<1>13. PendInv'
  BY <1>1, <1>2 DEF IInv, PendInv, ChildInv, State, Killable, Fuzz
<1>14. TraceInv'
  BY <1>1, <1>2, Bounds DEF IInv, TraceInv, Dead, At, State, Asked, TraceOwn,
     Fuzz
<1>15. AnswerInv'
  BY <1>1, <1>2, Bounds DEF IInv, AnswerInv, At, State, Asked, Fuzz
<1>. QED
  BY <1>3, <1>4, <1>5, <1>6, <1>7, <1>8, <1>9, <1>10, <1>11, <1>12, <1>13,
     <1>14, <1>15 DEF IInv, FateInv

LEMMA WriteKeeps ==
  ASSUME IInv, WriteTestcase
  PROVE  IInv'
<1>1. /\ fsrv.pc = "ready" /\ At = "ready" /\ ~fsrv.stop_soon
      /\ fsrv.run + 1 \in Run /\ input' = fsrv.run + 1
      /\ UNCHANGED <<srv, proc, forks, ctl, st, trace, fate>>
  BY Fields, Bounds DEF IInv, At, WriteTestcase
<1>2. /\ Fuzz("request", fsrv.back, fsrv.run + 1, fsrv.starts,
              fsrv.child_pid, fsrv.last_run_timed_out,
              fsrv.stop_soon, fsrv.result)
      /\ fsrv' \in FsrvT
  BY <1>1, Zenon DEF IInv, TypeOK, WriteTestcase, Fuzz, FsrvT, FuzzerPc
<1>3. /\ srv.pc = "idle" /\ st = << >> /\ ctl = << >>
      /\ forks # 0 => State(forks) \notin {"begin", "run"}
  BY <1>1 DEF IInv, StopInv, LinkInv, FateInv, Open, Dead
<1>4. \A r \in Run : r > fsrv.run => fate[r] = "none"
  BY  DEF IInv, FateInv, Future
<1>5. fate[fsrv.run + 1] = "none"
  BY <1>1, <1>4, Fields DEF IInv
<1>6. TypeOK'
  BY <1>1, <1>2, <1>3, <1>4, <1>5 DEF IInv, TypeOK, FsrvT
<1>7. LastInv'
  BY <1>1 DEF IInv, LastInv, State
<1>8. StopInv'
  BY <1>1, <1>2, <1>3, <1>4, <1>5 DEF IInv, StopInv, Dead, At, Fuzz
<1>9. LinkInv'
  BY <1>1, <1>2, <1>3, <1>4, <1>5, Words DEF IInv, LinkInv, Dead, At, PidWord,
     StatusWord, Fuzz
<1>10. ChildInv'
  BY <1>1, <1>2, <1>3, <1>4, <1>5, Fields DEF IInv, ChildInv, Dead, At, State,
     Alive, Asked, Fuzz
<1>11. Unset'
  BY <1>1, <1>2, <1>3, <1>4, <1>5, Fields, Bounds DEF IInv, FateInv, Unset,
     At, Asked, ChildInv, Fuzz
<1>12. Open'
  BY <1>1, <1>2, <1>3, <1>4, <1>5, Bounds DEF IInv, FateInv, Open, At, State,
     Fuzz
<1>13. Ended'
  BY <1>1, <1>2, <1>3, <1>4, <1>5, Bounds DEF IInv, FateInv, Ended, At, Dead,
     State, Asked, Fuzz
<1>14. Future'
  <2>1. \A r \in Run : r > fsrv.run + 1 => r > fsrv.run
    BY Fields, Bounds DEF IInv
  <2>. QED
    BY <1>1, <1>2, <1>4, <2>1 DEF Future, Fuzz
<1>15. TimerInv'
  BY <1>1, <1>2, <1>3, <1>4, <1>5 DEF IInv, TimerInv, At, Fuzz
<1>16. PendInv'
  BY <1>1, <1>2, <1>3, <1>4, <1>5 DEF IInv, PendInv, ChildInv, State,
     Killable, Fuzz
<1>17. TraceInv'
  BY <1>1, <1>2, <1>3, <1>4, <1>5, Bounds DEF IInv, TraceInv, Dead, At, State,
     Asked, TraceOwn, Fuzz
<1>18. AnswerInv'
  BY <1>1, <1>2, <1>3, <1>4, <1>5, Bounds DEF IInv, AnswerInv, At, State,
     Asked, Fuzz
<1>. QED
  BY <1>6, <1>7, <1>8, <1>9, <1>10, <1>11, <1>12, <1>13, <1>14, <1>15, <1>16,
     <1>17, <1>18 DEF IInv, FateInv

LEMMA RequestFails ==
  ASSUME IInv, Request, srv.pc = "dead"
  PROVE  IInv'
<1>1. /\ fsrv.pc = "request" /\ At = "request" /\ fsrv.stop_soon /\ trace' = {}
      /\ UNCHANGED <<srv, proc, forks, ctl, st, input, fate>>
  BY Fields DEF IInv, StopInv, Dead, At, Request
<1>2. RunFails
  BY  DEF Request
<1>3. /\ Fuzz("ready", fsrv.back, fsrv.run, fsrv.starts,
              fsrv.child_pid, fsrv.last_run_timed_out,
              fsrv.stop_soon, [run |-> fsrv.run, outcome |-> "ok"])
      /\ fsrv' \in FsrvT
  BY <1>1, <1>2, Zenon DEF IInv, TypeOK, RunFails, Fuzz, FsrvT, FuzzerPc,
     Outcome
<1>4. TypeOK'
  BY <1>1, <1>2, <1>3 DEF IInv, TypeOK, FsrvT
<1>5. LastInv'
  BY <1>1 DEF IInv, LastInv, State
<1>6. StopInv'
  BY <1>1, <1>2, <1>3 DEF IInv, StopInv, Dead, At, Fuzz
<1>7. LinkInv'
  BY <1>1, <1>2, <1>3, Words DEF IInv, LinkInv, Dead, At, PidWord, StatusWord,
     Fuzz
<1>8. ChildInv'
  BY <1>1, <1>2, <1>3, Fields DEF IInv, ChildInv, Dead, At, State, Alive,
     Asked, Fuzz
<1>9. Unset'
  BY <1>1, <1>2, <1>3 DEF IInv, FateInv, Unset, At, Asked, Fuzz
<1>10. Open'
  BY <1>1, <1>2, <1>3, Bounds DEF IInv, FateInv, Open, At, State, Fuzz
<1>11. Ended'
  BY <1>1, <1>2, <1>3, Bounds DEF IInv, FateInv, Ended, At, Dead, State,
     Asked, Fuzz
<1>12. Future'
  BY <1>1, <1>2, <1>3 DEF IInv, FateInv, Future, Fuzz
<1>13. TimerInv'
  BY <1>1, <1>2, <1>3 DEF IInv, TimerInv, At, Fuzz
<1>14. PendInv'
  BY <1>1, <1>2, <1>3 DEF IInv, PendInv, ChildInv, State, Killable, Fuzz
<1>15. TraceInv'
  BY <1>1, <1>2, <1>3, Bounds DEF IInv, TraceInv, Dead, At, State, Asked,
     TraceOwn, Fuzz
<1>16. AnswerInv'
  BY <1>1, <1>2, <1>3, Bounds DEF IInv, AnswerInv, At, State, Asked, Fuzz
<1>. QED
  BY <1>4, <1>5, <1>6, <1>7, <1>8, <1>9, <1>10, <1>11, <1>12, <1>13, <1>14,
     <1>15, <1>16 DEF IInv, FateInv

LEMMA RequestKeeps ==
  ASSUME IInv, Request, srv.pc # "dead"
  PROVE  IInv'
<1>1. /\ fsrv.pc = "request" /\ At = "request" /\ ~fsrv.stop_soon
      /\ srv.pc = "idle" /\ st = << >> /\ ctl = << >> /\ trace' = {}
      /\ UNCHANGED <<srv, proc, forks, st, input, fate>>
  BY Fields DEF IInv, StopInv, LinkInv, Dead, At, Request
<1>2. /\ Fuzz("pid", fsrv.back, fsrv.run, fsrv.starts,
              fsrv.child_pid, FALSE,
              fsrv.stop_soon, fsrv.result)
      /\ fsrv' \in FsrvT
  <2>1. fsrv' = [fsrv EXCEPT !.pc = "pid", !.last_run_timed_out = FALSE]
    BY Zenon DEF Request
  <2>. QED
    BY <2>1, Zenon DEF IInv, TypeOK, Fuzz, FsrvT, FuzzerPc
<1>3. /\ ctl' \in KillWords /\ ctl' # << >>
      /\ fsrv.last_run_timed_out => ctl' = <<Word("was_killed", TRUE)>>
  <2>1. PICK t \in BOOLEAN : t = fsrv.last_run_timed_out
    BY Zenon DEF IInv, TypeOK
  <2>2. ctl' = Append(ctl, Word("was_killed", t))
    BY <2>1, Zenon DEF Request
  <2>3. ctl' = <<Word("was_killed", t)>> /\ ctl' # << >>
    BY <1>1, <2>2, Words
  <2>. QED
    BY <2>1, <2>3, Zenon DEF KillWords
<1>4. TypeOK'
  BY <1>1, <1>2, <1>3 DEF IInv, TypeOK, FsrvT
<1>5. LastInv'
  BY <1>1 DEF IInv, LastInv, State
<1>6. StopInv'
  BY <1>1, <1>2, <1>3 DEF IInv, StopInv, Dead, At, Fuzz
<1>7. LinkInv'
  BY <1>1, <1>2, <1>3, Words DEF IInv, LinkInv, Dead, At, PidWord, StatusWord,
     Fuzz
<1>8. ChildInv'
  BY <1>1, <1>2, <1>3, Fields DEF IInv, ChildInv, Dead, At, State, Alive,
     Asked, Fuzz
<1>9. Unset'
  BY <1>1, <1>2, <1>3 DEF IInv, FateInv, Unset, At, Asked, Fuzz
<1>10. Open'
  BY <1>1, <1>2, <1>3, Bounds DEF IInv, FateInv, Open, At, State, Fuzz
<1>11. Ended'
  BY <1>1, <1>2, <1>3, Bounds DEF IInv, FateInv, Ended, At, Dead, State,
     Asked, Fuzz
<1>12. Future'
  BY <1>1, <1>2, <1>3 DEF IInv, FateInv, Future, Fuzz
<1>13. TimerInv'
  BY <1>1, <1>2, <1>3 DEF IInv, TimerInv, At, Fuzz
<1>14. PendInv'
  BY <1>1, <1>2, <1>3 DEF IInv, PendInv, ChildInv, State, Killable, Fuzz
<1>15. TraceInv'
  BY <1>1, <1>2, <1>3, Bounds DEF IInv, TraceInv, Dead, At, State, Asked,
     TraceOwn, Fuzz
<1>16. AnswerInv'
  BY <1>1, <1>2, <1>3, Bounds DEF IInv, AnswerInv, At, State, Asked, Fuzz
<1>. QED
  BY <1>4, <1>5, <1>6, <1>7, <1>8, <1>9, <1>10, <1>11, <1>12, <1>13, <1>14,
     <1>15, <1>16 DEF IInv, FateInv

LEMMA ReadFailsStopped ==
  ASSUME IInv, ReadFails, fsrv.stop_soon
  PROVE  IInv'
<1>1. /\ fsrv.pc \in {"pid", "wait", "drain"} /\ At = fsrv.pc
      /\ srv.pc = "dead" /\ st = << >>
      /\ UNCHANGED <<srv, proc, forks, ctl, st, input, trace, fate>>
  BY  DEF At, ReadFails
<1>2. /\ Fuzz("ready", fsrv.back, fsrv.run, fsrv.starts,
              fsrv.child_pid, fsrv.last_run_timed_out,
              fsrv.stop_soon, [run |-> fsrv.run, outcome |-> "ok"])
      /\ fsrv' \in FsrvT
  BY Zenon DEF IInv, TypeOK, ReadFails, RunFails, Outcome, Fuzz, FsrvT,
     FuzzerPc, NoPid
<1>3. TypeOK'
  BY <1>1, <1>2 DEF IInv, TypeOK, FsrvT
<1>4. LastInv'
  BY <1>1 DEF IInv, LastInv, State
<1>5. StopInv'
  BY <1>1, <1>2 DEF IInv, StopInv, Dead, At, Fuzz
<1>6. LinkInv'
  BY <1>1, <1>2, Words DEF IInv, LinkInv, Dead, At, PidWord, StatusWord, Fuzz
<1>7. ChildInv'
  BY <1>1, <1>2, Fields DEF IInv, ChildInv, Dead, At, State, Alive, Asked,
     Fuzz
<1>8. Unset'
  BY <1>1, <1>2 DEF IInv, FateInv, Unset, At, Asked, Fuzz
<1>9. Open'
  BY <1>1, <1>2, Bounds DEF IInv, FateInv, Open, At, State, Fuzz
<1>10. Ended'
  BY <1>1, <1>2, Bounds DEF IInv, FateInv, Ended, At, Dead, State, Asked, Fuzz
<1>11. Future'
  BY <1>1, <1>2 DEF IInv, FateInv, Future, Fuzz
<1>12. TimerInv'
  BY <1>1, <1>2 DEF IInv, TimerInv, At, Fuzz
<1>13. PendInv'
  BY <1>1, <1>2 DEF IInv, PendInv, ChildInv, State, Killable, Fuzz
<1>14. TraceInv'
  BY <1>1, <1>2, Bounds DEF IInv, TraceInv, Dead, At, State, Asked, TraceOwn,
     Fuzz
<1>15. AnswerInv'
  BY <1>1, <1>2, Bounds DEF IInv, AnswerInv, At, State, Asked, Fuzz
<1>. QED
  BY <1>3, <1>4, <1>5, <1>6, <1>7, <1>8, <1>9, <1>10, <1>11, <1>12, <1>13,
     <1>14, <1>15 DEF IInv, FateInv

LEMMA ReadFailsFatal ==
  ASSUME IInv, ReadFails, ~fsrv.stop_soon
  PROVE  IInv'
<1>1. /\ fsrv.pc \in {"pid", "wait", "drain"} /\ At = fsrv.pc
      /\ srv.pc = "dead" /\ st = << >>
      /\ UNCHANGED <<srv, proc, forks, ctl, st, input, trace, fate>>
  BY  DEF At, ReadFails
<1>2. /\ Fuzz("fatal", fsrv.back, fsrv.run, fsrv.starts,
              fsrv.child_pid, fsrv.last_run_timed_out,
              fsrv.stop_soon, fsrv.result)
      /\ fsrv' \in FsrvT
  BY Zenon DEF IInv, TypeOK, ReadFails, RunFails, Fuzz, FsrvT, FuzzerPc, NoPid
<1>3. TypeOK'
  BY <1>1, <1>2 DEF IInv, TypeOK, FsrvT
<1>4. LastInv'
  BY <1>1 DEF IInv, LastInv, State
<1>5. StopInv'
  BY <1>1, <1>2 DEF IInv, StopInv, Dead, At, Fuzz
<1>6. LinkInv'
  BY <1>1, <1>2, Words DEF IInv, LinkInv, Dead, At, PidWord, StatusWord, Fuzz
<1>7. ChildInv'
  BY <1>1, <1>2, Fields DEF IInv, ChildInv, Dead, At, State, Alive, Asked,
     Fuzz
<1>8. Unset'
  BY <1>1, <1>2 DEF IInv, FateInv, Unset, At, Asked, Fuzz
<1>9. Open'
  BY <1>1, <1>2, Bounds, Fields DEF IInv, FateInv, Open, At, State, ChildInv,
     Alive, Fuzz
<1>10. Ended'
  BY <1>1, <1>2, Bounds DEF IInv, FateInv, Ended, At, Dead, State, Asked, Fuzz
<1>11. Future'
  BY <1>1, <1>2 DEF IInv, FateInv, Future, Fuzz
<1>12. TimerInv'
  BY <1>1, <1>2 DEF IInv, TimerInv, At, Fuzz
<1>13. PendInv'
  BY <1>1, <1>2 DEF IInv, PendInv, ChildInv, State, Killable, Fuzz
<1>14. TraceInv'
  BY <1>1, <1>2, Bounds DEF IInv, TraceInv, Dead, At, State, Asked, TraceOwn,
     Fuzz
<1>15. AnswerInv'
  BY <1>1, <1>2, Bounds DEF IInv, AnswerInv, At, State, Asked, Fuzz
<1>. QED
  BY <1>3, <1>4, <1>5, <1>6, <1>7, <1>8, <1>9, <1>10, <1>11, <1>12, <1>13,
     <1>14, <1>15 DEF IInv, FateInv

LEMMA ReadPidKeeps ==
  ASSUME IInv, ReadPid
  PROVE  IInv'
<1>1. /\ fsrv.pc = "pid" /\ At = "pid" /\ ctl = << >>
      /\ \/ srv.pc \in {"wait", "report", "dead"} /\ st = <<PidWord>>
         \/ srv.pc \in {"idle", "dead"} /\ st = <<PidWord, StatusWord>>
  BY  DEF IInv, LinkInv, At, ReadPid
<1>2. /\ \/ srv.pc \in {"wait", "report", "dead"} /\ st' = << >>
         \/ srv.pc \in {"idle", "dead"} /\ st' = <<StatusWord>>
      /\ Head(st).val = forks
      /\ UNCHANGED <<srv, proc, forks, ctl, input, trace, fate>>
  <2>1. PidWord.val = forks
    BY Words DEF PidWord
  <2>2. CASE st = <<PidWord>>
    BY <1>1, <2>1, <2>2, Words DEF ReadPid
  <2>3. CASE st = <<PidWord, StatusWord>>
    BY <1>1, <2>1, <2>3, Words DEF ReadPid
  <2>. QED
    BY <1>1, <2>2, <2>3
<1>3. /\ Fuzz("wait", fsrv.back, fsrv.run, fsrv.starts,
              forks, fsrv.last_run_timed_out,
              fsrv.stop_soon, fsrv.result)
      /\ fsrv' \in FsrvT
  BY <1>2, Zenon DEF IInv, TypeOK, ReadPid, Fuzz, FsrvT, FuzzerPc, NoPid
<1>4. TypeOK'
  BY <1>1, <1>2, <1>3 DEF IInv, TypeOK, FsrvT
<1>5. LastInv'
  BY <1>2 DEF IInv, LastInv, State
<1>6. StopInv'
  BY <1>1, <1>2, <1>3 DEF IInv, StopInv, Dead, At, Fuzz
<1>7. LinkInv'
  BY <1>1, <1>2, <1>3, Words DEF IInv, LinkInv, Dead, At, PidWord, StatusWord,
     Fuzz
<1>8. ChildInv'
  BY <1>1, <1>2, <1>3, Fields DEF IInv, ChildInv, Dead, At, State, Alive,
     Asked, Fuzz
<1>9. Unset'
  BY <1>1, <1>2, <1>3 DEF IInv, FateInv, Unset, At, Asked, Fuzz
<1>10. Open'
  BY <1>1, <1>2, <1>3, Bounds DEF IInv, FateInv, Open, At, State, Fuzz
<1>11. Ended'
  BY <1>1, <1>2, <1>3, Bounds DEF IInv, FateInv, Ended, At, Dead, State,
     Asked, Fuzz
<1>12. Future'
  BY <1>1, <1>2, <1>3 DEF IInv, FateInv, Future, Fuzz
<1>13. TimerInv'
  BY <1>1, <1>2, <1>3 DEF IInv, TimerInv, At, Fuzz
<1>14. PendInv'
  BY <1>1, <1>2, <1>3 DEF IInv, PendInv, ChildInv, State, Killable, Fuzz
<1>15. TraceInv'
  BY <1>1, <1>2, <1>3, Bounds DEF IInv, TraceInv, Dead, At, State, Asked,
     TraceOwn, Fuzz
<1>16. AnswerInv'
  BY <1>1, <1>2, <1>3, Bounds DEF IInv, AnswerInv, At, State, Asked, Fuzz
<1>. QED
  BY <1>4, <1>5, <1>6, <1>7, <1>8, <1>9, <1>10, <1>11, <1>12, <1>13, <1>14,
     <1>15, <1>16 DEF IInv, FateInv

LEMMA StatusStopped ==
  ASSUME IInv, ReadStatus, fsrv.stop_soon
  PROVE  IInv'
<1>1. /\ fsrv.pc = "wait" /\ At = "wait" /\ srv.pc = "dead"
      /\ UNCHANGED <<srv, proc, forks, ctl, st, input, trace, fate>>
  BY  DEF IInv, StopInv, Dead, At, ReadStatus
<1>2. RunFails
  BY  DEF ReadStatus
<1>3. /\ Fuzz("ready", fsrv.back, fsrv.run, fsrv.starts,
              fsrv.child_pid, fsrv.last_run_timed_out,
              fsrv.stop_soon, [run |-> fsrv.run, outcome |-> "ok"])
      /\ fsrv' \in FsrvT
  BY <1>1, <1>2, Zenon DEF IInv, TypeOK, RunFails, Fuzz, FsrvT, FuzzerPc,
     Outcome
<1>4. TypeOK'
  BY <1>1, <1>2, <1>3 DEF IInv, TypeOK, FsrvT
<1>5. LastInv'
  BY <1>1 DEF IInv, LastInv, State
<1>6. StopInv'
  BY <1>1, <1>2, <1>3 DEF IInv, StopInv, Dead, At, Fuzz
<1>7. LinkInv'
  BY <1>1, <1>2, <1>3, Words DEF IInv, LinkInv, Dead, At, PidWord, StatusWord,
     Fuzz
<1>8. ChildInv'
  BY <1>1, <1>2, <1>3, Fields DEF IInv, ChildInv, Dead, At, State, Alive,
     Asked, Fuzz
<1>9. Unset'
  BY <1>1, <1>2, <1>3 DEF IInv, FateInv, Unset, At, Asked, Fuzz
<1>10. Open'
  BY <1>1, <1>2, <1>3, Bounds DEF IInv, FateInv, Open, At, State, Fuzz
<1>11. Ended'
  BY <1>1, <1>2, <1>3, Bounds DEF IInv, FateInv, Ended, At, Dead, State,
     Asked, Fuzz
<1>12. Future'
  BY <1>1, <1>2, <1>3 DEF IInv, FateInv, Future, Fuzz
<1>13. TimerInv'
  BY <1>1, <1>2, <1>3 DEF IInv, TimerInv, At, Fuzz
<1>14. PendInv'
  BY <1>1, <1>2, <1>3 DEF IInv, PendInv, ChildInv, State, Killable, Fuzz
<1>15. TraceInv'
  BY <1>1, <1>2, <1>3, Bounds DEF IInv, TraceInv, Dead, At, State, Asked,
     TraceOwn, Fuzz
<1>16. AnswerInv'
  BY <1>1, <1>2, <1>3, Bounds DEF IInv, AnswerInv, At, State, Asked, Fuzz
<1>. QED
  BY <1>4, <1>5, <1>6, <1>7, <1>8, <1>9, <1>10, <1>11, <1>12, <1>13, <1>14,
     <1>15, <1>16 DEF IInv, FateInv

LEMMA StatusReturns ==
  ASSUME IInv, ReadStatus, ~fsrv.stop_soon
  PROVE  IInv'
<1>1. /\ fsrv.pc = "wait" /\ At = "wait" /\ srv.pc = "idle"
      /\ st = <<StatusWord>> /\ ctl = << >>
  BY  DEF IInv, StopInv, LinkInv, Dead, At, ReadStatus
<1>2. /\ st' = << >> /\ Returns(srv.status)
      /\ UNCHANGED <<srv, proc, forks, ctl, input, trace, fate>>
  BY <1>1, Words DEF ReadStatus, StatusWord
<1>3. PICK c, o :
         /\ Fuzz("ready", fsrv.back, fsrv.run, fsrv.starts,
                  c, fsrv.last_run_timed_out,
                  fsrv.stop_soon, o)
          /\ fsrv' \in FsrvT
          /\ o.outcome = run_result(srv.status, fsrv.last_run_timed_out)
  <2>1. fsrv.run \in {0} \cup Run /\ fsrv.child_pid \in {NoPid} \cup Pid
    BY DEF IInv, TypeOK
  <2>2. run_result(srv.status, fsrv.last_run_timed_out) \in Outcome
    BY DEF run_result, Outcome
  <2>3. PICK o : o = [run |-> fsrv.run,
                      outcome |-> run_result(srv.status, fsrv.last_run_timed_out)]
    BY Zenon
  <2>4. o.outcome = run_result(srv.status, fsrv.last_run_timed_out)
        /\ o \in [run : {0} \cup Run, outcome : Outcome]
    BY <2>1, <2>2, <2>3
  <2>5. PICK c \in {NoPid} \cup Pid :
             fsrv' = [fsrv EXCEPT !.pc = "ready", !.child_pid = c, !.result = o]
    BY <1>2, <2>1, <2>3, Zenon DEF Returns
  <2>. QED
    BY <2>4, <2>5, Zenon DEF IInv, TypeOK, Fuzz, FsrvT, FuzzerPc
<1>4. TypeOK'
  BY <1>1, <1>2, <1>3 DEF IInv, TypeOK, FsrvT
<1>5. LastInv'
  BY <1>2 DEF IInv, LastInv, State
<1>6. StopInv'
  BY <1>1, <1>2, <1>3 DEF IInv, StopInv, Dead, At, Fuzz
<1>7. LinkInv'
  BY <1>1, <1>2, <1>3, Words DEF IInv, LinkInv, Dead, At, PidWord, StatusWord,
     Fuzz
<1>8. ChildInv'
  BY <1>1, <1>2, <1>3, Fields DEF IInv, ChildInv, Dead, At, State, Alive,
     Asked, Fuzz
<1>9. Unset'
  BY <1>1, <1>2, <1>3 DEF IInv, FateInv, Unset, At, Asked, Fuzz
<1>10. Open'
  BY <1>1, <1>2, <1>3, Bounds DEF IInv, FateInv, Open, At, State, ChildInv,
     Fuzz
<1>11. Ended'
  BY <1>1, <1>2, <1>3, Bounds DEF IInv, FateInv, Ended, At, Dead, State,
     Asked, Fuzz
<1>12. Future'
  BY <1>1, <1>2, <1>3 DEF IInv, FateInv, Future, Fuzz
<1>13. TimerInv'
  BY <1>1, <1>2, <1>3 DEF IInv, TimerInv, At, Fuzz
<1>14. PendInv'
  BY <1>1, <1>2, <1>3 DEF IInv, PendInv, ChildInv, State, Killable, Fuzz
<1>15. TraceInv'
  BY <1>1, <1>2, <1>3, Bounds DEF IInv, TraceInv, Dead, At, State, Asked,
     TraceOwn, ChildInv, Fuzz
<1>16. AnswerInv'
  BY <1>1, <1>2, <1>3, Bounds DEF IInv, AnswerInv, At, State, Asked, Fuzz
<1>. QED
  BY <1>4, <1>5, <1>6, <1>7, <1>8, <1>9, <1>10, <1>11, <1>12, <1>13, <1>14,
     <1>15, <1>16 DEF IInv, FateInv

LEMMA DrainKeeps ==
  ASSUME IInv, Drain
  PROVE  IInv'
<1>1. /\ fsrv.pc = "drain" /\ At = "drain" /\ srv.pc \in {"idle", "dead"}
      /\ st = <<StatusWord>> /\ ctl = << >>
      /\ srv.pc = "dead" => fsrv.stop_soon
  BY  DEF IInv, StopInv, LinkInv, Dead, At, Drain
<1>2. /\ st' = << >> /\ Returns(srv.status)
      /\ UNCHANGED <<srv, proc, forks, ctl, input, trace, fate>>
  BY <1>1, Words DEF Drain, StatusWord
<1>3. PICK c, o :
         /\ Fuzz("ready", fsrv.back, fsrv.run, fsrv.starts,
                  c, fsrv.last_run_timed_out,
                  fsrv.stop_soon, o)
          /\ fsrv' \in FsrvT
          /\ o.outcome = run_result(srv.status, fsrv.last_run_timed_out)
  <2>1. fsrv.run \in {0} \cup Run /\ fsrv.child_pid \in {NoPid} \cup Pid
    BY DEF IInv, TypeOK
  <2>2. run_result(srv.status, fsrv.last_run_timed_out) \in Outcome
    BY DEF run_result, Outcome
  <2>3. PICK o : o = [run |-> fsrv.run,
                      outcome |-> run_result(srv.status, fsrv.last_run_timed_out)]
    BY Zenon
  <2>4. o.outcome = run_result(srv.status, fsrv.last_run_timed_out)
        /\ o \in [run : {0} \cup Run, outcome : Outcome]
    BY <2>1, <2>2, <2>3
  <2>5. PICK c \in {NoPid} \cup Pid :
             fsrv' = [fsrv EXCEPT !.pc = "ready", !.child_pid = c, !.result = o]
    BY <1>2, <2>1, <2>3, Zenon DEF Returns
  <2>. QED
    BY <2>4, <2>5, Zenon DEF IInv, TypeOK, Fuzz, FsrvT, FuzzerPc
<1>4. TypeOK'
  BY <1>1, <1>2, <1>3 DEF IInv, TypeOK, FsrvT
<1>5. LastInv'
  BY <1>2 DEF IInv, LastInv, State
<1>6. StopInv'
  BY <1>1, <1>2, <1>3 DEF IInv, StopInv, Dead, At, Fuzz
<1>7. LinkInv'
  BY <1>1, <1>2, <1>3, Words DEF IInv, LinkInv, Dead, At, PidWord, StatusWord,
     Fuzz
<1>8. ChildInv'
  BY <1>1, <1>2, <1>3, Fields DEF IInv, ChildInv, Dead, At, State, Alive,
     Asked, Fuzz
<1>9. Unset'
  BY <1>1, <1>2, <1>3 DEF IInv, FateInv, Unset, At, Asked, Fuzz
<1>10. Open'
  BY <1>1, <1>2, <1>3, Bounds DEF IInv, FateInv, Open, At, State, ChildInv,
     Fuzz
<1>11. Ended'
  BY <1>1, <1>2, <1>3, Bounds DEF IInv, FateInv, Ended, At, Dead, State,
     Asked, Fuzz
<1>12. Future'
  BY <1>1, <1>2, <1>3 DEF IInv, FateInv, Future, Fuzz
<1>13. TimerInv'
  BY <1>1, <1>2, <1>3 DEF IInv, TimerInv, At, Fuzz
<1>14. PendInv'
  BY <1>1, <1>2, <1>3 DEF IInv, PendInv, ChildInv, State, Killable, Fuzz
<1>15. TraceInv'
  BY <1>1, <1>2, <1>3, Bounds DEF IInv, TraceInv, Dead, At, State, Asked,
     TraceOwn, TimerInv, run_result, Fuzz
<1>16. AnswerInv'
  BY <1>1, <1>2, <1>3, Bounds DEF IInv, AnswerInv, At, State, Asked, Fuzz
<1>. QED
  BY <1>4, <1>5, <1>6, <1>7, <1>8, <1>9, <1>10, <1>11, <1>12, <1>13, <1>14,
     <1>15, <1>16 DEF IInv, FateInv

LEMMA TimeoutKeeps ==
  ASSUME IInv, Timeout
  PROVE  IInv'
<1>1. /\ Fuzz("drain", fsrv.back, fsrv.run, fsrv.starts,
              NoPid, TRUE,
              fsrv.stop_soon, fsrv.result)
      /\ fsrv' \in FsrvT
  BY Zenon DEF IInv, TypeOK, Timeout, Fuzz, FsrvT, FuzzerPc, NoPid
<1>2. Marked /\ proc' \in [Pid -> Child]
  BY Kills DEF IInv, Timeout
<1>3. /\ fsrv.pc = "wait" /\ At = "wait" /\ st = << >> /\ srv.pc # "dead"
      /\ ~fsrv.stop_soon
      /\ UNCHANGED <<srv, forks, ctl, st, input, trace, fate>>
  BY  DEF IInv, StopInv, Dead, At, Timeout
<1>4. TypeOK'
  BY <1>1, <1>2, <1>3 DEF IInv, TypeOK, FsrvT
<1>5. StopInv'
  BY <1>1, <1>3 DEF IInv, StopInv, Dead, At, Fuzz
<1>6. LinkInv'
  BY <1>1, <1>3, Words DEF IInv, LinkInv, Dead, At, PidWord, StatusWord, Fuzz
<1>7. LastInv'
  BY <1>2, <1>3 DEF IInv, LastInv, State, Marked
<1>8. ChildInv'
  BY <1>1, <1>2, <1>3, Fields, Bounds DEF IInv, ChildInv, Dead, At, State,
     Alive, Asked, Fuzz, Marked
<1>9. Unset'
  BY <1>1, <1>3 DEF IInv, FateInv, Unset, At, Asked, Fuzz
<1>10. Open'
  BY <1>1, <1>2, <1>3, Bounds, Fields DEF IInv, FateInv, Open, At, State,
     Fuzz, Marked
<1>11. Ended'
  BY <1>1, <1>2, <1>3, Bounds, Fields DEF IInv, FateInv, Ended, At, Dead,
     State, Asked, ChildInv, Fuzz, Marked
<1>12. Future'
  BY <1>1, <1>3 DEF IInv, FateInv, Future, Fuzz
<1>13. TimerInv'
  BY <1>1, <1>3 DEF IInv, TimerInv, At, Fuzz
<1>14. PendInv'
  BY <1>1, <1>2, <1>3 DEF IInv, PendInv, ChildInv, State, Killable, Fuzz,
     Marked
<1>15. TraceInv'
  BY <1>1, <1>2, <1>3, Bounds, Fields DEF IInv, TraceInv, Dead, At, State,
     Asked, TraceOwn, ChildInv, Fuzz, Marked
<1>16. AnswerInv'
  BY <1>1, <1>2, <1>3, Bounds DEF IInv, AnswerInv, At, State, Asked, Fuzz,
     Marked
<1>. QED
  BY <1>4, <1>5, <1>6, <1>7, <1>8, <1>9, <1>10, <1>11, <1>12, <1>13, <1>14,
     <1>15, <1>16 DEF IInv, FateInv

LEMMA HandlerKeeps ==
  ASSUME IInv, HandlerReturns
  PROVE  IInv'
<1>1. /\ fsrv.pc = "handler" /\ fsrv.stop_soon /\ srv.pc = "dead"
      /\ At = fsrv.back /\ fsrv.back # "handler"
      /\ UNCHANGED <<srv, proc, forks, ctl, st, input, trace, fate>>
  BY  DEF IInv, StopInv, At, HandlerReturns
<1>2. /\ Fuzz(fsrv.back, fsrv.back, fsrv.run, fsrv.starts,
              fsrv.child_pid, fsrv.last_run_timed_out,
              fsrv.stop_soon, fsrv.result)
      /\ fsrv' \in FsrvT
  BY Zenon DEF IInv, TypeOK, HandlerReturns, Goto, Fuzz, FsrvT, FuzzerPc,
     NoPid
<1>3. TypeOK'
  BY <1>1, <1>2 DEF IInv, TypeOK, FsrvT
<1>4. LastInv'
  BY <1>1 DEF IInv, LastInv, State
<1>5. StopInv'
  BY <1>1, <1>2 DEF IInv, StopInv, Dead, At, Fuzz
<1>6. LinkInv'
  BY <1>1, <1>2, Words DEF IInv, LinkInv, Dead, At, PidWord, StatusWord, Fuzz
<1>7. ChildInv'
  BY <1>1, <1>2, Fields DEF IInv, ChildInv, Dead, At, State, Alive, Asked,
     Fuzz
<1>8. Unset'
  BY <1>1, <1>2 DEF IInv, FateInv, Unset, At, Asked, Fuzz
<1>9. Open'
  BY <1>1, <1>2, Bounds DEF IInv, FateInv, Open, At, State, Fuzz
<1>10. Ended'
  BY <1>1, <1>2, Bounds DEF IInv, FateInv, Ended, At, Dead, State, Asked, Fuzz
<1>11. Future'
  BY <1>1, <1>2 DEF IInv, FateInv, Future, Fuzz
<1>12. TimerInv'
  BY <1>1, <1>2 DEF IInv, TimerInv, At, Fuzz
<1>13. PendInv'
  BY <1>1, <1>2 DEF IInv, PendInv, ChildInv, State, Killable, Fuzz
<1>14. TraceInv'
  BY <1>1, <1>2, Bounds DEF IInv, TraceInv, Dead, At, State, Asked, TraceOwn,
     Fuzz
<1>15. AnswerInv'
  BY <1>1, <1>2, Bounds DEF IInv, AnswerInv, At, State, Asked, Fuzz
<1>. QED
  BY <1>3, <1>4, <1>5, <1>6, <1>7, <1>8, <1>9, <1>10, <1>11, <1>12, <1>13,
     <1>14, <1>15 DEF IInv, FateInv

LEMMA RestartKilled ==
  ASSUME IInv, afl_fsrv_kill, fsrv.pc = "remap"
  PROVE  IInv'
<1>1. /\ Fuzz("restart", fsrv.back, fsrv.run, fsrv.starts,
              fsrv.child_pid, fsrv.last_run_timed_out,
              fsrv.stop_soon, fsrv.result)
      /\ fsrv' \in FsrvT
  BY ZenonT(40) DEF IInv, TypeOK, afl_fsrv_kill, Fuzz, FsrvT, FuzzerPc, NoPid
<1>2. /\ Serve(srv.pc, TRUE, srv.child_pid, srv.child_stopped, srv.status)
      /\ srv' \in SrvT
  BY Zenon DEF IInv, TypeOK, afl_fsrv_kill, KillBoth, Serve, SrvT, ServerPc,
     NoPid
<1>3. Marked /\ proc' \in [Pid -> Child]
  BY Kills DEF IInv, afl_fsrv_kill, KillBoth
<1>4. At = "remap" /\ UNCHANGED <<forks, ctl, st, input, trace, fate>>
  BY  DEF At, afl_fsrv_kill
<1>5. TypeOK'
  BY <1>1, <1>2, <1>3, <1>4 DEF IInv, TypeOK, FsrvT, SrvT
<1>6. StopInv'
  BY <1>1, <1>2, <1>4 DEF IInv, StopInv, Dead, At, Fuzz, Serve
<1>7. LinkInv'
  BY <1>1, <1>2, <1>4, Words DEF IInv, LinkInv, Dead, At, PidWord, StatusWord,
     Fuzz, Serve
<1>8. LastInv'
  BY <1>3, <1>4 DEF IInv, LastInv, State, Marked
<1>9. ChildInv'
  BY <1>1, <1>2, <1>3, <1>4, Fields DEF IInv, ChildInv, Dead, At, State,
     Alive, Asked, Fuzz, Serve, Marked
<1>10. Unset'
  BY <1>1, <1>2, <1>4 DEF IInv, FateInv, Unset, At, Asked, Fuzz, Serve
<1>11. Open'
  BY <1>1, <1>2, <1>3, <1>4, Bounds, Fields DEF IInv, FateInv, Open, At,
     State, Fuzz, Marked
<1>12. Ended'
  BY <1>1, <1>2, <1>3, <1>4, Bounds DEF IInv, FateInv, Ended, At, Dead, State,
     Asked, Fuzz, Serve, Marked
<1>13. Future'
  BY <1>1, <1>4 DEF IInv, FateInv, Future, Fuzz
<1>14. TimerInv'
  BY <1>1, <1>4 DEF IInv, TimerInv, At, Fuzz
<1>15. PendInv'
  BY <1>1, <1>2, <1>3, <1>4 DEF IInv, PendInv, ChildInv, State, Killable,
     Fuzz, Serve, Marked
<1>16. TraceInv'
  BY <1>1, <1>2, <1>3, <1>4, Bounds DEF IInv, TraceInv, Dead, At, State,
     Asked, TraceOwn, Fuzz, Serve, Marked
<1>17. AnswerInv'
  BY <1>1, <1>2, <1>3, <1>4, Bounds DEF IInv, AnswerInv, At, State, Asked,
     Fuzz, Serve, Marked
<1>. QED
  BY <1>5, <1>6, <1>7, <1>8, <1>9, <1>10, <1>11, <1>12, <1>13, <1>14, <1>15,
     <1>16, <1>17 DEF IInv, FateInv

LEMMA SessionKilled ==
  ASSUME IInv, afl_fsrv_kill, fsrv.pc # "remap"
  PROVE  IInv'
<1>1. /\ Fuzz("killing", fsrv.back, fsrv.run, fsrv.starts,
              fsrv.child_pid, fsrv.last_run_timed_out,
              fsrv.stop_soon, fsrv.result)
      /\ fsrv' \in FsrvT
  BY ZenonT(40) DEF IInv, TypeOK, afl_fsrv_kill, Fuzz, FsrvT, FuzzerPc, NoPid
<1>2. /\ Serve(srv.pc, TRUE, srv.child_pid, srv.child_stopped, srv.status)
      /\ srv' \in SrvT
  BY Zenon DEF IInv, TypeOK, afl_fsrv_kill, KillBoth, Serve, SrvT, ServerPc,
     NoPid
<1>3. Marked /\ proc' \in [Pid -> Child]
  BY Kills DEF IInv, afl_fsrv_kill, KillBoth
<1>4. fsrv.pc = "ready" /\ At = "ready" /\ UNCHANGED <<forks, ctl, st, input, trace, fate>>
  BY  DEF At, afl_fsrv_kill
<1>5. TypeOK'
  BY <1>1, <1>2, <1>3, <1>4 DEF IInv, TypeOK, FsrvT, SrvT
<1>6. StopInv'
  BY <1>1, <1>2, <1>4 DEF IInv, StopInv, Dead, At, Fuzz, Serve
<1>7. LinkInv'
  BY <1>1, <1>2, <1>4, Words DEF IInv, LinkInv, Dead, At, PidWord, StatusWord,
     Fuzz, Serve
<1>8. LastInv'
  BY <1>3, <1>4 DEF IInv, LastInv, State, Marked
<1>9. ChildInv'
  BY <1>1, <1>2, <1>3, <1>4, Fields, Bounds DEF IInv, ChildInv, Dead, At,
     State, Alive, Asked, Fuzz, Serve, Marked
<1>10. Unset'
  BY <1>1, <1>2, <1>4 DEF IInv, FateInv, Unset, At, Asked, Fuzz, Serve
<1>11. Open'
  BY <1>1, <1>2, <1>3, <1>4, Bounds, Fields DEF IInv, FateInv, Open, At,
     State, Fuzz, Marked
<1>12. Ended'
  BY <1>1, <1>2, <1>3, <1>4, Bounds DEF IInv, FateInv, Ended, At, Dead, State,
     Asked, Fuzz, Serve, Marked
<1>13. Future'
  BY <1>1, <1>4 DEF IInv, FateInv, Future, Fuzz
<1>14. TimerInv'
  BY <1>1, <1>4 DEF IInv, TimerInv, At, Fuzz
<1>15. PendInv'
  BY <1>1, <1>2, <1>3, <1>4 DEF IInv, PendInv, ChildInv, State, Killable,
     Fuzz, Serve, Marked
<1>16. TraceInv'
  BY <1>1, <1>2, <1>3, <1>4, Bounds DEF IInv, TraceInv, Dead, At, State,
     Asked, TraceOwn, Fuzz, Serve, Marked
<1>17. AnswerInv'
  BY <1>1, <1>2, <1>3, <1>4, Bounds DEF IInv, AnswerInv, At, State, Asked,
     Fuzz, Serve, Marked
<1>. QED
  BY <1>5, <1>6, <1>7, <1>8, <1>9, <1>10, <1>11, <1>12, <1>13, <1>14, <1>15,
     <1>16, <1>17 DEF IInv, FateInv

LEMMA SessionEndsKeeps ==
  ASSUME IInv, SessionEnds
  PROVE  IInv'
<1>1. /\ Fuzz("over", fsrv.back, fsrv.run, fsrv.starts,
              NoPid, fsrv.last_run_timed_out,
              fsrv.stop_soon, fsrv.result)
      /\ fsrv' \in FsrvT
  BY Zenon DEF IInv, TypeOK, SessionEnds, Fuzz, FsrvT, FuzzerPc, NoPid
<1>2. /\ fsrv.pc = "killing" /\ At = "killing" /\ srv.pc = "dead"
      /\ UNCHANGED <<srv, proc, forks, ctl, st, input, trace, fate>>
  BY  DEF At, SessionEnds
<1>3. TypeOK'
  BY <1>1, <1>2 DEF IInv, TypeOK, FsrvT
<1>4. LastInv'
  BY <1>2 DEF IInv, LastInv, State
<1>5. StopInv'
  BY <1>1, <1>2 DEF IInv, StopInv, Dead, At, Fuzz
<1>6. LinkInv'
  BY <1>1, <1>2, Words DEF IInv, LinkInv, Dead, At, PidWord, StatusWord, Fuzz
<1>7. ChildInv'
  BY <1>1, <1>2, Fields DEF IInv, ChildInv, Dead, At, State, Alive, Asked,
     Fuzz
<1>8. Unset'
  BY <1>1, <1>2 DEF IInv, FateInv, Unset, At, Asked, Fuzz
<1>9. Open'
  BY <1>1, <1>2, Bounds DEF IInv, FateInv, Open, At, State, Fuzz
<1>10. Ended'
  BY <1>1, <1>2, Bounds DEF IInv, FateInv, Ended, At, Dead, State, Asked, Fuzz
<1>11. Future'
  BY <1>1, <1>2 DEF IInv, FateInv, Future, Fuzz
<1>12. TimerInv'
  BY <1>1, <1>2 DEF IInv, TimerInv, At, Fuzz
<1>13. PendInv'
  BY <1>1, <1>2 DEF IInv, PendInv, ChildInv, State, Killable, Fuzz
<1>14. TraceInv'
  BY <1>1, <1>2, Bounds DEF IInv, TraceInv, Dead, At, State, Asked, TraceOwn,
     Fuzz
<1>15. AnswerInv'
  BY <1>1, <1>2, Bounds DEF IInv, AnswerInv, At, State, Asked, Fuzz
<1>. QED
  BY <1>3, <1>4, <1>5, <1>6, <1>7, <1>8, <1>9, <1>10, <1>11, <1>12, <1>13,
     <1>14, <1>15 DEF IInv, FateInv

LEMMA RestartKeeps ==
  ASSUME IInv, Restart
  PROVE  IInv'
<1>1. /\ Fuzz("hello", fsrv.back, fsrv.run, 2,
              NoPid, fsrv.last_run_timed_out,
              fsrv.stop_soon, fsrv.result)
      /\ fsrv' \in FsrvT
  <2>1. 2 \in 1 .. 2
    OBVIOUS
  <2>. QED
    BY <2>1, Zenon DEF IInv, TypeOK, Restart, Fuzz, FsrvT, FuzzerPc
<1>2. /\ Serve("boot", FALSE, NoPid, FALSE, NoStatus)
      /\ srv' \in SrvT
  BY Bounds, Zenon DEF Restart, ServerUp, Serve, SrvT, ServerPc, NoPid
<1>3. /\ fsrv.pc = "restart" /\ At = "restart" /\ fsrv.run = 0 /\ forks = 0
      /\ st' = << >> /\ ctl' = << >>
      /\ UNCHANGED <<proc, forks, input, trace, fate>>
  BY Fields DEF IInv, ChildInv, At, Restart
<1>4. TypeOK'
  BY <1>1, <1>2, <1>3 DEF IInv, TypeOK, FsrvT, SrvT
<1>5. LastInv'
  BY <1>3 DEF IInv, LastInv, State
<1>6. StopInv'
  BY <1>1, <1>2, <1>3 DEF IInv, StopInv, Dead, At, Fuzz, Serve
<1>7. LinkInv'
  BY <1>1, <1>2, <1>3, Words DEF IInv, LinkInv, Dead, At, PidWord, StatusWord,
     Fuzz, Serve
<1>8. ChildInv'
  BY <1>1, <1>2, <1>3, Fields, Bounds DEF IInv, ChildInv, Dead, At, State,
     Alive, Asked, Fuzz, Serve
<1>9. Unset'
  BY <1>1, <1>2, <1>3 DEF IInv, FateInv, Unset, At, Asked, Fuzz, Serve
<1>10. Open'
  BY <1>1, <1>3, Bounds DEF IInv, FateInv, Open, At, State, Fuzz
<1>11. Ended'
  BY <1>1, <1>2, <1>3, Bounds DEF IInv, FateInv, Ended, At, Dead, State,
     Asked, Fuzz, Serve
<1>12. Future'
  BY <1>1, <1>3 DEF IInv, FateInv, Future, Fuzz
<1>13. TimerInv'
  BY <1>1, <1>3 DEF IInv, TimerInv, At, Fuzz
<1>14. PendInv'
  BY <1>1, <1>2, <1>3 DEF IInv, PendInv, ChildInv, State, Killable, Fuzz,
     Serve
<1>15. TraceInv'
  BY <1>1, <1>2, <1>3, Bounds DEF IInv, TraceInv, Dead, At, State, Asked,
     TraceOwn, Fuzz, Serve
<1>16. AnswerInv'
  BY <1>1, <1>2, <1>3, Bounds DEF IInv, AnswerInv, At, State, Asked, Fuzz,
     Serve
<1>. QED
  BY <1>4, <1>5, <1>6, <1>7, <1>8, <1>9, <1>10, <1>11, <1>12, <1>13, <1>14,
     <1>15, <1>16 DEF IInv, FateInv

LEMMA StopKeeps ==
  ASSUME IInv, StopSignal
  PROVE  IInv'
<1>1. /\ Fuzz("handler", fsrv.pc, fsrv.run, fsrv.starts,
              fsrv.child_pid, fsrv.last_run_timed_out,
              TRUE, fsrv.result)
      /\ fsrv' \in FsrvT
  BY Zenon DEF IInv, TypeOK, StopSignal, Fuzz, FsrvT, FuzzerPc, NoPid
<1>2. /\ Serve(srv.pc, TRUE, srv.child_pid, srv.child_stopped, srv.status)
      /\ srv' \in SrvT
  BY Zenon DEF IInv, TypeOK, StopSignal, KillBoth, Serve, SrvT, ServerPc,
     NoPid
<1>3. Marked /\ proc' \in [Pid -> Child]
  BY Kills DEF IInv, StopSignal, KillBoth
<1>4. /\ fsrv.pc \notin {"handler", "killing", "restart", "over", "fatal"}
      /\ At = fsrv.pc
      /\ UNCHANGED <<forks, ctl, st, input, trace, fate>>
  BY  DEF At, StopSignal, Working
<1>5. TypeOK'
  BY <1>1, <1>2, <1>3, <1>4 DEF IInv, TypeOK, FsrvT, SrvT
<1>6. StopInv'
  BY <1>1, <1>2, <1>4 DEF IInv, StopInv, Dead, At, Fuzz, Serve
<1>7. LinkInv'
  BY <1>1, <1>2, <1>4, Words DEF IInv, LinkInv, Dead, At, PidWord, StatusWord,
     Fuzz, Serve
<1>8. LastInv'
  BY <1>3, <1>4 DEF IInv, LastInv, State, Marked
<1>9. ChildInv'
  BY <1>1, <1>2, <1>3, <1>4, Fields, Bounds DEF IInv, ChildInv, Dead, At,
     State, Alive, Asked, Fuzz, Serve, Marked
<1>10. Unset'
  BY <1>1, <1>2, <1>4 DEF IInv, FateInv, Unset, At, Asked, Fuzz, Serve
<1>11. Open'
  BY <1>1, <1>2, <1>3, <1>4, Bounds, Fields DEF IInv, FateInv, Open, At,
     State, Fuzz, Marked
<1>12. Ended'
  BY <1>1, <1>2, <1>3, <1>4, Bounds DEF IInv, FateInv, Ended, At, Dead, State,
     Asked, Fuzz, Serve, Marked
<1>13. Future'
  BY <1>1, <1>4 DEF IInv, FateInv, Future, Fuzz
<1>14. TimerInv'
  BY <1>1, <1>4 DEF IInv, TimerInv, At, Fuzz
<1>15. PendInv'
  BY <1>1, <1>2, <1>3, <1>4 DEF IInv, PendInv, ChildInv, State, Killable,
     Fuzz, Serve, Marked
<1>16. TraceInv'
  BY <1>1, <1>2, <1>3, <1>4, Bounds DEF IInv, TraceInv, Dead, At, State,
     Asked, TraceOwn, Fuzz, Serve, Marked
<1>17. AnswerInv'
  BY <1>1, <1>2, <1>3, <1>4, Bounds DEF IInv, AnswerInv, At, State, Asked,
     Fuzz, Serve, Marked
<1>. QED
  BY <1>5, <1>6, <1>7, <1>8, <1>9, <1>10, <1>11, <1>12, <1>13, <1>14, <1>15,
     <1>16, <1>17 DEF IInv, FateInv

-----------------------------------------------------------------------------
(***************************************************************************)
(* The invariant holds.                                                    *)
(***************************************************************************)

LEMMA InitInv == Init => IInv
<1>. SUFFICES ASSUME Init PROVE IInv
  OBVIOUS
<1>1. /\ fsrv \in FsrvT /\ fsrv.pc = "hello" /\ fsrv.run = 0
      /\ fsrv.stop_soon = FALSE
  <2>1. PICK m \in Targets, l \in Maps :
           fsrv = [pc |-> "hello", back |-> "hello", run |-> 0, starts |-> 1,
                   child_pid |-> NoPid, last_run_timed_out |-> FALSE,
                   stop_soon |-> FALSE, result |-> [run |-> 0, outcome |-> "ok"],
                   persistent_mode |-> m, larger_map |-> l]
    BY DEF Init
  <2>. QED
    BY <2>1 DEF FsrvT, FuzzerPc, Outcome, NoPid
<1>2. /\ srv \in SrvT /\ srv.pc = "boot" /\ srv.sig = FALSE
      /\ srv.child_pid = 0 /\ srv.child_stopped = FALSE
  BY Bounds DEF Init, ServerUp, SrvT, ServerPc, NoPid
<1>3. /\ proc \in [Pid -> Child]
      /\ \A p \in Pid : proc[p].state = "none"
  BY ForkserverAssumption, Bounds DEF Init, NoChild, Child
<1>4. /\ forks = 0 /\ ctl = << >> /\ st = << >> /\ input = 0 /\ trace = {}
      /\ fate \in [Run -> Fate] /\ \A r \in Run : fate[r] = "none"
  BY DEF Init, Fate
<1>5. TypeOK
  BY <1>1, <1>2, <1>3, <1>4 DEF TypeOK, FsrvT, SrvT
<1>6. At = "hello"
  BY <1>1 DEF At
<1>7. StopInv /\ LinkInv /\ TimerInv
  BY <1>1, <1>2, <1>4, <1>6 DEF StopInv, LinkInv, TimerInv, Dead
<1>8. LastInv /\ ChildInv
  BY <1>1, <1>2, <1>3, <1>4, <1>6, Bounds
     DEF LastInv, ChildInv, State, Alive, Dead
<1>9. FateInv
  BY <1>1, <1>4, <1>6 DEF FateInv, Unset, Open, Ended, Future
<1>10. PendInv /\ TraceInv /\ AnswerInv
  BY <1>1, <1>4 DEF PendInv, TraceInv, AnswerInv, TraceOwn
<1>. QED
  BY <1>5, <1>7, <1>8, <1>9, <1>10 DEF IInv

LEMMA ExitsKeep ==
  ASSUME IInv, NEW p \in Pid, ChildExits(p) \/ ChildCrashes(p)
  PROVE  IInv'
<1>1. CASE ChildExits(p)
  <2>1. PICK c \in {0} \cup CrashCodes :
           Ends(p, [how |-> "exited", code |-> c],
                IF c \in CrashCodes THEN "crash" ELSE "ok")
    BY <1>1 DEF ChildExits
  <2>2. PICK s : s = [how |-> "exited", code |-> c]
    OBVIOUS
  <2>3. PICK f \in {"ok", "crash"} : f = IF c \in CrashCodes THEN "crash" ELSE "ok"
    OBVIOUS
  <2>4. s \in Status /\ run_result(s, FALSE) = f
    BY <2>2, <2>3, Bounds, Results
  <2>5. Ends(p, s, f) /\ proc[p].state = "run"
    BY <1>1, <2>1, <2>2, <2>3 DEF ChildExits
  <2>. QED
    BY <2>4, <2>5, EndsKeeps
<1>2. CASE ChildCrashes(p)
  <2>1. PICK s : s = [how |-> "signaled", code |-> 11]
    OBVIOUS
  <2>2. s \in Status /\ run_result(s, FALSE) = "crash"
    BY <2>1, Bounds, Results
  <2>3. Ends(p, s, "crash") /\ proc[p].state = "run"
    BY <1>2, <2>1 DEF ChildCrashes
  <2>. QED
    BY <2>2, <2>3, EndsKeeps
<1>. QED
  BY <1>1, <1>2

LEMMA LoopsKeep ==
  ASSUME IInv, NEW p \in Pid, ChildLoops(p)
  PROVE  IInv'
<1>1. CASE CountDown(proc[p].left) # 0
  BY <1>1, LoopStopKeeps
<1>2. CASE CountDown(proc[p].left) = 0
  <2>1. PICK s : s = [how |-> "exited", code |-> 0]
    OBVIOUS
  <2>2. 0 \notin CrashCodes
    BY ForkserverAssumption
  <2>3. s \in Status /\ run_result(s, FALSE) = "ok"
    BY <2>1, <2>2, Bounds, Results
  <2>4. Ends(p, s, "ok") /\ proc[p].state = "run"
    BY <1>2, <2>1 DEF ChildLoops
  <2>. QED
    BY <2>3, <2>4, EndsKeeps
<1>. QED
  BY <1>1, <1>2

LEMMA NextInv == IInv /\ [Next]_vars => IInv'
<1>. SUFFICES ASSUME IInv, [Next]_vars PROVE IInv'
  OBVIOUS
<1>1. CASE Server
  <2>1. CASE ServerRead
    BY <2>1, ReadWritesOff, ReadGoesOn
  <2>2. CASE ServerContinues
    BY <2>2, ContinuesKeeps, ContinuesNothing
  <2>3. CASE ServerWaits
    BY <2>3, WaitsForEnd, WaitsForStop
  <2>. QED
    BY <1>1, <2>1, <2>2, <2>3, HelloKeeps, OptionsKeeps, ReapsKeeps, ForksKeeps,
       CannotForkKeeps, TellsPidKeeps, ReportsKeeps DEF Server
<1>2. CASE at_exit
  BY <1>2, ExitKills, ExitLeaves
<1>3. CASE Fuzzer
  <2>1. CASE Request
    BY <2>1, RequestFails, RequestKeeps
  <2>2. CASE ReadFails
    BY <2>2, ReadFailsStopped, ReadFailsFatal
  <2>3. CASE ReadStatus
    BY <2>3, StatusStopped, StatusReturns
  <2>4. CASE afl_fsrv_kill
    BY <2>4, RestartKilled, SessionKilled
  <2>. QED
    BY <1>3, <2>1, <2>2, <2>3, <2>4, FuzzerHelloKeeps, HelloFailsKeeps,
       FuzzerOptionsKeeps, OptionsFailKeeps, WriteKeeps, ReadPidKeeps,
       TimeoutKeeps, DrainKeeps, HandlerKeeps, SessionEndsKeeps, RestartKeeps
       DEF Fuzzer
<1>4. CASE StopSignal
  BY <1>4, StopKeeps
<1>5. CASE Target
  BY <1>5, BeginsKeeps, ExitsKeep, LoopsKeep DEF Target
<1>6. CASE \E p \in Pid : Dies(p)
  BY <1>6, DiesKeeps
<1>7. CASE Terminated \/ UNCHANGED vars
  <2>1. UNCHANGED <<fsrv, srv, proc, forks, ctl, st, input, trace, fate>>
    BY <1>7 DEF Terminated, vars
  <2>2. At' = At /\ PidWord' = PidWord /\ StatusWord' = StatusWord
    BY <2>1 DEF At, PidWord, StatusWord
  <2>3. TypeOK' /\ StopInv' /\ LinkInv' /\ TimerInv'
    BY <2>1, <2>2 DEF IInv, TypeOK, StopInv, LinkInv, TimerInv, Dead
  <2>4. LastInv' /\ ChildInv'
    BY <2>1, <2>2 DEF IInv, LastInv, ChildInv, State, Alive, Asked, Dead
  <2>5. FateInv'
    BY <2>1, <2>2
       DEF IInv, FateInv, Unset, Open, Ended, Future, State, Asked, Dead
  <2>6. PendInv' /\ TraceInv' /\ AnswerInv'
    BY <2>1, <2>2, ZenonT(40) DEF IInv, PendInv, TraceInv, AnswerInv, TraceOwn, State,
       Killable, Asked, Dead
  <2>. QED
    BY <2>3, <2>4, <2>5, <2>6 DEF IInv
<1>. QED
  BY <1>1, <1>2, <1>3, <1>4, <1>5, <1>6, <1>7 DEF Next

-----------------------------------------------------------------------------
(***************************************************************************)
(* The theorems.                                                           *)
(***************************************************************************)

\* The fields of afl-fuzz, of the server and of its children stay in their
\* ranges; a pid read from the status pipe is the pid of a child
\* (afl_fsrv_run_target).
THEOREM ForkserverTypeCorrect == Spec => []TypeOK
<1>1. IInv => TypeOK
  BY DEF IInv
<1>. QED
  BY InitInv, NextInv, <1>1, PTL DEF Spec

\* Whatever timeouts, kills and failing forks do, afl-fuzz takes every word of
\* the status pipe for what the server meant by it (read_s32_timed).
THEOREM StaysInStep == Spec => []InStep
<1>1. IInv => InStep
  <2>. SUFFICES ASSUME IInv, st # << >>, ~fsrv.stop_soon
                PROVE  Head(st).kind \in Expected
    BY DEF InStep
  <2>1. At = fsrv.pc /\ fsrv.pc \in FuzzerPc \ {"handler"}
    BY Fields DEF IInv, StopInv, At
  <2>2. \/ fsrv.pc = "hello" /\ st = <<Version>>
        \/ fsrv.pc = "options" /\ st = Options
        \/ fsrv.pc = "pid" /\ st \in {<<PidWord>>, <<PidWord, StatusWord>>}
        \/ fsrv.pc \in {"wait", "drain"} /\ st = <<StatusWord>>
    BY <2>1 DEF IInv, LinkInv, FuzzerPc
  <2>3. Head(st).kind = CASE fsrv.pc = "hello"   -> "version"
                          [] fsrv.pc = "options" -> "options"
                          [] fsrv.pc = "pid"     -> "pid"
                          [] OTHER               -> "status"
    BY <2>2, Words, OptionsFacts DEF Version, PidWord, StatusWord
  <2>. QED
    BY <2>2, <2>3 DEF Expected
<1>. QED
  BY InitInv, NextInv, <1>1, PTL DEF Spec

\* No child lives on to disturb a later run: the trace a run returns is its
\* own and complete, and a terminated server leaves no child behind that it
\* has learnt of (afl_fsrv_run_target, at_exit).
THEOREM NoChildStrays == Spec => []NoStrayChild
<1>1. IInv => NoStrayChild
  BY DEF IInv, TraceInv, ChildInv, NoStrayChild, KnownChildGone
<1>. QED
  BY InitInv, NextInv, <1>1, PTL DEF Spec

-----------------------------------------------------------------------------
(***************************************************************************)
(* The protocol implements AflRunTarget.  A step of the contract changes   *)
(* the phase of afl-fuzz, its run, the fate of the runs, the last result   *)
(* or the stop request; every step of the protocol is one of them, or      *)
(* changes none of them.                                                   *)
(***************************************************************************)

\* The phase of the contract after a step that leaves afl-fuzz at a.
LEMMA Phases ==
  /\ Phase("hello") = "idle" /\ Phase("options") = "idle"
  /\ Phase("remap") = "idle" /\ Phase("restart") = "idle"
  /\ Phase("ready") = "idle" /\ Phase("killing") = "idle"
  /\ Phase("request") = "busy" /\ Phase("pid") = "busy"
  /\ Phase("wait") = "busy" /\ Phase("drain") = "busy"
  /\ Phase("over") = "over" /\ Phase("fatal") = "over"
BY DEF Phase

\* The contract stutters.
LEMMA Stutters ==
  ASSUME Phase(At)' = Phase(At), fsrv'.run = fsrv.run, fate' = fate,
         fsrv'.result = fsrv.result, fsrv'.stop_soon = fsrv.stop_soon
  PROVE  UNCHANGED Contract!vars
BY DEF Contract!vars, At

\* The target ends the run that is on.
LEMMA RunEnds ==
  ASSUME IInv, NEW p \in Pid, State(p) \in {"begin", "run"}, fsrv' = fsrv,
         NEW f \in {"ok", "crash", "killed"},
         fate' = [fate EXCEPT ![fsrv.run] = f]
  PROVE  Contract!Next
<1>1. /\ fsrv.run \in Run /\ fate[fsrv.run] = "none"
      /\ At \in {"pid", "wait", "drain"} \/ fsrv.stop_soon
  BY Running
<1>2. Phase(At) = "busy" \/ fsrv.stop_soon
  BY <1>1, Phases
<1>3. f \in Contract!Fate \ {"none"} /\ fsrv.run \in Contract!Run
  BY <1>1 DEF Contract!Fate, Contract!Run, Run
<1>4. Contract!TargetEnds(f)
  BY <1>1, <1>2, <1>3 DEF Contract!TargetEnds, At
<1>. QED
  BY <1>3, <1>4 DEF Contract!Next

\* afl_fsrv_run_target returns.
LEMMA RunReturned ==
  ASSUME Phase(At) = "busy", Phase(At)' = "idle", fate' = fate,
         fsrv'.run = fsrv.run, fsrv'.stop_soon = fsrv.stop_soon,
         NEW o \in Outcome, fsrv'.result = [run |-> fsrv.run, outcome |-> o],
         \/ fsrv.stop_soon
         \/ o = "tmout" /\ fate[fsrv.run] # "none"
         \/ o = fate[fsrv.run]
  PROVE  Contract!Next
<1>1. Contract!Return(o)
  BY DEF Contract!Return, Contract!Answers, At
<1>. QED
  BY <1>1 DEF Contract!Next, Contract!Outcome, Outcome

\* afl-fuzz gives up, or ends.
LEMMA GivesUp ==
  ASSUME Phase(At) # "over", Phase(At)' = "over", fate' = fate,
         fsrv'.run = fsrv.run, fsrv'.result = fsrv.result,
         fsrv'.stop_soon = fsrv.stop_soon
  PROVE  Contract!Next
<1>1. Contract!GiveUp
  BY DEF Contract!GiveUp, At
<1>. QED
  BY <1>1 DEF Contract!Next

\* A step of afl-fuzz, as the contract sees it.
Goes(a, r, s, o) ==
    /\ fsrv'.pc = a /\ fsrv'.run = r /\ fsrv'.stop_soon = s /\ fsrv'.result = o

LEMMA TargetRefines ==
  ASSUME IInv, Target \/ (\E p \in Pid : Dies(p)) \/ at_exit
  PROVE  Contract!Next \/ UNCHANGED Contract!vars
<1>1. fsrv' = fsrv
  BY DEF Target, ChildBegins, ChildExits, ChildCrashes, ChildLoops, Ends, Dies,
         at_exit
<1>2. fate' = fate => UNCHANGED Contract!vars
  BY <1>1, Stutters DEF At
<1>3. ASSUME NEW p \in Pid, NEW f \in {"ok", "crash"}, State(p) = "run",
             fate' = [fate EXCEPT ![proc[p].doing] = f]
      PROVE  Contract!Next
  BY <1>1, <1>3, Running, RunEnds
<1>4. CASE Target
  <2>1. PICK p \in Pid : \/ ChildBegins(p) \/ ChildExits(p) \/ ChildCrashes(p)
                         \/ ChildLoops(p)
    BY <1>4 DEF Target
  <2>2. CASE ChildBegins(p)
    BY <1>2, <2>2 DEF ChildBegins
  <2>3. CASE ChildExits(p)
    <3>1. PICK c \in {0} \cup CrashCodes :
             fate' = [fate EXCEPT ![proc[p].doing] =
                         IF c \in CrashCodes THEN "crash" ELSE "ok"]
      BY <2>3 DEF ChildExits, Ends
    <3>. QED
      BY <1>3, <2>3, <3>1 DEF ChildExits, State
  <2>4. CASE ChildCrashes(p)
    BY <1>3, <2>4 DEF ChildCrashes, Ends, State
  <2>5. CASE ChildLoops(p)
    BY <1>3, <2>5 DEF ChildLoops, Ends, State
  <2>. QED
    BY <2>1, <2>2, <2>3, <2>4, <2>5
<1>5. ASSUME NEW p \in Pid, fate' = Killed(p)
      PROVE  Contract!Next \/ UNCHANGED Contract!vars
  <2>1. CASE State(p) \in {"begin", "run"}
    <3>1. fate' = [fate EXCEPT ![fsrv.run] = "killed"]
      BY <1>5, <2>1, Running DEF Killed, State
    <3>. QED
      BY <1>1, <2>1, <3>1, RunEnds
  <2>2. CASE State(p) \notin {"begin", "run"}
    BY <1>2, <1>5, <2>2 DEF Killed, State
  <2>. QED
    BY <2>1, <2>2
<1>6. CASE \E p \in Pid : Dies(p)
  BY <1>5, <1>6 DEF Dies
<1>7. CASE at_exit
  BY <1>2, <1>5, <1>7 DEF at_exit, Alive
<1>. QED
  BY <1>4, <1>6, <1>7

LEMMA RunRefines ==
  ASSUME Distinct, IInv,
         \/ WriteTestcase \/ Request \/ ReadFails \/ ReadPid \/ ReadStatus
         \/ Timeout \/ Drain
  PROVE  Contract!Next \/ UNCHANGED Contract!vars
<1>1. fate' = fate
  BY DEF WriteTestcase, Request, ReadFails, ReadPid, ReadStatus, Timeout, Drain
<1>2. ASSUME NEW a, NEW r, NEW s, NEW o, Goes(a, r, s, o), a # "handler"
      PROVE  /\ Phase(At)' = Phase(a) /\ fsrv'.run = r /\ fsrv'.stop_soon = s
             /\ fsrv'.result = o
  BY <1>2 DEF Goes, At
<1>3. fsrv.pc # "handler" => At = fsrv.pc
  BY DEF At
<1>4. CASE WriteTestcase
  <2>1. /\ fsrv.pc = "ready" /\ fsrv.run < MaxRuns
        /\ Goes("request", fsrv.run + 1, fsrv.stop_soon, fsrv.result)
    BY <1>4, Zenon DEF WriteTestcase, IInv, TypeOK, Goes
  <2>2. Contract!Begin
    BY <1>1, <1>2, <1>3, <2>1, Phases DEF Contract!Begin, At
  <2>. QED
    BY <2>2 DEF Contract!Next
<1>5. ASSUME RunFails, fsrv.pc \in {"request", "pid", "wait", "drain"}
      PROVE  Contract!Next
  <2>1. CASE fsrv.stop_soon
    <3>1. Goes("ready", fsrv.run, fsrv.stop_soon,
               [run |-> fsrv.run, outcome |-> "ok"])
      BY <1>5, <2>1, Zenon DEF RunFails, IInv, TypeOK, Goes
    <3>2. PICK o \in Outcome : o = "ok"
      BY DEF Outcome
    <3>3. Goes("ready", fsrv.run, fsrv.stop_soon, [run |-> fsrv.run, outcome |-> o])
      BY <3>1, <3>2, Zenon
    <3>4. /\ Phase(At)' = "idle" /\ fsrv'.run = fsrv.run
          /\ fsrv'.stop_soon = fsrv.stop_soon
          /\ fsrv'.result = [run |-> fsrv.run, outcome |-> o]
      BY <1>2, <3>3, Phases, Zenon
    <3>5. Phase(At) = "busy"
      BY <1>3, <1>5, Phases
    <3>. QED
      BY <1>1, <2>1, <3>4, <3>5, RunReturned
  <2>2. CASE ~fsrv.stop_soon
    <3>1. Goes("fatal", fsrv.run, fsrv.stop_soon, fsrv.result)
      BY <1>5, <2>2, Zenon DEF RunFails, IInv, TypeOK, Goes
    <3>. QED
      BY <1>1, <1>2, <1>3, <1>5, <3>1, Phases, GivesUp
  <2>. QED
    BY <2>1, <2>2
<1>6. CASE Request
  <2>1. CASE srv.pc = "dead"
    BY <1>5, <1>6, <2>1 DEF Request
  <2>2. CASE srv.pc # "dead"
    <3>1. fsrv' = [fsrv EXCEPT !.pc = "pid", !.last_run_timed_out = FALSE]
      BY <1>6, <2>2, Zenon DEF Request
    <3>2. Goes("pid", fsrv.run, fsrv.stop_soon, fsrv.result)
      BY <3>1, Zenon DEF IInv, TypeOK, Goes
    <3>. QED
      BY <1>1, <1>2, <1>3, <1>6, <3>2, Phases, Stutters DEF Request
  <2>. QED
    BY <2>1, <2>2
<1>7. CASE ReadFails
  BY <1>5, <1>7 DEF ReadFails
<1>8. CASE ReadPid
  <2>1. Goes("wait", fsrv.run, fsrv.stop_soon, fsrv.result)
    BY <1>8, Zenon DEF ReadPid, IInv, TypeOK, Goes
  <2>. QED
    BY <1>1, <1>2, <1>3, <1>8, <2>1, Phases, Stutters DEF ReadPid
<1>9. CASE Timeout
  <2>1. Goes("drain", fsrv.run, fsrv.stop_soon, fsrv.result)
    BY <1>9, Zenon DEF Timeout, IInv, TypeOK, Goes
  <2>. QED
    BY <1>1, <1>2, <1>3, <1>9, <2>1, Phases, Stutters DEF Timeout
<1>10. ASSUME NEW s, Returns(s), fsrv.pc \in {"wait", "drain"},
              \/ fsrv.stop_soon
              \/ fsrv.last_run_timed_out /\ fate[fsrv.run] # "none"
              \/ ~fsrv.last_run_timed_out /\ run_result(s, FALSE) = fate[fsrv.run]
       PROVE  Contract!Next
  <2>1. PICK o : o = run_result(s, fsrv.last_run_timed_out)
    BY Zenon
  <2>2. Goes("ready", fsrv.run, fsrv.stop_soon,
             [run |-> fsrv.run, outcome |-> o])
    BY <1>10, <2>1, Zenon DEF Returns, IInv, TypeOK, Goes
  <2>3. o \in Outcome
    BY <2>1 DEF run_result, Outcome
  <2>4. \/ fsrv.stop_soon
        \/ o = "tmout" /\ fate[fsrv.run] # "none"
        \/ o = fate[fsrv.run]
    BY <1>10, <2>1 DEF run_result
  <2>. QED
    BY <1>1, <1>2, <1>3, <1>10, <2>2, <2>3, <2>4, Phases, RunReturned
<1>11. ASSUME fsrv.pc \in {"wait", "drain"}, st # << >>
       PROVE  Head(st).val = srv.status
  <2>1. st = <<StatusWord>>
    BY <1>3, <1>11 DEF IInv, LinkInv
  <2>. QED
    BY <2>1, Words DEF StatusWord
<1>12. CASE ReadStatus
  <2>1. CASE fsrv.stop_soon
    BY <1>5, <1>12, <2>1 DEF ReadStatus
  <2>2. CASE ~fsrv.stop_soon
    <3>1. fsrv.pc = "wait" /\ Returns(srv.status)
      BY <1>11, <1>12, <2>2 DEF ReadStatus
    <3>2. At = "wait" /\ ~fsrv.last_run_timed_out /\ ~Asked /\ srv.pc = "idle"
      BY <1>3, <1>12, <2>2, <3>1
         DEF IInv, StopInv, LinkInv, TimerInv, Dead, Asked, ReadStatus
    <3>3. run_result(srv.status, FALSE) = fate[fsrv.run]
      BY <2>2, <3>1, <3>2 DEF IInv, AnswerInv
    <3>. QED
      BY <1>10, <3>1, <3>2, <3>3
  <2>. QED
    BY <2>1, <2>2
<1>13. CASE Drain
  <2>1. /\ fsrv.pc = "drain" /\ At = "drain" /\ st # << >>
        /\ Returns(srv.status) /\ fsrv.last_run_timed_out
    BY <1>3, <1>11, <1>13 DEF IInv, TimerInv, Drain
  <2>2. ASSUME ~fsrv.stop_soon PROVE fate[fsrv.run] # "none"
    <3>1. srv.pc = "idle" /\ ctl = << >>
      BY <2>1, <2>2 DEF IInv, StopInv, LinkInv, Dead
    <3>2. State(forks) \notin {"begin", "run"}
      BY <2>1, <3>1 DEF IInv, ChildInv, Asked, Dead
    <3>. QED
      BY <2>1, <2>2, <3>1, <3>2 DEF IInv, FateInv, Ended, Asked, Dead
  <2>. QED
    BY <1>10, <2>1, <2>2
<1>. QED
  BY <1>4, <1>6, <1>7, <1>8, <1>9, <1>12, <1>13

LEMMA SessionRefines ==
  ASSUME IInv,
         \/ FuzzerHello \/ HelloFails \/ FuzzerOptions \/ OptionsFail
         \/ HandlerReturns \/ afl_fsrv_kill \/ SessionEnds \/ Restart
         \/ StopSignal
  PROVE  Contract!Next \/ UNCHANGED Contract!vars
<1>1. fate' = fate
  BY DEF FuzzerHello, HelloFails, FuzzerOptions, OptionsFail, HandlerReturns,
         afl_fsrv_kill, SessionEnds, Restart, StopSignal
<1>2. ASSUME NEW a, Goes(a, fsrv.run, fsrv.stop_soon, fsrv.result),
             a # "handler", Phase(a) = Phase(At)
      PROVE  UNCHANGED Contract!vars
  BY <1>1, <1>2, Stutters DEF Goes, At
<1>3. ASSUME NEW a \in {"over", "fatal"}, Phase(At) # "over",
             Goes(a, fsrv.run, fsrv.stop_soon, fsrv.result)
      PROVE  Contract!Next
  BY <1>1, <1>3, Phases, GivesUp DEF Goes, At
<1>4. CASE FuzzerHello
  <2>1. fsrv.pc = "hello" /\ Goes("options", fsrv.run, fsrv.stop_soon, fsrv.result)
    BY <1>4, Zenon DEF FuzzerHello, Goto, IInv, TypeOK, Goes
  <2>. QED
    BY <1>2, <2>1, Phases DEF At
<1>5. CASE HelloFails \/ OptionsFail \/ SessionEnds
  <2>1. /\ fsrv.pc \in {"hello", "options", "killing"}
        /\ \E a \in {"over", "fatal"} :
               Goes(a, fsrv.run, fsrv.stop_soon, fsrv.result)
    BY <1>5, Zenon
       DEF HelloFails, OptionsFail, SessionEnds, Goto, IInv, TypeOK, Goes
  <2>. QED
    BY <1>3, <2>1, Phases DEF At
<1>6. CASE FuzzerOptions
  <2>1. PICK a \in {"remap", "ready"} : fsrv' = [fsrv EXCEPT !.pc = a]
    BY <1>6, Zenon DEF FuzzerOptions, Goto
  <2>2. Goes(a, fsrv.run, fsrv.stop_soon, fsrv.result)
    BY <2>1, Zenon DEF IInv, TypeOK, Goes
  <2>. QED
    BY <1>2, <1>6, <2>2, Phases DEF At, FuzzerOptions
<1>7. CASE HandlerReturns
  <2>1. /\ fsrv.pc = "handler"
        /\ Goes(fsrv.back, fsrv.run, fsrv.stop_soon, fsrv.result)
    BY <1>7, Zenon DEF HandlerReturns, Goto, IInv, TypeOK, Goes
  <2>. QED
    BY <1>2, <2>1 DEF At, IInv, StopInv
<1>8. CASE afl_fsrv_kill
  <2>1. \/ /\ fsrv.pc = "remap"
           /\ Goes("restart", fsrv.run, fsrv.stop_soon, fsrv.result)
        \/ /\ fsrv.pc = "ready"
           /\ Goes("killing", fsrv.run, fsrv.stop_soon, fsrv.result)
    BY <1>8, Zenon DEF afl_fsrv_kill, IInv, TypeOK, Goes
  <2>. QED
    BY <1>2, <2>1, Phases DEF At
<1>9. CASE Restart
  <2>1. fsrv.pc = "restart" /\ Goes("hello", fsrv.run, fsrv.stop_soon, fsrv.result)
    BY <1>9, Zenon DEF Restart, IInv, TypeOK, Goes
  <2>. QED
    BY <1>2, <2>1, Phases DEF At
<1>10. CASE StopSignal
  <2>1. /\ Goes("handler", fsrv.run, TRUE, fsrv.result) /\ fsrv'.back = fsrv.pc
        /\ fsrv.pc \notin {"handler", "over", "fatal"}
    BY <1>10, Zenon DEF StopSignal, Working, IInv, TypeOK, Goes
  <2>2. At = fsrv.pc /\ Phase(At)' = Phase(At)
    BY <2>1 DEF At, Goes
  <2>3. Phase(At) # "over"
    BY <2>1, <2>2 DEF Phase
  <2>4. Contract!Stop
    BY <1>1, <2>1, <2>2, <2>3 DEF Contract!Stop, Goes, At
  <2>. QED
    BY <2>4 DEF Contract!Next
<1>. QED
  BY <1>4, <1>5, <1>6, <1>7, <1>8, <1>9, <1>10

\* The protocol keeps what callers of afl_fsrv_run_target rely on: the target
\* ends a run once and only inside it, and the answer is about that run.  It
\* takes an AFL_CRASH_EXITCODE other than SIGSTOP for persistent targets, as
\* WEXITSTATUS finds that number in the status of every stopped child.
THEOREM ContractImplemented ==
  ASSUME Distinct
  PROVE  Spec => ImplementsContract
<1>1. Init => Contract!Init
  <2>. SUFFICES ASSUME Init PROVE Contract!Init
    OBVIOUS
  <2>1. /\ fsrv.pc = "hello" /\ fsrv.run = 0 /\ fsrv.stop_soon = FALSE
        /\ fsrv.result = [run |-> 0, outcome |-> "ok"]
        /\ fate = [r \in Run |-> "none"]
    BY DEF Init
  <2>. QED
    BY <2>1, Phases DEF Contract!Init, Contract!NoResult, Contract!Run, Run
<1>2. IInv /\ [Next]_vars => [Contract!Next]_(Contract!vars)
  <2>. SUFFICES ASSUME IInv, [Next]_vars
                PROVE  Contract!Next \/ UNCHANGED Contract!vars
    OBVIOUS
  <2>1. CASE Server \/ Terminated \/ UNCHANGED vars
    <3>1. fsrv' = fsrv /\ fate' = fate
      BY <2>1 DEF Server, Terminated, vars, ServerHello, ServerOptions,
         ServerRead, ServerReaps, ServerForks, ServerCannotFork, ServerTellsPid,
         ServerContinues, ServerWaits, ServerReports
    <3>. QED
      BY <3>1, Stutters DEF At
  <2>2. CASE Fuzzer \/ StopSignal
    BY <2>2, RunRefines, SessionRefines DEF Fuzzer
  <2>3. CASE Target \/ at_exit \/ \E p \in Pid : Dies(p)
    BY <2>3, TargetRefines
  <2>. QED
    BY <2>1, <2>2, <2>3 DEF Next
<1>. QED
  BY InitInv, NextInv, <1>1, <1>2, PTL DEF Spec, ImplementsContract, Contract!Spec
=============================================================================
