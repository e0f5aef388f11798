----------------------------- MODULE AflCoverage ----------------------------
(***************************************************************************)
(* The coverage maps of afl-fuzz (afl-fuzz-bitmap.c) and the two functions *)
(* that update them: save_if_interesting, which decides what becomes of an *)
(* execution, and calibrate_case (afl-fuzz-run.c), which runs a new queue  *)
(* entry again.                                                            *)
(*                                                                         *)
(* Three virgin maps hold the bits not seen yet in normal runs, in         *)
(* timeouts and in crashes.  The target need not be deterministic: every   *)
(* execution draws its trace and its outcome.  trace_bits keeps what the   *)
(* last execution and the functions that rewrite it in place left there.   *)
(* The counters of timeouts, which only the status screen reads, are left  *)
(* out.                                                                    *)
(***************************************************************************)
EXTENDS Integers, Sequences

CONSTANTS
    MapSize,          \* fsrv.real_map_size
    Counts,           \* the hit counts of an edge that occur
    MaxItems,         \* bound on the queue
    MaxExecs,         \* bound on the executions of the fuzzing stages
    CalCycles, CalCyclesLong,       \* CAL_CYCLES, CAL_CYCLES_LONG
    CalChances,       \* CAL_CHANCES
    KeepCrashes, KeepHangs          \* KEEP_UNIQUE_CRASH, KEEP_UNIQUE_HANG

ASSUME CoverageAssumption ==
    /\ Counts \subseteq 0 .. 255
    /\ MapSize \in Nat \ {0} /\ MaxItems \in Nat \ {0} /\ MaxExecs \in Nat
    /\ CalCycles \in Nat \ {0} /\ CalCyclesLong \in Nat
    /\ CalCycles <= CalCyclesLong /\ CalChances \in Nat \ {0}
    /\ KeepCrashes \in Nat /\ KeepHangs \in Nat

Byte == 0 .. MapSize - 1
Bits == {1, 2, 4, 8, 16, 32, 64, 128}            \* of a map byte
Raw == [Byte -> Counts]
Outcome == {"ok", "crash", "tmout"}
\* exec_tmout < hang_tmout, AFL_KEEP_TIMEOUTS and AFL_IGNORE_TIMEOUTS, in the
\* combinations that make a difference: only a run that is repeated can be
\* kept, and a timeout that is ignored is not repeated.
Settings ==
    {s \in [rerun : BOOLEAN, keep_timeouts : BOOLEAN,
            ignore_timeouts : BOOLEAN] :
        (s.keep_timeouts => s.rerun) /\ (s.ignore_timeouts => ~s.rerun)}
NoTrace == [b \in Byte |-> -1]    \* exec_cksum = 0

VARIABLES
    settings,
    virgin_bits, virgin_tmout, virgin_crash, var_bytes,
    trace_bits,
    queue,            \* for every entry: cal_failed, and the bits its runs
                      \* have shown
    crashes, hangs,   \* what the saved crashes and hangs show, and
    saved_crashes, saved_hangs,     \* how many there are
    pc, fault,        \* where afl-fuzz is; what save_if_interesting saves
    cal,              \* calibrate_case: the entry, stage_cur, stage_max and
                      \* first_trace, whose checksum is exec_cksum
    execs             \* history: how many executions the stages made

maps == <<virgin_bits, virgin_tmout, virgin_crash, var_bytes>>
saved == <<crashes, hangs, saved_crashes, saved_hangs>>
vars == <<settings, maps, trace_bits, queue, saved, pc, fault, cal, execs>>

-----------------------------------------------------------------------------
(* Traces and maps.                                                        *)

\* count_class_lookup8.
count_class(n) ==
    CASE n <= 2 -> n [] n = 3 -> 4 [] n \in 4 .. 7 -> 8 [] n \in 8 .. 15 -> 16
      [] n \in 16 .. 31 -> 32 [] n \in 32 .. 127 -> 64 [] OTHER -> 128

classify_counts(t) == [b \in Byte |-> count_class(t[b])]

\* simplify_lookup: an edge that was not hit leaves a bit, too.
simplify_trace(t) == [b \in Byte |-> IF t[b] = 0 THEN 1 ELSE 128]

Shows(t) == {<<b, t[b]>> : b \in {c \in Byte : t[c] # 0}}

\* The bits of a trace that a virgin map still has, and the map without them.
NewBits(virgin, t) == Shows(t) \cap virgin
Seen(virgin, t) == virgin \ Shows(t)

-----------------------------------------------------------------------------
(* calibrate_case.                                                         *)

Idle == [q |-> 0, cur |-> 0, max |-> 0, first |-> NoTrace]

\* The calibration of entry q; t is the trace its exec_cksum is of.
Start(q, t) == [q |-> q, cur |-> 0, max |-> CalCycles, first |-> t]

Failed(q) == [queue EXCEPT ![q].cal_failed = @ + 1]

\* The bytes in which two traces of an entry differ.
Unstable(t) == {b \in Byte : cal.first # NoTrace /\ cal.first[b] # t[b]}

\* An unstable byte counts as fully discovered.
Discovered(virgin, unstable) == {v \in virgin : v[1] \notin unstable}

\* The first trace is kept; one that differs from it prolongs the stage.
AfterRun(t) ==
    [q |-> cal.q, cur |-> cal.cur + 1,
     max |-> IF cal.first \in {NoTrace, t} THEN cal.max ELSE CalCyclesLong,
     first |-> IF cal.first = NoTrace THEN t ELSE cal.first]

\* One run of the entry, with its raw trace.
CalibrateRun ==
    /\ pc = "calibrate" /\ cal.cur < cal.max
    /\ \E raw \in Raw :
         LET t == classify_counts(raw) IN
         /\ \E b \in Byte : raw[b] # 0
         /\ trace_bits' = t
         /\ queue' = [queue EXCEPT ![cal.q].shown = @ \cup Shows(t)]
         /\ cal' = AfterRun(t)
         /\ IF t = cal.first
              THEN UNCHANGED <<virgin_bits, var_bytes>>
              ELSE /\ var_bytes' = var_bytes \cup Unstable(t)
                   /\ virgin_bits' =
                          Discovered(Seen(virgin_bits, t), Unstable(t))
    /\ UNCHANGED <<virgin_tmout, virgin_crash, saved, pc, fault, execs,
                   settings>>

\* After calibration save_if_interesting goes on with the fault at hand.
AfterCalibration ==
    /\ pc' = IF fault = "tmout" THEN "tmout" ELSE "run"
    /\ cal' = Idle

CalibrateEnds ==
    /\ pc = "calibrate" /\ cal.cur = cal.max
    /\ queue' = [queue EXCEPT ![cal.q].cal_failed = 0]
    /\ AfterCalibration
    /\ UNCHANGED <<maps, trace_bits, saved, fault, execs, settings>>

\* A run crashes, times out, or leaves no trace.
CalibrateAborts ==
    /\ pc = "calibrate" /\ cal.cur < cal.max
    /\ \E raw \in Raw, o \in Outcome :
         /\ o = "ok" => \A b \in Byte : raw[b] = 0
         /\ trace_bits' = raw
    /\ AfterCalibration
    /\ UNCHANGED <<maps, queue, saved, fault, execs, settings>>

\* The trace fuzz_one hands to the calibration of an entry that failed it
\* before: exec_cksum is reset, so that trace_bits, which may be anybody's, is
\* not used.  The variant forgets the reset.
KeptTrace == trace_bits
RetryTrace == NoTrace

Recalibrate ==
    /\ pc = "run"
    /\ \E q \in 1 .. Len(queue) :
         /\ queue[q].cal_failed \in 1 .. CalChances - 1
         /\ queue' = Failed(q)
         /\ cal' = Start(q, RetryTrace)
         /\ virgin_bits' = IF RetryTrace = NoTrace
                             THEN virgin_bits
                             ELSE Seen(virgin_bits, RetryTrace)
    /\ pc' = "calibrate" /\ fault' = "ok"
    /\ UNCHANGED <<virgin_tmout, virgin_crash, var_bytes, trace_bits, saved,
                   execs, settings>>

-----------------------------------------------------------------------------
(* save_if_interesting.                                                    *)

\* save_to_queue: the trace is classified, its bits are taken, and the new
\* entry is calibrated.
Save(raw) ==
    LET t == classify_counts(raw) IN
    /\ Len(queue) < MaxItems
    /\ queue' = Append(queue, [cal_failed |-> 1, shown |-> Shows(t)])
    /\ virgin_bits' = Seen(virgin_bits, t)
    /\ trace_bits' = t
    /\ cal' = Start(Len(queue) + 1, t)
    /\ pc' = "calibrate"

\* An execution of a fuzzing stage that ends well.
ExecOk ==
    /\ pc = "run" /\ execs < MaxExecs
    /\ execs' = execs + 1
    /\ \E raw \in Raw :
         IF NewBits(virgin_bits, classify_counts(raw)) # {}
           THEN Save(raw)
           ELSE trace_bits' = raw /\ UNCHANGED <<virgin_bits, queue, cal, pc>>
    /\ fault' = "ok"
    /\ UNCHANGED <<virgin_tmout, virgin_crash, var_bytes, saved, settings>>

\* The limit on saved crashes; the variant allows one more.
CrashesOverFull == saved_crashes > KeepCrashes
CrashesFull == saved_crashes >= KeepCrashes

\* What is left of a map that is not looked at when its limit is reached; the
\* variant looks at it first.
LookFirst(full, virgin, t) == Seen(virgin, t)
LookUnless(full, virgin, t) == IF full THEN virgin ELSE Seen(virgin, t)

\* keep_as_crash: save the crash if its simplified trace has news.
KeepAsCrash(raw) ==
    LET t == simplify_trace(raw)
        new == ~CrashesFull /\ NewBits(virgin_crash, t) # {}
    IN /\ trace_bits' = IF CrashesFull THEN raw ELSE t
       /\ virgin_crash' = LookUnless(CrashesFull, virgin_crash, t)
       /\ saved_crashes' = saved_crashes + (IF new THEN 1 ELSE 0)
       /\ crashes' = IF new THEN crashes \cup Shows(t) ELSE crashes

ExecCrash ==
    /\ pc = "run" /\ execs < MaxExecs
    /\ execs' = execs + 1
    /\ \E raw \in Raw : KeepAsCrash(raw)
    /\ fault' = "crash"
    /\ UNCHANGED <<virgin_bits, virgin_tmout, var_bytes, queue, hangs,
                   saved_hangs, pc, cal, settings>>

ExecTmout ==
    /\ pc = "run" /\ execs < MaxExecs
    /\ execs' = execs + 1
    /\ \E raw \in Raw : trace_bits' = raw
    /\ fault' = "tmout"
    /\ pc' = IF settings.ignore_timeouts THEN "run" ELSE "tmout"
    /\ UNCHANGED <<maps, queue, saved, cal, settings>>

\* A hang is kept: what it shows counts for the saved hangs.
KeepHang(t) ==
    /\ saved_hangs' = saved_hangs + 1
    /\ hangs' = hangs \cup Shows(t)

\* The case of a timeout: count it, and see whether its trace has news.
TmoutCase ==
    LET t == simplify_trace(trace_bits)
        full == saved_hangs >= KeepHangs
        new == ~full /\ NewBits(virgin_tmout, t) # {}
    IN /\ pc = "tmout"
       /\ trace_bits' = IF full THEN trace_bits ELSE t
       /\ virgin_tmout' = LookUnless(full, virgin_tmout, t)
       /\ pc' = IF new /\ settings.rerun THEN "rerun" ELSE "run"
       /\ IF new /\ ~settings.rerun THEN KeepHang(t)
                           ELSE UNCHANGED <<saved_hangs, hangs>>
       /\ UNCHANGED <<virgin_bits, virgin_crash, var_bytes, queue, crashes,
                      saved_crashes, fault, cal, execs, settings>>

\* The run with the generous timeout: a hang, a crash after all, or neither.
RerunTmout ==
    /\ pc = "rerun"
    /\ KeepHang(trace_bits)
    /\ \E raw \in Raw : trace_bits' = raw
    /\ pc' = "run"
    /\ UNCHANGED <<maps, queue, crashes, saved_crashes, fault, cal, execs,
                   settings>>

RerunCrash ==
    /\ pc = "rerun"
    /\ \E raw \in Raw : KeepAsCrash(raw)
    /\ pc' = "run"
    /\ UNCHANGED <<virgin_bits, virgin_tmout, var_bytes, queue, hangs,
                   saved_hangs, fault, cal, execs, settings>>

RerunOk ==
    /\ pc = "rerun"
    /\ \E raw \in Raw :
         IF settings.keep_timeouts
           THEN Save(raw)
           ELSE /\ trace_bits' = raw /\ pc' = "run"
                /\ UNCHANGED <<virgin_bits, queue, cal>>
    /\ UNCHANGED <<virgin_tmout, virgin_crash, var_bytes, saved, fault, execs,
                   settings>>

-----------------------------------------------------------------------------

AllBits == Byte \X Bits

\* The first step is the calibration of a seed (perform_dry_run).
Init ==
    /\ settings \in Settings
    /\ virgin_bits = AllBits /\ virgin_tmout = AllBits
    /\ virgin_crash = AllBits /\ var_bytes = {}
    /\ trace_bits = [b \in Byte |-> 0]
    /\ queue = <<[cal_failed |-> 1, shown |-> {}]>>
    /\ crashes = {} /\ hangs = {}
    /\ saved_crashes = 0 /\ saved_hangs = 0
    /\ pc = "calibrate" /\ fault = "ok"
    /\ cal = Start(1, NoTrace)
    /\ execs = 0

\* The bound on the executions is reached.
Done == pc = "run" /\ execs = MaxExecs /\ UNCHANGED vars

Next ==
    \/ CalibrateRun \/ CalibrateEnds \/ CalibrateAborts \/ Recalibrate
    \/ ExecOk \/ ExecCrash \/ ExecTmout
    \/ TmoutCase \/ RerunTmout \/ RerunCrash \/ RerunOk
    \/ Done

Spec == Init /\ [][Next]_vars

-----------------------------------------------------------------------------
(* Properties.                                                             *)

Entry == [cal_failed : 0 .. CalChances, shown : SUBSET AllBits]
Calibration == [q : Nat, cur : Nat, max : Nat,
                first : {NoTrace} \cup [Byte -> {0} \cup Bits]]

\* The types of the maps and counters; the saved crashes and hangs stay
\* within KEEP_UNIQUE_CRASH and KEEP_UNIQUE_HANG.
TypeOK ==
    /\ settings \in Settings
    /\ virgin_bits \subseteq AllBits /\ virgin_tmout \subseteq AllBits
    /\ virgin_crash \subseteq AllBits /\ var_bytes \subseteq Byte
    /\ trace_bits \in [Byte -> 0 .. 255]
    /\ queue \in Seq(Entry) /\ Len(queue) <= MaxItems
    /\ cal \in Calibration
    /\ crashes \subseteq AllBits /\ hangs \subseteq AllBits
    /\ saved_crashes \in 0 .. KeepCrashes
    /\ saved_hangs \in 0 .. KeepHangs
    /\ pc \in {"run", "calibrate", "tmout", "rerun"} /\ fault \in Outcome
    /\ execs \in 0 .. MaxExecs

\* No coverage is lost: a bit that has left the virgin map was shown by a run
\* of a queue entry, unless the byte is unstable.
QueueShowsCoverage ==
    \A v \in AllBits \ virgin_bits :
        \/ v[1] \in var_bytes
        \/ \E q \in 1 .. Len(queue) : v \in queue[q].shown

\* An unstable byte never again makes an input interesting.
UnstableSettled == \A v \in virgin_bits : v[1] \notin var_bytes

\* The virgin map is right about what the queue shows and what is unstable.
VirginMapSound == QueueShowsCoverage /\ UnstableSettled

\* Unique crashes are kept: the saved crashes show every bit that crashes are
\* known to show, so a crash is dropped only when its bits are there.
CrashesKept == AllBits \ virgin_crash \subseteq crashes

\* The same of hangs, when timeouts are not run again: a run that is repeated
\* has used up its bits before it is known whether it is a hang.
HangsKept == ~settings.rerun => AllBits \ virgin_tmout \subseteq hangs

\* A signature of a crash or a hang is not used up without its file.
SignaturesKept == CrashesKept /\ HangsKept
=============================================================================
