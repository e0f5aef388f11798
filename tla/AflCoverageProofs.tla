------------------------- MODULE AflCoverageProofs --------------------------
(***************************************************************************)
(* Proofs about AflCoverage for every map size, set of hit counts, queue   *)
(* bound, calibration length and limit on saved files.                     *)
(***************************************************************************)
EXTENDS AflCoverage, TLAPS

\* What TypeOK needs of the control: a calibration works on an entry of the
\* queue, and a run is repeated only while there is room for a hang, with its
\* simplified trace still in the map.
ControlInv ==
    /\ pc = "calibrate" => cal.q \in 1 .. Len(queue)
    /\ pc = "rerun" => /\ settings.rerun /\ saved_hangs < KeepHangs
                       /\ trace_bits \in [Byte -> {1, 128}]

TypeInv == TypeOK /\ ControlInv

-----------------------------------------------------------------------------
(* Traces                                                                  *)

\* count_class_lookup8 leaves at most one bit of a count.
LEMMA CountClass ==
    ASSUME NEW n \in 0 .. 255
    PROVE  count_class(n) \in {0} \cup Bits
BY DEF count_class, Bits

LEMMA ClassifiedType ==
    ASSUME NEW t \in [Byte -> 0 .. 255]
    PROVE  classify_counts(t) \in [Byte -> {0} \cup Bits]
BY CountClass DEF classify_counts

LEMMA SimplifiedType ==
    ASSUME NEW t
    PROVE  simplify_trace(t) \in [Byte -> {1, 128}]
BY DEF simplify_trace

\* What a classified or simplified trace shows are bits of the map.
LEMMA ShowsType ==
    ASSUME NEW t \in [Byte -> {0} \cup Bits]
    PROVE  Shows(t) \subseteq AllBits
BY DEF Shows, AllBits

LEMMA RawType ==
    ASSUME NEW raw \in Raw
    PROVE  raw \in [Byte -> 0 .. 255]
BY CoverageAssumption DEF Raw

LEMMA BitsType ==
    /\ {0} \cup Bits \subseteq 0 .. 255
    /\ {1, 128} \subseteq {0} \cup Bits
BY DEF Bits

\* The facts about the traces of one execution.
LEMMA RawTraces ==
    ASSUME NEW raw \in Raw
    PROVE  /\ raw \in [Byte -> 0 .. 255]
           /\ classify_counts(raw) \in [Byte -> {0} \cup Bits]
           /\ classify_counts(raw) \in [Byte -> 0 .. 255]
           /\ Shows(classify_counts(raw)) \subseteq AllBits
           /\ simplify_trace(raw) \in [Byte -> 0 .. 255]
           /\ Shows(simplify_trace(raw)) \subseteq AllBits
<1>1. raw \in [Byte -> 0 .. 255]
  BY RawType
<1>2. classify_counts(raw) \in [Byte -> {0} \cup Bits]
  BY <1>1, ClassifiedType
<1>3. simplify_trace(raw) \in [Byte -> {0} \cup Bits]
  BY SimplifiedType, BitsType
<1>. QED
  BY <1>1, <1>2, <1>3, ShowsType, BitsType

-----------------------------------------------------------------------------
(* Types                                                                   *)

LEMMA InitTypes == Init => TypeInv
<1>. SUFFICES ASSUME Init PROVE TypeInv
  OBVIOUS
<1>. USE CoverageAssumption DEF Init
<1>1. [cal_failed |-> 1, shown |-> {}] \in Entry
  BY DEF Entry
<1>2. queue \in Seq(Entry) /\ Len(queue) = 1
  BY <1>1
<1>3. cal \in Calibration /\ cal.q = 1
  BY DEF Start, Calibration
<1>. QED
  BY <1>2, <1>3 DEF TypeInv, TypeOK, ControlInv, Outcome

\* An entry's fields are changed one at a time.
LEMMA ShownUpdate ==
    ASSUME queue \in Seq(Entry), NEW q \in 1 .. Len(queue),
           NEW S \in SUBSET AllBits,
           queue' = [queue EXCEPT ![q].shown = @ \cup S]
    PROVE  /\ queue' \in Seq(Entry) /\ Len(queue') = Len(queue)
           /\ \A p \in 1 .. Len(queue) : queue[p].shown \subseteq queue'[p].shown
           /\ S \subseteq queue'[q].shown
<1>1. queue[q] \in Entry
  OBVIOUS
<1>2. /\ [queue[q] EXCEPT !.shown = @ \cup S] \in Entry
      /\ [queue[q] EXCEPT !.shown = @ \cup S].shown = queue[q].shown \cup S
  BY <1>1 DEF Entry
<1>. QED
  BY <1>2

LEMMA FailedUpdate ==
    ASSUME queue \in Seq(Entry), NEW q \in 1 .. Len(queue),
           NEW n \in 0 .. CalChances,
           queue' = [queue EXCEPT ![q].cal_failed = n]
    PROVE  /\ queue' \in Seq(Entry) /\ Len(queue') = Len(queue)
           /\ \A p \in 1 .. Len(queue) : queue'[p].shown = queue[p].shown
<1>1. queue[q] \in Entry
  OBVIOUS
<1>2. /\ [queue[q] EXCEPT !.cal_failed = n] \in Entry
      /\ [queue[q] EXCEPT !.cal_failed = n].shown = queue[q].shown
  BY <1>1 DEF Entry
<1>. QED
  BY <1>2

\* The calibration of an entry of the queue.
LEMMA StartType ==
    ASSUME NEW q \in Nat, NEW t \in {NoTrace} \cup [Byte -> {0} \cup Bits]
    PROVE  Start(q, t) \in Calibration /\ Start(q, t).q = q
BY CoverageAssumption DEF Start, Calibration

LEMMA IdleType == Idle \in Calibration
BY DEF Idle, Calibration

LEMMA SaveTypes ==
    ASSUME TypeInv, NEW raw \in Raw, Save(raw)
    PROVE  /\ queue' \in Seq(Entry) /\ Len(queue') <= MaxItems
           /\ cal' \in Calibration /\ cal'.q \in 1 .. Len(queue')
           /\ trace_bits' \in [Byte -> 0 .. 255]
           /\ virgin_bits' \subseteq AllBits
           /\ pc' = "calibrate"
<1>. DEFINE t == classify_counts(raw)
            e == [cal_failed |-> 1, shown |-> Shows(t)]
<1>1. t \in [Byte -> {0} \cup Bits] /\ t \in [Byte -> 0 .. 255] /\ Shows(t) \subseteq AllBits
  BY RawTraces
<1>2. e \in Entry
  BY <1>1, CoverageAssumption DEF Entry
<1>3. queue' = Append(queue, e) /\ Len(queue) < MaxItems
  BY DEF Save
<1>4. queue \in Seq(Entry) /\ MaxItems \in Nat
  BY CoverageAssumption DEF TypeInv, TypeOK
<1>5. queue' \in Seq(Entry) /\ Len(queue') = Len(queue) + 1 /\ Len(queue) \in Nat
  BY <1>2, <1>3, <1>4
<1>6. cal' = Start(Len(queue) + 1, t)
  BY DEF Save
<1>7. cal' \in Calibration /\ cal'.q = Len(queue) + 1
  BY <1>1, <1>5, <1>6, StartType
<1>8. virgin_bits' \subseteq AllBits
  BY DEF Save, Seen, TypeInv, TypeOK
<1>. QED
  BY <1>1, <1>3, <1>4, <1>5, <1>7, <1>8 DEF Save

LEMMA KeepAsCrashTypes ==
    ASSUME TypeInv, NEW raw \in Raw, KeepAsCrash(raw)
    PROVE  /\ trace_bits' \in [Byte -> 0 .. 255]
           /\ virgin_crash' \subseteq AllBits /\ crashes' \subseteq AllBits
           /\ saved_crashes' \in 0 .. KeepCrashes
BY RawTraces, CoverageAssumption
   DEF KeepAsCrash, CrashesFull, LookUnless, Seen, TypeInv, TypeOK

LEMMA NextTypes == TypeInv /\ [Next]_vars => TypeInv'
<1>. SUFFICES ASSUME TypeInv, [Next]_vars
              PROVE  TypeInv'
  OBVIOUS
<1>. USE CoverageAssumption
<1>1. CASE CalibrateRun
  <2>. PICK raw \in Raw :
         LET t == classify_counts(raw) IN
         /\ trace_bits' = t
         /\ queue' = [queue EXCEPT ![cal.q].shown = @ \cup Shows(t)]
         /\ cal' = AfterRun(t)
         /\ IF t = cal.first
              THEN UNCHANGED <<virgin_bits, var_bytes>>
              ELSE /\ var_bytes' = var_bytes \cup Unstable(t)
                   /\ virgin_bits' = Discovered(Seen(virgin_bits, t), Unstable(t))
    BY <1>1 DEF CalibrateRun
  <2>1. /\ classify_counts(raw) \in [Byte -> {0} \cup Bits]
        /\ trace_bits' \in [Byte -> 0 .. 255]
        /\ Shows(classify_counts(raw)) \subseteq AllBits
    BY RawTraces
  <2>2. queue' \in Seq(Entry) /\ Len(queue') = Len(queue)
    <3>1. queue \in Seq(Entry) /\ cal.q \in 1 .. Len(queue)
      BY <1>1 DEF CalibrateRun, TypeInv, TypeOK, ControlInv
    <3>. QED
      BY <2>1, <3>1, ShownUpdate
  <2>3. cal' \in Calibration /\ cal'.q = cal.q
    BY <2>1, SMTT(40) DEF AfterRun, TypeInv, TypeOK, Calibration
  <2>4. virgin_bits' \subseteq AllBits /\ var_bytes' \subseteq Byte
    BY DEF TypeInv, TypeOK, Discovered, Seen, Unstable
  <2>5. /\ pc = "calibrate"
        /\ UNCHANGED <<virgin_tmout, virgin_crash, saved, pc, fault, execs,
                       settings>>
    BY <1>1 DEF CalibrateRun
  <2>. QED
    BY <2>1, <2>2, <2>3, <2>4, <2>5 DEF TypeInv, TypeOK, ControlInv, saved
<1>2. CASE CalibrateEnds
  <2>1. /\ queue \in Seq(Entry) /\ cal.q \in 1 .. Len(queue)
        /\ queue' = [queue EXCEPT ![cal.q].cal_failed = 0]
    BY <1>2 DEF CalibrateEnds, TypeInv, TypeOK, ControlInv
  <2>2. queue' \in Seq(Entry) /\ Len(queue') = Len(queue)
    <3>1. 0 \in 0 .. CalChances
      OBVIOUS
    <3>. QED
      BY <2>1, <3>1, FailedUpdate
  <2>3. /\ pc' = "run" \/ pc' = "tmout"
        /\ cal' = Idle
        /\ UNCHANGED <<maps, trace_bits, saved, fault, execs, settings>>
    BY <1>2 DEF CalibrateEnds, AfterCalibration
  <2>. QED
    BY <2>2, <2>3, IdleType DEF TypeInv, TypeOK, ControlInv, maps, saved
<1>3. CASE CalibrateAborts
  <2>1. trace_bits' \in [Byte -> 0 .. 255]
    BY <1>3, RawType DEF CalibrateAborts
  <2>. QED
    BY <1>3, <2>1, IdleType
       DEF CalibrateAborts, AfterCalibration, TypeInv, TypeOK, ControlInv, maps, saved
<1>4. CASE Recalibrate
  <2>. PICK q \in 1 .. Len(queue) :
         /\ queue[q].cal_failed \in 1 .. CalChances - 1
         /\ queue' = Failed(q)
         /\ cal' = Start(q, RetryTrace)
    BY <1>4 DEF Recalibrate
  <2>1. queue' = [queue EXCEPT ![q].cal_failed = queue[q].cal_failed + 1]
    BY DEF Failed
  <2>2. queue' \in Seq(Entry) /\ Len(queue') = Len(queue)
    <3>1. queue[q].cal_failed + 1 \in 0 .. CalChances
      OBVIOUS
    <3>2. queue \in Seq(Entry)
      BY DEF TypeInv, TypeOK
    <3>. QED
      BY <2>1, <3>1, <3>2, FailedUpdate
  <2>3. cal' \in Calibration /\ cal'.q = q
    <3>1. q \in Nat
      BY DEF TypeInv, TypeOK
    <3>. QED
      BY <3>1, StartType DEF RetryTrace
  <2>4. virgin_bits' = virgin_bits
    BY <1>4 DEF Recalibrate, RetryTrace
  <2>5. /\ pc' = "calibrate" /\ fault' = "ok"
        /\ UNCHANGED <<virgin_tmout, virgin_crash, var_bytes, trace_bits, saved,
                       execs, settings>>
    BY <1>4 DEF Recalibrate
  <2>. QED
    BY <2>2, <2>3, <2>4, <2>5, ZenonT(40) DEF TypeInv, TypeOK, ControlInv, saved, Outcome
<1>5. CASE ExecOk
  <2>. PICK raw \in Raw :
         IF NewBits(virgin_bits, classify_counts(raw)) # {}
           THEN Save(raw)
           ELSE trace_bits' = raw /\ UNCHANGED <<virgin_bits, queue, cal, pc>>
    BY <1>5 DEF ExecOk
  <2>1. CASE Save(raw)
    BY <1>5, <2>1, SaveTypes DEF ExecOk, TypeInv, TypeOK, ControlInv, saved, Outcome
  <2>2. CASE trace_bits' = raw /\ UNCHANGED <<virgin_bits, queue, cal, pc>>
    <3>1. trace_bits' \in [Byte -> 0 .. 255]
      BY <2>2, RawType
    <3>2. /\ pc = "run" /\ execs < MaxExecs /\ execs' = execs + 1 /\ fault' = "ok"
          /\ UNCHANGED <<virgin_tmout, virgin_crash, var_bytes, saved, settings>>
      BY <1>5 DEF ExecOk
    <3>. QED
      BY <2>2, <3>1, <3>2 DEF TypeInv, TypeOK, ControlInv, saved, Outcome
  <2>. QED
    BY <2>1, <2>2
<1>6. CASE ExecCrash
  BY <1>6, KeepAsCrashTypes DEF ExecCrash, TypeInv, TypeOK, ControlInv, Outcome
<1>7. CASE ExecTmout
  <2>1. trace_bits' \in [Byte -> 0 .. 255]
    BY <1>7, RawType DEF ExecTmout
  <2>. QED
    BY <1>7, <2>1 DEF ExecTmout, TypeInv, TypeOK, ControlInv, maps, saved, Outcome
<1>8. CASE TmoutCase
  <2>. DEFINE t == simplify_trace(trace_bits)
  <2>1. t \in [Byte -> {1, 128}] /\ t \in [Byte -> {0} \cup Bits]
    BY SimplifiedType, BitsType
  <2>2. t \in [Byte -> 0 .. 255] /\ Shows(t) \subseteq AllBits
    BY <2>1, ShowsType, BitsType
  <2>. HIDE DEF t
  <2>. QED
    BY <1>8, <2>1, <2>2
       DEF TmoutCase, t, KeepHang, LookUnless, Seen, TypeInv, TypeOK, ControlInv
<1>9. CASE RerunTmout
  <2>1. trace_bits' \in [Byte -> 0 .. 255]
    BY <1>9, RawType DEF RerunTmout
  <2>2. Shows(trace_bits) \subseteq AllBits
    BY <1>9, ShowsType, BitsType DEF RerunTmout, TypeInv, ControlInv
  <2>. QED
    BY <1>9, <2>1, <2>2
       DEF RerunTmout, KeepHang, TypeInv, TypeOK, ControlInv, maps
<1>10. CASE RerunCrash
  BY <1>10, KeepAsCrashTypes DEF RerunCrash, TypeInv, TypeOK, ControlInv
<1>11. CASE RerunOk
  <2>. PICK raw \in Raw :
         IF settings.keep_timeouts
           THEN Save(raw)
           ELSE /\ trace_bits' = raw /\ pc' = "run"
                /\ UNCHANGED <<virgin_bits, queue, cal>>
    BY <1>11 DEF RerunOk
  <2>1. CASE Save(raw)
    BY <1>11, <2>1, SaveTypes DEF RerunOk, TypeInv, TypeOK, ControlInv, saved
  <2>2. CASE /\ trace_bits' = raw /\ pc' = "run"
             /\ UNCHANGED <<virgin_bits, queue, cal>>
    BY <1>11, <2>2, RawType DEF RerunOk, TypeInv, TypeOK, ControlInv, saved
  <2>. QED
    BY <2>1, <2>2
<1>12. CASE Done \/ UNCHANGED vars
  <2>1. UNCHANGED vars
    BY <1>12 DEF Done
  <2>. QED
    BY <2>1 DEF vars, maps, saved, TypeInv, TypeOK, ControlInv
<1>. QED
  BY <1>1, <1>2, <1>3, <1>4, <1>5, <1>6, <1>7, <1>8, <1>9, <1>10, <1>11, <1>12
     DEF Next

\* The maps, counters and queue of afl-fuzz keep their types, and the limits on
\* saved crashes and hangs (afl-fuzz-bitmap.c) are never exceeded.
THEOREM CoverageTypeCorrect == Spec => []TypeOK
<1>1. Spec => []TypeInv
  BY InitTypes, NextTypes, PTL DEF Spec
<1>2. TypeInv => TypeOK
  BY DEF TypeInv
<1>. QED
  BY <1>1, <1>2, PTL

-----------------------------------------------------------------------------
(* The virgin map of normal runs                                           *)

\* VirginMapSound is kept by a step after which every bit that left the map is
\* shown by an entry or belongs to an unstable byte, no entry shows less, and
\* the bytes that became unstable have left the map.
LEMMA VirginStep ==
    ASSUME VirginMapSound,
           virgin_bits' \subseteq virgin_bits, var_bytes \subseteq var_bytes',
           Len(queue) \in Nat, Len(queue') \in Nat, Len(queue) <= Len(queue'),
           \A p \in 1 .. Len(queue) : queue[p].shown \subseteq queue'[p].shown,
           \A v \in virgin_bits \ virgin_bits' :
               \/ v[1] \in var_bytes'
               \/ \E q \in 1 .. Len(queue') : v \in queue'[q].shown,
           \A v \in virgin_bits' : v[1] \notin var_bytes' \ var_bytes
    PROVE  VirginMapSound'
<1>1. QueueShowsCoverage'
  <2>. SUFFICES ASSUME NEW v \in AllBits \ virgin_bits'
                PROVE  \/ v[1] \in var_bytes'
                       \/ \E q \in 1 .. Len(queue') : v \in queue'[q].shown
    BY DEF QueueShowsCoverage, AllBits, Byte
  <2>1. CASE v \in virgin_bits
    BY <2>1
  <2>2. CASE v \notin virgin_bits
    <3>1. \/ v[1] \in var_bytes
          \/ \E q \in 1 .. Len(queue) : v \in queue[q].shown
      BY <2>2 DEF VirginMapSound, QueueShowsCoverage
    <3>. QED
      BY <3>1
  <2>. QED
    BY <2>1, <2>2
<1>2. UnstableSettled'
  BY DEF UnstableSettled, VirginMapSound
<1>. QED
  BY <1>1, <1>2 DEF VirginMapSound

\* The new entry of save_to_queue shows the bits it takes out of the map.
LEMMA SaveVirgin ==
    ASSUME TypeInv, VirginMapSound, NEW raw \in Raw, Save(raw),
           UNCHANGED var_bytes
    PROVE  VirginMapSound'
<1>. DEFINE t == classify_counts(raw)
            e == [cal_failed |-> 1, shown |-> Shows(t)]
<1>1. /\ queue' = Append(queue, e) /\ Len(queue) < MaxItems
      /\ virgin_bits' = virgin_bits \ Shows(t)
  BY DEF Save, Seen
<1>. HIDE DEF t
<1>2. e \in Entry /\ e.shown = Shows(t)
  BY RawTraces, CoverageAssumption DEF Entry, t
<1>3. queue \in Seq(Entry)
  BY DEF TypeInv, TypeOK
<1>4. /\ Len(queue) \in Nat /\ Len(queue') = Len(queue) + 1
      /\ \A p \in 1 .. Len(queue) : queue'[p] = queue[p]
      /\ queue'[Len(queue')] = e
  BY <1>1, <1>2, <1>3
<1>. HIDE DEF e
<1>5. \A v \in virgin_bits \ virgin_bits' :
         \E q \in 1 .. Len(queue') : v \in queue'[q].shown
  BY <1>1, <1>2, <1>4
<1>. QED
  BY <1>1, <1>4, <1>5, VirginStep

LEMMA VirginUnchanged ==
    ASSUME VirginMapSound, UNCHANGED <<virgin_bits, var_bytes, queue>>
    PROVE  VirginMapSound'
BY DEF VirginMapSound, QueueShowsCoverage, UnstableSettled

LEMMA InitVirgin == Init => VirginMapSound
BY DEF Init, VirginMapSound, QueueShowsCoverage, UnstableSettled

LEMMA NextVirgin == TypeInv /\ VirginMapSound /\ [Next]_vars => VirginMapSound'
<1>. SUFFICES ASSUME TypeInv, VirginMapSound, [Next]_vars
              PROVE  VirginMapSound'
  OBVIOUS
<1>. USE CoverageAssumption
<1>0. queue \in Seq(Entry)
  BY DEF TypeInv, TypeOK
<1>1. CASE CalibrateRun
  <2>. PICK raw \in Raw :
         LET t == classify_counts(raw) IN
         /\ queue' = [queue EXCEPT ![cal.q].shown = @ \cup Shows(t)]
         /\ IF t = cal.first
              THEN UNCHANGED <<virgin_bits, var_bytes>>
              ELSE /\ var_bytes' = var_bytes \cup Unstable(t)
                   /\ virgin_bits' = Discovered(Seen(virgin_bits, t), Unstable(t))
    BY <1>1 DEF CalibrateRun
  <2>. DEFINE t == classify_counts(raw)
  <2>1. /\ cal.q \in 1 .. Len(queue) /\ Shows(t) \subseteq AllBits
        /\ queue' = [queue EXCEPT ![cal.q].shown = @ \cup Shows(t)]
    BY <1>1, RawTraces DEF CalibrateRun, TypeInv, ControlInv
  <2>2. \/ UNCHANGED <<virgin_bits, var_bytes>>
        \/ /\ var_bytes' = var_bytes \cup Unstable(t)
           /\ virgin_bits' = Discovered(virgin_bits \ Shows(t), Unstable(t))
    BY DEF Seen
  <2>. HIDE DEF t
  <2>3. /\ Len(queue) \in Nat /\ Len(queue') = Len(queue)
        /\ \A p \in 1 .. Len(queue) : queue[p].shown \subseteq queue'[p].shown
        /\ Shows(t) \subseteq queue'[cal.q].shown
    <3>1. Shows(t) \in SUBSET AllBits
      BY <2>1
    <3>2. Len(queue) \in Nat
      BY <1>0
    <3>. QED
      BY <1>0, <2>1, <3>1, <3>2, ShownUpdate
  <2>4. /\ virgin_bits' \subseteq virgin_bits /\ var_bytes \subseteq var_bytes'
        /\ \A v \in virgin_bits' : v[1] \notin var_bytes' \ var_bytes
        /\ \A v \in virgin_bits \ virgin_bits' :
               v[1] \in var_bytes' \/ v \in Shows(t)
    BY <2>2 DEF Discovered
  <2>. QED
    BY <2>1, <2>3, <2>4, VirginStep
<1>2. CASE CalibrateEnds
  <2>1. /\ cal.q \in 1 .. Len(queue) /\ UNCHANGED <<virgin_bits, var_bytes>>
        /\ queue' = [queue EXCEPT ![cal.q].cal_failed = 0]
    BY <1>2 DEF CalibrateEnds, TypeInv, ControlInv, maps
  <2>2. 0 \in 0 .. CalChances
    OBVIOUS
  <2>3. /\ Len(queue) \in Nat /\ Len(queue') = Len(queue)
        /\ \A p \in 1 .. Len(queue) : queue'[p].shown = queue[p].shown
    BY <1>0, <2>1, <2>2, FailedUpdate
  <2>. QED
    BY <2>1, <2>3, VirginStep
<1>3. CASE Recalibrate
  <2>. PICK q \in 1 .. Len(queue) :
         /\ queue[q].cal_failed \in 1 .. CalChances - 1
         /\ queue' = Failed(q)
    BY <1>3 DEF Recalibrate
  <2>1. /\ queue[q].cal_failed + 1 \in 0 .. CalChances
        /\ queue' = [queue EXCEPT ![q].cal_failed = queue[q].cal_failed + 1]
    BY DEF Failed
  <2>2. /\ Len(queue) \in Nat /\ Len(queue') = Len(queue)
        /\ \A p \in 1 .. Len(queue) : queue'[p].shown = queue[p].shown
    BY <1>0, <2>1, FailedUpdate
  <2>3. UNCHANGED <<virgin_bits, var_bytes>>
    BY <1>3 DEF Recalibrate, RetryTrace
  <2>. QED
    BY <2>2, <2>3, VirginStep
<1>4. CASE ExecOk
  <2>. PICK raw \in Raw :
         \/ Save(raw)
         \/ UNCHANGED <<virgin_bits, queue>>
    BY <1>4 DEF ExecOk
  <2>1. UNCHANGED var_bytes
    BY <1>4 DEF ExecOk
  <2>. QED
    BY <2>1, SaveVirgin, VirginUnchanged
<1>5. CASE RerunOk
  <2>. PICK raw \in Raw :
         \/ Save(raw)
         \/ UNCHANGED <<virgin_bits, queue>>
    BY <1>5 DEF RerunOk
  <2>1. UNCHANGED var_bytes
    BY <1>5 DEF RerunOk
  <2>. QED
    BY <2>1, SaveVirgin, VirginUnchanged
<1>6. CASE \/ CalibrateAborts \/ ExecCrash \/ ExecTmout \/ TmoutCase
           \/ RerunTmout \/ RerunCrash \/ Done \/ UNCHANGED vars
  <2>1. UNCHANGED <<virgin_bits, var_bytes, queue>>
    BY <1>6 DEF CalibrateAborts, ExecCrash, ExecTmout, TmoutCase, RerunTmout,
                RerunCrash, Done, vars, maps
  <2>. QED
    BY <2>1, VirginUnchanged
<1>. QED
  BY <1>1, <1>2, <1>3, <1>4, <1>5, <1>6 DEF Next

\* No coverage is lost: whatever calibrate_case and save_if_interesting take out
\* of virgin_bits (has_new_bits, afl-fuzz-run.c:666-683) is shown by a queue
\* entry or belongs to a byte that var_bytes calls unstable, and an unstable
\* byte never again makes an input interesting, however often entries are
\* calibrated again and whichever trace is left in trace_bits.
THEOREM VirginMapCorrect == Spec => []VirginMapSound
<1>1. Spec => []TypeInv
  BY InitTypes, NextTypes, PTL DEF Spec
<1>. QED
  BY <1>1, InitVirgin, NextVirgin, PTL DEF Spec

-----------------------------------------------------------------------------
(* The signatures of crashes and hangs                                     *)

\* A trace without news leaves a virgin map as it is.
LEMMA NoNews ==
    ASSUME NEW virgin, NEW t, NewBits(virgin, t) = {}
    PROVE  Seen(virgin, t) = virgin
BY DEF NewBits, Seen

\* What a look at a virgin map takes out of it, the file that is kept shows.
LEMMA LookKept ==
    ASSUME NEW full \in BOOLEAN, NEW virgin, NEW t, NEW kept, NEW new_kept,
           AllBits \ virgin \subseteq kept,
           new_kept = IF ~full /\ NewBits(virgin, t) # {}
                        THEN kept \cup Shows(t) ELSE kept
    PROVE  AllBits \ LookUnless(full, virgin, t) \subseteq new_kept
<1>1. CASE ~full /\ NewBits(virgin, t) # {}
  BY <1>1 DEF LookUnless, Seen
<1>2. CASE full
  BY <1>2 DEF LookUnless
<1>3. CASE ~full /\ NewBits(virgin, t) = {}
  BY <1>3, NoNews DEF LookUnless
<1>. QED
  BY <1>1, <1>2, <1>3

LEMMA KeepAsCrashKept ==
    ASSUME CrashesKept, NEW raw, KeepAsCrash(raw)
    PROVE  CrashesKept'
<1>. DEFINE t == simplify_trace(raw)
<1>1. /\ virgin_crash' = LookUnless(CrashesFull, virgin_crash, t)
      /\ crashes' = IF ~CrashesFull /\ NewBits(virgin_crash, t) # {}
                      THEN crashes \cup Shows(t) ELSE crashes
  BY DEF KeepAsCrash
<1>2. CrashesFull \in BOOLEAN
  BY DEF CrashesFull
<1>. HIDE DEF t
<1>3. AllBits \ virgin_crash \subseteq crashes
  BY DEF CrashesKept
<1>. QED
  BY <1>1, <1>2, <1>3, LookKept DEF CrashesKept, AllBits, Byte

LEMMA InitSignatures == Init => SignaturesKept
BY DEF Init, SignaturesKept, CrashesKept, HangsKept

LEMMA NextSignatures == SignaturesKept /\ [Next]_vars => SignaturesKept'
<1>. SUFFICES ASSUME SignaturesKept, [Next]_vars
              PROVE  CrashesKept' /\ HangsKept'
  BY DEF SignaturesKept
<1>0. CrashesKept /\ HangsKept
  BY DEF SignaturesKept
<1>1. CASE ExecCrash \/ RerunCrash
  <2>1. CrashesKept'
    BY <1>0, <1>1, KeepAsCrashKept DEF ExecCrash, RerunCrash
  <2>2. UNCHANGED <<virgin_tmout, hangs, settings>>
    BY <1>1 DEF ExecCrash, RerunCrash
  <2>. QED
    BY <1>0, <2>1, <2>2 DEF HangsKept
<1>2. CASE TmoutCase
  <2>. DEFINE t == simplify_trace(trace_bits)
              full == saved_hangs >= KeepHangs
  <2>1. /\ virgin_tmout' = LookUnless(full, virgin_tmout, t)
        /\ UNCHANGED <<virgin_crash, crashes, settings>>
        /\ ~settings.rerun =>
             hangs' = IF ~full /\ NewBits(virgin_tmout, t) # {}
                        THEN hangs \cup Shows(t) ELSE hangs
    BY <1>2 DEF TmoutCase, KeepHang
  <2>2. full \in BOOLEAN
    OBVIOUS
  <2>. HIDE DEF t, full
  <2>3. ASSUME ~settings.rerun
        PROVE  AllBits \ virgin_tmout' \subseteq hangs'
    <3>1. AllBits \ virgin_tmout \subseteq hangs
      BY <1>0, <2>3 DEF HangsKept
    <3>. QED
      BY <2>1, <2>2, <2>3, <3>1, LookKept
  <2>. QED
    BY <1>0, <2>1, <2>3 DEF HangsKept, CrashesKept
<1>3. CASE RerunTmout
  <2>1. hangs \subseteq hangs' /\ UNCHANGED <<virgin_tmout, virgin_crash, crashes, settings>>
    BY <1>3 DEF RerunTmout, KeepHang, maps
  <2>. QED
    BY <1>0, <2>1 DEF HangsKept, CrashesKept
<1>4. CASE \/ CalibrateRun \/ CalibrateEnds \/ CalibrateAborts \/ Recalibrate
           \/ ExecOk \/ ExecTmout \/ RerunOk \/ Done \/ UNCHANGED vars
  <2>1. UNCHANGED <<virgin_tmout, virgin_crash, crashes, hangs, settings>>
    BY <1>4 DEF CalibrateRun, CalibrateEnds, CalibrateAborts, Recalibrate,
                ExecOk, ExecTmout, RerunOk, Done, vars, maps, saved
  <2>. QED
    BY <1>0, <2>1 DEF HangsKept, CrashesKept
<1>. QED
  BY <1>1, <1>2, <1>3, <1>4 DEF Next

\* The signature of a crash is used up only together with its file
\* (keep_as_crash looks at virgin_crash only below KEEP_UNIQUE_CRASH), and so is
\* the signature of a hang while timeouts are not run again.
THEOREM SignaturesCorrect == Spec => []SignaturesKept
BY InitSignatures, NextSignatures, PTL DEF Spec
=============================================================================
