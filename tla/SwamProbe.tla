----------------------------- MODULE SwamProbe -----------------------------
(***************************************************************************)
(* One exploit module from swam_instantiate_scenario to the verdict: the   *)
(* memory is made fit for the scenario, the probe (swam_build_probe) sets  *)
(* marker "before", computes an address from memory.size, performs the     *)
(* target instruction and sets marker "after".  The runtime under test     *)
(* executes the module; at every target instruction it may do what Wasm    *)
(* specifies (SpecTraps) or deviate from it, which the history variable    *)
(* deviations records.                                                     *)
(*                                                                         *)
(* Addresses are integers modulo AddressSpace: 2^32, or 2^64 for a         *)
(* memory64 memory, in both cases PageSize times the largest page count.   *)
(***************************************************************************)
EXTENDS SwamCatalog

CONSTANTS
  PageSize,         \* SWAM_PAGE_SIZE_BYTES, 65536
  MaxPages,         \* most pages Wasm allows: 2^16, or 2^48 for memory64
  EnginePages,      \* most pages the runtime under test provides
  DefaultMaximum,   \* 256, the maximum given to a memory made shared
  InitialPages,     \* initial memory sizes of the modules considered
  NoMemory          \* the module has no memory

ASSUME ProbeAssumption ==
  /\ PageSize \in Nat \ {0}
  /\ PageSize % 32 = 0
  /\ MaxPages \in Nat \ {0}
  /\ EnginePages \in 0..MaxPages
  /\ DefaultMaximum \in 0..MaxPages
  /\ InitialPages \subseteq 0..MaxPages

AddressSpace == PageSize * MaxPages

\* The maximum of a memory without one: (BinaryenIndex)-1.
NoMaximum == MaxPages + 1

Memory == [pages : 0..MaxPages, maximum : 0..NoMaximum, shared : BOOLEAN]

ASSUME NoMemoryAssumption == NoMemory \notin Memory

VARIABLES
  scenario,         \* the scenario the probe is built for
  memory,           \* the module's first memory
  before, after,    \* the marker globals hold the scenario's id, or 0
  addr,             \* the local the probe keeps its address in
  pc,               \* the fuzzer's progress, then the execution's
  deviations        \* history: how the runtime violated the specification

vars == <<scenario, memory, before, after, addr, pc, deviations>>

TypeOK ==
  /\ scenario \in swam_scenario_catalog
  /\ memory \in Memory \cup {NoMemory}
  /\ before \in BOOLEAN
  /\ after \in BOOLEAN
  /\ addr \in 0..(AddressSpace - 1)
  /\ pc \in {"instantiate", "load", "code", "address", "access", "after",
             "trapped", "end"}
  /\ deviations \in SUBSET {"bypass", "false_trap"}

-----------------------------------------------------------------------------
(***************************************************************************)
(* The module before it runs.                                              *)
(***************************************************************************)
\* wasm_set_memory on a module without memory.
wasm_set_memory == [pages |-> 1, maximum |-> NoMaximum, shared |-> FALSE]

\* The memory is redefined as shared unless it is shared already; the initial
\* size is kept, and a missing maximum is supplied.
swam_ensure_shared_memory(m) ==
  [pages   |-> m.pages,
   shared  |-> TRUE,
   maximum |-> IF m.maximum # NoMaximum THEN m.maximum
               ELSE IF m.pages > DefaultMaximum THEN m.pages
               ELSE DefaultMaximum]

\* What instantiation makes of memory m for scenario s.
PreparedMemory(s, m) ==
  LET own == IF m = NoMemory THEN wasm_set_memory ELSE m
  IN IF s.op_class \in AtomicOps THEN swam_ensure_shared_memory(own) ELSE own

\* Memories a valid module can have.
ValidMemory ==
  {m \in Memory : /\ m.pages \in InitialPages
                  /\ m.pages <= m.maximum
                  /\ m.maximum = NoMaximum => ~m.shared}

-----------------------------------------------------------------------------
(***************************************************************************)
(* The probe's code.  Arithmetic is modulo AddressSpace.                   *)
(***************************************************************************)
swam_build_memory_bytes(pages) == (pages * PageSize) % AddressSpace

Plus(a, b)  == (a + b) % AddressSpace
Minus(a, b) == (a - b) % AddressSpace

\* Mutant: the overflow base is kept as a negative number.
BaseAddressSigned(s, pages) ==
  IF s.wrap = "OVERFLOW" THEN 0 - s.access_width
  ELSE Minus(swam_build_memory_bytes(pages), s.access_width)

swam_build_base_address(s, pages) ==
  LET bytes == swam_build_memory_bytes(pages)
      w     == s.access_width
  IN IF s.op_class = "MEMORY_GROW" \/ w = 0 THEN 0
     ELSE IF s.wrap = "OVERFLOW" THEN Minus(0, w)
     ELSE IF s.align = "ALIGNED" /\ s.layout = "OOB" THEN bytes
     ELSE IF s.align = "MISALIGNED" THEN
       CASE s.layout = "INTERIOR" -> Plus(bytes \div 2, 1)
         [] s.layout = "BOUNDARY" -> Minus(Minus(bytes, w), 1)
         [] s.layout = "OOB"      -> Plus(Minus(bytes, w), 1)
     ELSE
       CASE s.layout = "INTERIOR" -> bytes \div 2
         [] s.layout = "BOUNDARY" -> Minus(bytes, w)
         [] s.layout = "OOB"      -> Plus(Minus(bytes, w), 1)

\* The static offset and length of the access swam_build_target_op emits.
StaticOffset(s) == IF s.wrap = "OVERFLOW" THEN s.access_width ELSE 0

AccessLength(s) ==
  CASE s.op_class \in BulkOps      -> 1
    [] s.op_class = "SIMD_STORE"   -> 16
    [] OTHER                       -> s.access_width

-----------------------------------------------------------------------------
(***************************************************************************)
(* The runtime and the harness, which are not in this repository.          *)
(***************************************************************************)
\* Wasm's rule for the emitted instruction with address operand a: the
\* effective address is not reduced; an atomic access must be aligned; a wait
\* needs a shared memory; memory.copy also reads its source, byte 0.
SpecTraps(s, a, m) ==
  /\ s.op_class # "MEMORY_GROW"
  /\ LET ea == a + StaticOffset(s)
     IN \/ ea + AccessLength(s) > m.pages * PageSize
        \/ s.op_class \in AtomicOps /\ ea % s.access_width # 0
        \/ s.op_class = "ATOMIC_WAIT" /\ ~m.shared
        \/ s.op_class = "BULK_COPY" /\ m.pages = 0

\* The effect of memory.grow 1, which a runtime may always refuse.
Grown(m) ==
  IF m.pages < EnginePages /\ m.pages < m.maximum
    THEN {m, [m EXCEPT !.pages = @ + 1]} ELSE {m}

-----------------------------------------------------------------------------
\* The verdict swam_oracle_check reaches from the markers.
Verdict ==
  CASE ~before -> "none"
    [] before /\ scenario.expected = "UNKNOWN" ->
         IF after THEN "unknown_notrap" ELSE "unknown_trap"
    [] before /\ scenario.expected = "TRAP" ->
         IF after THEN "bypass" ELSE "none"
    [] before /\ scenario.expected = "NO_TRAP" ->
         IF after THEN "none" ELSE "false_trap"

-----------------------------------------------------------------------------
Init ==
  /\ scenario \in swam_scenario_catalog
  /\ memory \in ValidMemory \cup {NoMemory}
  /\ before = FALSE
  /\ after = FALSE
  /\ addr = 0
  /\ pc = "instantiate"
  /\ deviations = {}

\* Mutant: atomics are probed on whatever memory the module has.
InstantiateUnshared ==
  /\ pc = "instantiate"
  /\ memory' = IF memory = NoMemory THEN wasm_set_memory ELSE memory
  /\ pc' = "load"
  /\ UNCHANGED <<scenario, before, after, addr, deviations>>

\* swam_instantiate_scenario; a failure discards the clone.  Probes that
\* failed attempts left in the module are copies of the one that counts: they
\* are further places where the module's code reaches the probe.
swam_instantiate_scenario ==
  /\ pc = "instantiate"
  /\ \/ memory' = PreparedMemory(scenario, memory) /\ pc' = "load"
     \/ UNCHANGED memory /\ pc' = "end"
  /\ UNCHANGED <<scenario, before, after, addr, deviations>>

\* The runtime instantiates the module if it can provide its memory.
Load ==
  /\ pc = "load"
  /\ pc' = IF memory.pages <= EnginePages THEN "code" ELSE "end"
  /\ UNCHANGED <<scenario, memory, before, after, addr, deviations>>

\* The module's own code.
Code ==
  /\ pc = "code"
  /\ memory' \in Grown(memory)
  /\ UNCHANGED <<scenario, before, after, addr, pc, deviations>>

\* Mutant: the first child of the probe is left out.
EnterUnmarked ==
  /\ pc = "code"
  /\ pc' = "address"
  /\ UNCHANGED <<scenario, memory, before, after, addr, deviations>>

\* The four children of the probe block.
SetBefore ==
  /\ pc = "code"
  /\ before' = TRUE
  /\ pc' = "address"
  /\ UNCHANGED <<scenario, memory, after, addr, deviations>>

SetAddress ==
  /\ pc = "address"
  /\ addr' = swam_build_base_address(scenario, memory.pages)
  /\ pc' = "access"
  /\ UNCHANGED <<scenario, memory, before, after, deviations>>

AccessTraps ==
  /\ pc = "access"
  /\ deviations' = IF SpecTraps(scenario, addr, memory) THEN deviations
                   ELSE deviations \cup {"false_trap"}
  /\ pc' = "trapped"
  /\ UNCHANGED <<scenario, memory, before, after, addr>>

AccessCompletes ==
  /\ pc = "access"
  /\ deviations' = IF SpecTraps(scenario, addr, memory)
                     THEN deviations \cup {"bypass"} ELSE deviations
  /\ memory' \in IF scenario.op_class = "MEMORY_GROW" THEN Grown(memory)
                 ELSE {memory}
  /\ pc' = "after"
  /\ UNCHANGED <<scenario, before, after, addr>>

SetAfter ==
  /\ pc = "after"
  /\ after' = TRUE
  /\ pc' = "code"
  /\ UNCHANGED <<scenario, memory, before, addr, deviations>>

\* After a trap the harness may call another export of the same instance.
NextCall ==
  /\ pc = "trapped"
  /\ pc' = "code"
  /\ UNCHANGED <<scenario, memory, before, after, addr, deviations>>

\* The harness is done and reports the markers.
Finish ==
  /\ pc \in {"code", "trapped"}
  /\ pc' = "end"
  /\ UNCHANGED <<scenario, memory, before, after, addr, deviations>>

Probe == SetBefore \/ SetAddress \/ AccessTraps \/ AccessCompletes \/ SetAfter

Next ==
  \/ swam_instantiate_scenario
  \/ Load
  \/ Code
  \/ Probe
  \/ NextCall
  \/ Finish

Spec == Init /\ [][Next]_vars

-----------------------------------------------------------------------------
(***************************************************************************)
(* Properties.                                                             *)
(***************************************************************************)
\* A runtime that follows the specification is never reported: the expected
\* column and the addresses swam_build_base_address computes agree with Wasm's
\* trap rule for every scenario and memory size the probe meets, however often
\* it is executed (swam_probe.c:168-267, swam_scenarios.h:282-625).
NoFalseAlarm ==
  pc = "end" =>
    /\ Verdict = "bypass" => "bypass" \in deviations
    /\ Verdict = "false_trap" => "false_trap" \in deviations

\* A deviation is reported: a missing trap always, an undue one unless another
\* execution of the same probe completed and set the second marker
\* (swam_probe.c:495-509, wasm_mutators.c:330-371).
DeviationReported ==
  pc = "end" =>
    /\ "bypass" \in deviations => Verdict = "bypass"
    /\ "false_trap" \in deviations =>
         after \/ Verdict \in {"false_trap", "unknown_trap"}

\* "Expected specification outcome." (swam_scenarios.h:162): when the target
\* instruction is about to execute, the specification makes it trap exactly if
\* the catalog says so.
ExpectedIsSpec ==
  pc = "access" /\ scenario.expected # "UNKNOWN" =>
    (scenario.expected = "TRAP" <=> SpecTraps(scenario, addr, memory))
=============================================================================
