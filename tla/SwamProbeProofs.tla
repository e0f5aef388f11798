-------------------------- MODULE SwamProbeProofs --------------------------
(***************************************************************************)
(* Proofs about SwamProbe for every page size that is a multiple of 32,    *)
(* every address space and every memory: the catalog's expected column is  *)
(* Wasm's trap rule as long as the memory is neither empty nor fills the   *)
(* address space, so a conforming runtime is never reported.               *)
(***************************************************************************)
EXTENDS SwamProbe, TLAPS

-----------------------------------------------------------------------------
(***************************************************************************)
(* The shapes of the catalog's rows.                                       *)
(***************************************************************************)
PlainRow(s) ==
  /\ s.align = "NA" /\ s.wrap = "NO_WRAP" /\ s.access_width \in {1, 2, 4, 8, 16}
  /\ s.layout = "OOB" <=> s.expected = "TRAP"
  /\ s.op_class \in AtomicOps => s.access_width = 1 /\ s.op_class # "ATOMIC_WAIT"

OverflowRow(s) ==
  /\ s.wrap = "OVERFLOW" /\ s.access_width \in {1, 2, 4, 8, 16}
  /\ s.layout = "INTERIOR" /\ s.expected = "TRAP"

AlignedRow(s) ==
  /\ s.align = "ALIGNED" /\ s.wrap = "NO_WRAP" /\ s.access_width \in {2, 4, 8}
  /\ s.layout = "OOB" <=> s.expected = "TRAP"
  /\ s.op_class \in AtomicOps

MisalignedRow(s) ==
  /\ s.align = "MISALIGNED" /\ s.wrap = "NO_WRAP" /\ s.access_width \in {2, 4, 8}
  /\ s.expected = "TRAP"
  /\ s.op_class \in AtomicOps

AccessRow(s) ==
  /\ s.op_class \in OpClass \ {"MEMORY_GROW"}
  /\ s.layout \in {"INTERIOR", "BOUNDARY", "OOB"}
  /\ s.expected \in {"TRAP", "NO_TRAP"}
  /\ AccessLength(s) = s.access_width
  /\ PlainRow(s) \/ OverflowRow(s) \/ AlignedRow(s) \/ MisalignedRow(s)

GrowRow(s) ==
  /\ s.op_class = "MEMORY_GROW" /\ s.expected = "UNKNOWN"
  /\ s.access_width = 0 /\ s.layout \in {"INTERIOR", "BOUNDARY", "OOB"}

\* Every row of the catalog accesses memory in one of four shapes, or is a
\* memory.grow row without specified outcome (swam_scenarios.h:217-625).
LEMMA CatalogRows ==
  ASSUME NEW s \in swam_scenario_catalog
  PROVE  AccessRow(s) \/ GrowRow(s)
<1> USE DEF SWAM_SCENARIO_ENTRY, AccessRow, PlainRow, OverflowRow, AlignedRow,
            MisalignedRow, AccessLength, OpClass, CoreOps, AtomicOps, SimdOps,
            BulkOps
<1>1. ASSUME NEW c \in {"LOAD", "STORE", "SIMD_LOAD", "SIMD_LOAD_LANE",
                        "SIMD_STORE_LANE"} \cup BulkOps,
             NEW w \in {1, 2, 4, 8, 16}, c \in BulkOps => w = 1,
             s \in SWAM_LAYOUT_SCENARIOS(c, w) \cup SWAM_OVERFLOW_SCENARIO(c, w)
      PROVE  AccessRow(s)
  BY <1>1 DEF SWAM_LAYOUT_SCENARIOS, SWAM_OVERFLOW_SCENARIO
<1>2. ASSUME s \in SWAM_LAYOUT_SCENARIOS("SIMD_STORE", 16)
                     \cup SWAM_OVERFLOW_SCENARIO("SIMD_STORE", 16)
      PROVE  AccessRow(s)
  BY <1>2 DEF SWAM_LAYOUT_SCENARIOS, SWAM_OVERFLOW_SCENARIO
<1>3. CASE s \in ScalarScenarios \cup SimdScenarios
  BY <1>1, <1>2, <1>3 DEF ScalarScenarios, SimdScenarios, AccessRows
<1>4. ASSUME NEW c \in AtomicOps \ {"ATOMIC_WAIT"}, s \in SWAM_ATOMIC_W1_SCENARIOS(c)
      PROVE  AccessRow(s)
  BY <1>4 DEF SWAM_ATOMIC_W1_SCENARIOS, SWAM_LAYOUT_SCENARIOS, SWAM_OVERFLOW_SCENARIO
<1>5. ASSUME NEW c \in AtomicOps, NEW w \in {2, 4, 8},
             s \in SWAM_ATOMIC_ALIGN_SCENARIOS(c, w)
      PROVE  AccessRow(s)
  BY <1>5 DEF SWAM_ATOMIC_ALIGN_SCENARIOS
<1>6. CASE s \in AtomicLoadStoreScenarios \cup AtomicRmwScenarios
                   \cup AtomicCmpxchgScenarios \cup WaitNotifyScenarios
  BY <1>4, <1>5, <1>6 DEF AtomicLoadStoreScenarios, AtomicRmwScenarios,
     AtomicCmpxchgScenarios, WaitNotifyScenarios, AlignRows
<1>7. CASE s \in BulkScenarios
  BY <1>1, <1>7 DEF BulkScenarios, SWAM_BULK_SCENARIOS
<1>8. CASE s \in SWAM_MEMORY_GROW_SCENARIOS
  BY <1>8 DEF SWAM_MEMORY_GROW_SCENARIOS, GrowRow
<1> QED
  BY <1>3, <1>6, <1>7, <1>8 DEF swam_scenario_catalog

-----------------------------------------------------------------------------
(***************************************************************************)
(* Addresses.                                                              *)
(***************************************************************************)
\* The address space is a positive number of bytes.
LEMMA AddressSpacePositive == AddressSpace \in Nat /\ AddressSpace > 0
<1>1. PageSize \in Nat /\ PageSize > 0 /\ MaxPages \in Nat /\ MaxPages > 0
  BY ProbeAssumption
<1> QED
  BY <1>1 DEF AddressSpace

\* A memory that is not empty and does not fill the address space: its size is
\* not reduced by the multiplication, and is a multiple of 32
\* (swam_probe.c:153-166).
LEMMA MemoryBytes ==
  ASSUME NEW pages \in Nat, pages > 0, pages < MaxPages
  PROVE  /\ swam_build_memory_bytes(pages) = pages * PageSize
         /\ \E k \in Nat : pages * PageSize = 32 * k
         /\ pages * PageSize >= 32
         /\ pages * PageSize + 32 <= AddressSpace
<1>1. PICK q \in Nat : PageSize = 32 * q /\ q > 0
  BY ProbeAssumption, Z3
<1>2. pages * PageSize = 32 * (pages * q) /\ pages * q \in Nat
  BY <1>1
<1>3. pages * q >= 1
  BY <1>1
<1>4. PICK d \in Nat : MaxPages = pages + d /\ d > 0
  <2>1. MaxPages - pages \in Nat /\ MaxPages - pages > 0
    BY ProbeAssumption
  <2> QED
    BY <2>1, ProbeAssumption
<1>5. AddressSpace = 32 * (pages * q) + 32 * (q * d)
  BY <1>1, <1>4 DEF AddressSpace
<1>6. q * d >= 1 /\ q * d \in Nat
  BY <1>1, <1>4
<1>7. pages * PageSize + 32 <= AddressSpace /\ pages * PageSize >= 32
  BY <1>2, <1>3, <1>5, <1>6
<1>8. pages * PageSize \in Nat
  BY <1>2
<1>9. (pages * PageSize) % AddressSpace = pages * PageSize
  <2>1. ASSUME NEW a \in Nat, NEW b \in Nat, a < b PROVE a % b = a
    BY <2>1
  <2> QED
    BY <2>1, <1>7, <1>8, AddressSpacePositive
<1> QED
  BY <1>2, <1>7, <1>9 DEF swam_build_memory_bytes

\* Reductions modulo the address space that do not change their argument.
LEMMA Unreduced ==
  ASSUME NEW a \in Nat, a < AddressSpace
  PROVE  a % AddressSpace = a
<1>1. ASSUME NEW b \in Nat, a < b PROVE a % b = a
  BY <1>1
<1> QED
  BY <1>1, AddressSpacePositive

\* Every address the probe computes is an address (swam_probe.c:168-267).
LEMMA BaseAddressType ==
  ASSUME NEW s \in swam_scenario_catalog, NEW pages \in Nat
  PROVE  swam_build_base_address(s, pages) \in 0..(AddressSpace - 1)
<1>1. ASSUME NEW a \in Int PROVE a % AddressSpace \in 0..(AddressSpace - 1)
  <2>1. ASSUME NEW b \in Nat, b > 0 PROVE a % b \in 0..(b - 1)
    BY <2>1
  <2> QED
    BY <2>1, AddressSpacePositive
<1>2. pages * PageSize \in Nat
  BY ProbeAssumption
<1> DEFINE bytes == swam_build_memory_bytes(pages)
<1>3. bytes \in 0..(AddressSpace - 1)
  BY <1>1, <1>2 DEF swam_build_memory_bytes
<1>4. s.access_width \in Nat /\ s.layout \in {"INTERIOR", "BOUNDARY", "OOB"}
  BY CatalogRows DEF AccessRow, GrowRow, PlainRow, OverflowRow, AlignedRow,
     MisalignedRow
<1>5. bytes \in Int /\ bytes \div 2 \in 0..(AddressSpace - 1)
  BY <1>3, AddressSpacePositive
<1>6. /\ Minus(0, s.access_width) \in 0..(AddressSpace - 1)
      /\ Minus(bytes, s.access_width) \in 0..(AddressSpace - 1)
      /\ Plus(bytes \div 2, 1) \in 0..(AddressSpace - 1)
  BY <1>1, <1>4, <1>5, AddressSpacePositive DEF Minus, Plus
<1>7. /\ Minus(Minus(bytes, s.access_width), 1) \in 0..(AddressSpace - 1)
      /\ Plus(Minus(bytes, s.access_width), 1) \in 0..(AddressSpace - 1)
  <2>1. Minus(bytes, s.access_width) \in Int
    BY <1>6, AddressSpacePositive
  <2> QED
    BY <1>1, <2>1 DEF Minus, Plus
<1>8. 0 \in 0..(AddressSpace - 1)
  BY AddressSpacePositive
<1> HIDE DEF bytes
<1> QED
  BY <1>3, <1>4, <1>5, <1>6, <1>7, <1>8 DEF swam_build_base_address, bytes

-----------------------------------------------------------------------------
\* A memory the probe may meet: not empty, not the whole address space, and
\* shared if the target instruction is a wait.
Usable(s, m) ==
  /\ m.pages \in 1..(MaxPages - 1)
  /\ s.op_class = "ATOMIC_WAIT" => m.shared

\* The address of every row, in bytes of the memory, without reductions.
LEMMA BaseAddressValue ==
  ASSUME NEW s \in swam_scenario_catalog, NEW pages \in 1..(MaxPages - 1),
         AccessRow(s)
  PROVE  LET bytes == pages * PageSize
             a     == swam_build_base_address(s, pages)
             w     == s.access_width
         IN /\ OverflowRow(s) => a = AddressSpace - w
            /\ PlainRow(s) =>
                 a = CASE s.layout = "INTERIOR" -> bytes \div 2
                       [] s.layout = "BOUNDARY" -> bytes - w
                       [] s.layout = "OOB"      -> bytes - w + 1
            /\ AlignedRow(s) =>
                 a = CASE s.layout = "INTERIOR" -> bytes \div 2
                       [] s.layout = "BOUNDARY" -> bytes - w
                       [] s.layout = "OOB"      -> bytes
            /\ MisalignedRow(s) =>
                 a = CASE s.layout = "INTERIOR" -> bytes \div 2 + 1
                       [] s.layout = "BOUNDARY" -> bytes - w - 1
                       [] s.layout = "OOB"      -> bytes - w + 1
<1> DEFINE bytes == pages * PageSize
           w == s.access_width
<1>1. pages \in Nat /\ pages > 0 /\ pages < MaxPages
  BY ProbeAssumption
<1>2. /\ swam_build_memory_bytes(pages) = bytes
      /\ bytes \in Nat /\ bytes >= 32 /\ bytes + 32 <= AddressSpace
  <2>1. bytes \in Nat
    BY <1>1, ProbeAssumption
  <2> QED
    BY <1>1, <2>1, MemoryBytes
<1>3. w \in 1..16
  BY DEF AccessRow, PlainRow, OverflowRow, AlignedRow, MisalignedRow
<1> HIDE DEF bytes, w
<1>4. Minus(0, w) = AddressSpace - w
  <2>1. ASSUME NEW b \in Nat, w < b PROVE (0 - w) % b = b - w
    BY <1>3, <2>1
  <2>2. w < AddressSpace /\ AddressSpace \in Nat
    BY <1>2, <1>3, AddressSpacePositive
  <2>3. (0 - w) % AddressSpace = AddressSpace - w
    BY <2>1, <2>2
  <2> QED
    BY <2>3 DEF Minus
<1>5. Minus(bytes, w) = bytes - w
  BY <1>2, <1>3, Unreduced, AddressSpacePositive DEF Minus
<1>6. Minus(bytes - w, 1) = bytes - w - 1
  BY <1>2, <1>3, Unreduced, AddressSpacePositive DEF Minus
<1>7. Plus(bytes - w, 1) = bytes - w + 1
  BY <1>2, <1>3, Unreduced, AddressSpacePositive DEF Plus
<1>8. Plus(bytes \div 2, 1) = bytes \div 2 + 1
  BY <1>2, Unreduced, AddressSpacePositive DEF Plus
<1>9. s.op_class # "MEMORY_GROW" /\ s.layout \in {"INTERIOR", "BOUNDARY", "OOB"}
  BY DEF AccessRow
<1>10. w # 0
  BY <1>3
<1>11. OverflowRow(s) => swam_build_base_address(s, pages) = AddressSpace - w
  BY <1>4, <1>9, <1>10 DEF OverflowRow, swam_build_base_address, w
<1>12. PlainRow(s) =>
         swam_build_base_address(s, pages) =
           CASE s.layout = "INTERIOR" -> bytes \div 2
             [] s.layout = "BOUNDARY" -> bytes - w
             [] s.layout = "OOB"      -> bytes - w + 1
  BY <1>2, <1>5, <1>7, <1>9, <1>10 DEF PlainRow, swam_build_base_address, w
<1>13. AlignedRow(s) =>
         swam_build_base_address(s, pages) =
           CASE s.layout = "INTERIOR" -> bytes \div 2
             [] s.layout = "BOUNDARY" -> bytes - w
             [] s.layout = "OOB"      -> bytes
  BY <1>2, <1>5, <1>9, <1>10 DEF AlignedRow, swam_build_base_address, w
<1>14. MisalignedRow(s) =>
         swam_build_base_address(s, pages) =
           CASE s.layout = "INTERIOR" -> bytes \div 2 + 1
             [] s.layout = "BOUNDARY" -> bytes - w - 1
             [] s.layout = "OOB"      -> bytes - w + 1
  BY <1>2, <1>5, <1>6, <1>7, <1>8, <1>9, <1>10
     DEF MisalignedRow, swam_build_base_address, w
<1> QED
  BY <1>11, <1>12, <1>13, <1>14 DEF bytes, w

\* The expected column is the specification's outcome at the address the probe
\* computes (swam_scenarios.h:162, swam_probe.c:168-267).
LEMMA ExpectedMatchesSpec ==
  ASSUME NEW s \in swam_scenario_catalog, NEW m \in Memory, Usable(s, m),
         s.expected # "UNKNOWN"
  PROVE  s.expected = "TRAP"
           <=> SpecTraps(s, swam_build_base_address(s, m.pages), m)
<1> DEFINE bytes == m.pages * PageSize
           w == s.access_width
           a == swam_build_base_address(s, m.pages)
<1>1. AccessRow(s)
  BY CatalogRows DEF GrowRow
<1>2. m.pages \in 1..(MaxPages - 1) /\ m.pages \in Nat /\ m.pages > 0
        /\ m.pages < MaxPages
  BY ProbeAssumption DEF Usable
<1>3. PICK k \in Nat : bytes = 32 * k
  BY <1>2, MemoryBytes
<1>4. bytes \in Nat /\ bytes >= 32 /\ bytes + 32 <= AddressSpace
  BY <1>2, <1>3, MemoryBytes
<1>5. /\ AccessLength(s) = w
      /\ s.op_class # "MEMORY_GROW" /\ m.pages # 0
      /\ s.op_class = "ATOMIC_WAIT" => m.shared
  BY <1>1, <1>2 DEF AccessRow, Usable
<1>6. SpecTraps(s, a, m)
        <=> \/ a + StaticOffset(s) + w > bytes
            \/ s.op_class \in AtomicOps /\ (a + StaticOffset(s)) % w # 0
  BY <1>5 DEF SpecTraps
<1>7. s.layout \in {"INTERIOR", "BOUNDARY", "OOB"}
  BY <1>1 DEF AccessRow
<1>8. CASE OverflowRow(s)
  <2>1. a = AddressSpace - w /\ StaticOffset(s) = w
    BY <1>1, <1>2, <1>8, BaseAddressValue DEF OverflowRow, StaticOffset
  <2>2. a + StaticOffset(s) + w > bytes
    BY <1>4, <1>8, <2>1, AddressSpacePositive DEF OverflowRow
  <2> QED
    BY <1>6, <1>8, <2>2 DEF OverflowRow
<1>9. CASE PlainRow(s)
  <2>1. a = CASE s.layout = "INTERIOR" -> bytes \div 2
              [] s.layout = "BOUNDARY" -> bytes - w
              [] s.layout = "OOB"      -> bytes - w + 1
    BY <1>1, <1>2, <1>9, BaseAddressValue
  <2>2. StaticOffset(s) = 0 /\ w \in {1, 2, 4, 8, 16}
    BY <1>9 DEF PlainRow, StaticOffset
  <2> HIDE DEF bytes, w, a
  <2>3. a \in Int /\ (a + w > bytes <=> s.layout = "OOB")
    BY <1>3, <1>4, <1>7, <2>1, <2>2
  <2>4. s.op_class \in AtomicOps => (a + 0) % w = 0
    <3>1. s.op_class \in AtomicOps => w = 1
      BY <1>9 DEF PlainRow, w
    <3> QED
      BY <2>3, <3>1
  <2>5. a + 0 = a
    BY <2>3
  <2> QED
    BY <1>6, <1>9, <2>2, <2>3, <2>4, <2>5 DEF PlainRow, a
<1>10. CASE AlignedRow(s)
  <2>1. a = CASE s.layout = "INTERIOR" -> bytes \div 2
              [] s.layout = "BOUNDARY" -> bytes - w
              [] s.layout = "OOB"      -> bytes
    BY <1>1, <1>2, <1>10, BaseAddressValue
  <2>2. StaticOffset(s) = 0 /\ w \in {2, 4, 8}
    BY <1>10 DEF AlignedRow, StaticOffset
  <2> HIDE DEF bytes, w, a
  <2>3. a \in Int /\ (a + w > bytes <=> s.layout = "OOB")
    BY <1>3, <1>4, <1>7, <2>1, <2>2
  <2>4. a % w = 0
    <3>1. CASE w = 2
      BY <1>3, <1>7, <2>1, <3>1
    <3>2. CASE w = 4
      BY <1>3, <1>7, <2>1, <3>2
    <3>3. CASE w = 8
      BY <1>3, <1>7, <2>1, <3>3
    <3> QED
      BY <2>2, <3>1, <3>2, <3>3
  <2>5. a + 0 = a
    BY <2>3
  <2> QED
    BY <1>6, <1>10, <2>2, <2>3, <2>4, <2>5 DEF AlignedRow, a
<1>11. CASE MisalignedRow(s)
  <2>1. a = CASE s.layout = "INTERIOR" -> bytes \div 2 + 1
              [] s.layout = "BOUNDARY" -> bytes - w - 1
              [] s.layout = "OOB"      -> bytes - w + 1
    BY <1>1, <1>2, <1>11, BaseAddressValue
  <2>2. StaticOffset(s) = 0 /\ w \in {2, 4, 8}
    BY <1>11 DEF MisalignedRow, StaticOffset
  <2> HIDE DEF bytes, w, a
  <2>3. a \in Int
    BY <1>3, <1>4, <1>7, <2>1, <2>2
  <2>4. a % w # 0
    <3>1. CASE w = 2
      BY <1>3, <1>7, <2>1, <3>1
    <3>2. CASE w = 4
      BY <1>3, <1>7, <2>1, <3>2
    <3>3. CASE w = 8
      BY <1>3, <1>7, <2>1, <3>3
    <3> QED
      BY <2>2, <3>1, <3>2, <3>3
  <2>5. a + 0 = a
    BY <2>3
  <2> QED
    BY <1>6, <1>11, <2>2, <2>4, <2>5 DEF MisalignedRow, a
<1> QED
  BY <1>1, <1>8, <1>9, <1>10, <1>11 DEF AccessRow

-----------------------------------------------------------------------------
(***************************************************************************)
(* Type correctness.                                                       *)
(***************************************************************************)
TypeInv ==
  /\ TypeOK
  /\ pc \notin {"instantiate", "end"} => memory \in Memory

\* Instantiation and growth keep a memory well-formed
\* (swam_exploit.c:109-236, 560-561).
LEMMA MemoryTypes ==
  /\ \A s : \A m \in Memory \cup {NoMemory} : PreparedMemory(s, m) \in Memory
  /\ \A m \in Memory : Grown(m) \subseteq Memory
<1>1. MaxPages \in Nat /\ MaxPages >= 1 /\ EnginePages \in 0..MaxPages
        /\ DefaultMaximum \in 0..MaxPages
  BY ProbeAssumption
<1>2. wasm_set_memory \in Memory
  BY <1>1 DEF wasm_set_memory, Memory, NoMaximum
<1>3. ASSUME NEW m \in Memory PROVE swam_ensure_shared_memory(m) \in Memory
  BY <1>1 DEF swam_ensure_shared_memory, Memory, NoMaximum
<1>4. ASSUME NEW m \in Memory PROVE Grown(m) \subseteq Memory
  BY <1>1 DEF Grown, Memory, NoMaximum
<1>5. ASSUME NEW s, NEW m \in Memory \cup {NoMemory}
      PROVE  PreparedMemory(s, m) \in Memory
  <2> DEFINE own == IF m = NoMemory THEN wasm_set_memory ELSE m
  <2>1. own \in Memory
    BY <1>2
  <2> QED
    BY <1>3, <2>1 DEF PreparedMemory
<1> QED
  BY <1>4, <1>5

\* The initial state is well-typed.
LEMMA TypeInit == Init => TypeInv
<1> SUFFICES ASSUME Init PROVE TypeInv
  OBVIOUS
<1>1. addr \in 0..(AddressSpace - 1)
  BY AddressSpacePositive DEF Init
<1>2. memory \in Memory \cup {NoMemory}
  BY DEF Init, ValidMemory
<1> QED
  BY <1>1, <1>2 DEF Init, TypeInv, TypeOK

\* Every action preserves the types.
LEMMA TypeStep == TypeInv /\ [Next]_vars => TypeInv'
<1> SUFFICES ASSUME TypeInv, [Next]_vars PROVE TypeInv'
  OBVIOUS
<1> USE DEF TypeInv, TypeOK
<1>1. CASE swam_instantiate_scenario
  BY <1>1, MemoryTypes DEF swam_instantiate_scenario
<1>2. CASE Load
  BY <1>2 DEF Load
<1>3. CASE Code
  BY <1>3, MemoryTypes DEF Code
<1>4. CASE SetBefore
  BY <1>4 DEF SetBefore
<1>5. CASE SetAddress
  <2>1. memory.pages \in Nat
    BY <1>5, ProbeAssumption DEF SetAddress, Memory
  <2> QED
    BY <1>5, <2>1, BaseAddressType DEF SetAddress
<1>6. CASE AccessTraps
  BY <1>6 DEF AccessTraps
<1>7. CASE AccessCompletes
  BY <1>7, MemoryTypes DEF AccessCompletes
<1>8. CASE SetAfter
  BY <1>8 DEF SetAfter
<1>9. CASE NextCall
  BY <1>9 DEF NextCall
<1>10. CASE Finish
  BY <1>10 DEF Finish
<1>11. CASE UNCHANGED vars
  BY <1>11 DEF vars
<1> QED
  BY <1>1, <1>2, <1>3, <1>4, <1>5, <1>6, <1>7, <1>8, <1>9, <1>10, <1>11
     DEF Next, Probe

\* The model's state is always well-typed; in particular every address the
\* probe computes fits the memory's index type (swam_probe.c:168-267).
THEOREM ProbeTypeCorrect == Spec => []TypeOK
<1>1. TypeInv => TypeOK
  BY DEF TypeInv
<1> QED
  BY <1>1, TypeInit, TypeStep, PTL DEF Spec

-----------------------------------------------------------------------------
(***************************************************************************)
(* Soundness and completeness of the verdict on usable memories.           *)
(***************************************************************************)
UsableMemories == 0 \notin InitialPages /\ EnginePages < MaxPages

\* Where the memory is fit for the scenario.
MemoryInv ==
  /\ pc = "instantiate" => memory = NoMemory \/ memory.pages # 0
  /\ pc = "load" =>
       /\ memory.pages # 0
       /\ scenario.op_class = "ATOMIC_WAIT" => memory.shared
  /\ pc \notin {"instantiate", "load", "end"} =>
       Usable(scenario, memory) /\ memory.pages <= EnginePages
  /\ pc = "access" => addr = swam_build_base_address(scenario, memory.pages)

\* What the markers and the deviations say about each other.
MarkerInv ==
  /\ pc \in {"instantiate", "load"} => ~before
  /\ pc \in {"address", "access", "after", "trapped"} => before
  /\ ~before => ~after /\ deviations = {}
  /\ scenario.expected = "TRAP" =>
       (after \/ pc = "after" <=> "bypass" \in deviations)
  /\ scenario.expected # "TRAP" => "bypass" \notin deviations
  /\ scenario.expected = "TRAP" => "false_trap" \notin deviations
  /\ scenario.expected = "NO_TRAP" /\ before /\ ~after
       /\ pc \in {"code", "trapped", "end"} => "false_trap" \in deviations

ProbeInv == TypeInv /\ MemoryInv /\ MarkerInv

\* In a usable memory the outcome of the access is the expected one.
LEMMA AccessOutcome ==
  ASSUME ProbeInv, pc = "access"
  PROVE  /\ scenario.expected = "TRAP" => SpecTraps(scenario, addr, memory)
         /\ scenario.expected # "TRAP" => ~SpecTraps(scenario, addr, memory)
<1>1. /\ scenario \in swam_scenario_catalog /\ memory \in Memory
      /\ Usable(scenario, memory)
      /\ addr = swam_build_base_address(scenario, memory.pages)
  BY DEF ProbeInv, TypeInv, TypeOK, MemoryInv
<1>2. CASE scenario.expected = "UNKNOWN"
  <2>1. scenario.op_class = "MEMORY_GROW"
    BY <1>1, <1>2, CatalogRows DEF AccessRow, GrowRow
  <2> QED
    BY <1>2, <2>1 DEF SpecTraps
<1>3. CASE scenario.expected # "UNKNOWN"
  BY <1>1, <1>3, ExpectedMatchesSpec
<1> QED
  BY <1>2, <1>3

\* Growth keeps a memory usable.
LEMMA GrownUsable ==
  ASSUME UsableMemories, NEW s, NEW m \in Memory, Usable(s, m),
         m.pages <= EnginePages, NEW n \in Grown(m)
  PROVE  Usable(s, n) /\ n.pages <= EnginePages
  BY ProbeAssumption DEF Grown, Memory, Usable, UsableMemories

\* The invariant holds initially.
LEMMA ProbeInit == UsableMemories /\ Init => ProbeInv
<1> SUFFICES ASSUME UsableMemories, Init PROVE ProbeInv
  OBVIOUS
<1>1. TypeInv
  BY TypeInit
<1>2. MemoryInv
  BY DEF Init, MemoryInv, ValidMemory, UsableMemories
<1>3. MarkerInv
  BY DEF Init, MarkerInv
<1> QED
  BY <1>1, <1>2, <1>3 DEF ProbeInv

\* Every action keeps the memory fit for the scenario.
LEMMA MemoryStep == UsableMemories /\ ProbeInv /\ [Next]_vars => MemoryInv'
<1> SUFFICES ASSUME UsableMemories, ProbeInv, [Next]_vars PROVE MemoryInv'
  OBVIOUS
<1> USE DEF ProbeInv, TypeInv, TypeOK, MemoryInv
<1>1. CASE swam_instantiate_scenario
  <2>1. CASE pc' = "end"
    BY <2>1
  <2>2. CASE pc' = "load"
    BY <1>1, <2>2 DEF swam_instantiate_scenario, PreparedMemory, AtomicOps,
       wasm_set_memory, swam_ensure_shared_memory
  <2> QED
    BY <1>1, <2>1, <2>2 DEF swam_instantiate_scenario
<1>2. CASE Load
  BY <1>2, ProbeAssumption DEF Load, Usable, UsableMemories, Memory
<1>3. CASE Code
  BY <1>3, GrownUsable DEF Code
<1>4. CASE SetBefore
  BY <1>4 DEF SetBefore
<1>5. CASE SetAddress
  BY <1>5 DEF SetAddress
<1>6. CASE AccessTraps
  BY <1>6 DEF AccessTraps
<1>7. CASE AccessCompletes
  BY <1>7, GrownUsable DEF AccessCompletes
<1>8. CASE SetAfter
  BY <1>8 DEF SetAfter
<1>9. CASE NextCall
  BY <1>9 DEF NextCall
<1>10. CASE Finish
  BY <1>10 DEF Finish
<1>11. CASE UNCHANGED vars
  BY <1>11 DEF vars
<1> QED
  BY <1>1, <1>2, <1>3, <1>4, <1>5, <1>6, <1>7, <1>8, <1>9, <1>10, <1>11
     DEF Next, Probe

\* Every action keeps markers and deviations in step.
LEMMA MarkerStep == ProbeInv /\ [Next]_vars => MarkerInv'
<1> SUFFICES ASSUME ProbeInv, [Next]_vars PROVE MarkerInv'
  OBVIOUS
<1>0. TypeOK /\ MarkerInv /\ scenario.expected \in {"TRAP", "NO_TRAP", "UNKNOWN"}
  BY CatalogRows DEF ProbeInv, TypeInv, TypeOK, AccessRow, GrowRow
<1> USE <1>0 DEF TypeOK, MarkerInv
<1>1. CASE swam_instantiate_scenario
  BY <1>1 DEF swam_instantiate_scenario
<1>2. CASE Load
  BY <1>2 DEF Load
<1>3. CASE Code
  BY <1>3 DEF Code
<1>4. CASE SetBefore
  BY <1>4 DEF SetBefore
<1>5. CASE SetAddress
  BY <1>5 DEF SetAddress
<1>6. CASE AccessTraps
  BY <1>6, AccessOutcome DEF AccessTraps
<1>7. CASE AccessCompletes
  BY <1>7, AccessOutcome DEF AccessCompletes
<1>8. CASE SetAfter
  BY <1>8 DEF SetAfter
<1>9. CASE NextCall
  BY <1>9 DEF NextCall
<1>10. CASE Finish
  BY <1>10 DEF Finish
<1>11. CASE UNCHANGED vars
  BY <1>11 DEF vars
<1> QED
  BY <1>1, <1>2, <1>3, <1>4, <1>5, <1>6, <1>7, <1>8, <1>9, <1>10, <1>11
     DEF Next, Probe

\* The invariant is inductive.
LEMMA ProbeStep == UsableMemories /\ ProbeInv /\ [Next]_vars => ProbeInv'
<1> SUFFICES ASSUME UsableMemories, ProbeInv, [Next]_vars PROVE ProbeInv'
  OBVIOUS
<1>1. TypeInv'
  BY TypeStep DEF ProbeInv
<1> QED
  BY <1>1, MemoryStep, MarkerStep DEF ProbeInv

\* The invariant holds throughout.
LEMMA ProbeInvariant ==
  ASSUME UsableMemories PROVE Spec => []ProbeInv
  BY ProbeInit, ProbeStep, PTL DEF Spec

\* If no module considered has an empty memory and the runtime never provides
\* the whole address space, a conforming runtime is never reported, for every
\* page size, every scenario and every number of executions of the probe.
THEOREM NoFalseAlarms ==
  ASSUME UsableMemories PROVE Spec => []NoFalseAlarm
<1>1. ProbeInv => NoFalseAlarm
  <2> SUFFICES ASSUME ProbeInv, pc = "end"
               PROVE  /\ Verdict = "bypass" => "bypass" \in deviations
                      /\ Verdict = "false_trap" => "false_trap" \in deviations
    BY DEF NoFalseAlarm
  <2>1. scenario.expected \in {"TRAP", "NO_TRAP", "UNKNOWN"}
    BY CatalogRows DEF ProbeInv, TypeInv, TypeOK, AccessRow, GrowRow
  <2> QED
    BY <2>1 DEF ProbeInv, TypeInv, TypeOK, MarkerInv, Verdict
<1> QED
  BY <1>1, ProbeInvariant, PTL

\* Under the same condition every deviation of the runtime is reported, except
\* an undue trap that another execution of the probe masks.
THEOREM DeviationsReported ==
  ASSUME UsableMemories PROVE Spec => []DeviationReported
<1>1. ProbeInv => DeviationReported
  <2> SUFFICES ASSUME ProbeInv, pc = "end"
               PROVE  /\ "bypass" \in deviations => Verdict = "bypass"
                      /\ "false_trap" \in deviations =>
                           after \/ Verdict \in {"false_trap", "unknown_trap"}
    BY DEF DeviationReported
  <2>1. scenario.expected \in {"TRAP", "NO_TRAP", "UNKNOWN"}
    BY CatalogRows DEF ProbeInv, TypeInv, TypeOK, AccessRow, GrowRow
  <2> QED
    BY <2>1 DEF ProbeInv, TypeInv, TypeOK, MarkerInv, Verdict
<1> QED
  BY <1>1, ProbeInvariant, PTL
=============================================================================
