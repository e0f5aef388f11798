---------------------------- MODULE SwamCatalog ----------------------------
(***************************************************************************)
(* The boundary scenarios (swam_scenarios.h).  A scenario is the record of *)
(* the columns the probe's address and the oracle depend on; its number,   *)
(* mnemonic, signedness and value type are left out, so rows that differ   *)
(* only there are one scenario.                                            *)
(***************************************************************************)
EXTENDS SwamProfile, Integers

Width == {0, 1, 2, 4, 8, 16}

\* struct SwamScenario.
SwamScenario ==
  [op_class : OpClass, layout : {"INTERIOR", "BOUNDARY", "OOB"},
   expected : {"TRAP", "NO_TRAP", "UNKNOWN"}, access_width : Width,
   wrap : {"NO_WRAP", "OVERFLOW"}, align : {"ALIGNED", "MISALIGNED", "NA"}]

SWAM_SCENARIO_ENTRY(op_class, layout, expected, width, wrap, align) ==
  [op_class |-> op_class, layout |-> layout, expected |-> expected,
   access_width |-> width, wrap |-> wrap, align |-> align]

SWAM_LAYOUT_SCENARIOS(op_class, width) ==
  {SWAM_SCENARIO_ENTRY(op_class, "INTERIOR", "NO_TRAP", width, "NO_WRAP", "NA"),
   SWAM_SCENARIO_ENTRY(op_class, "BOUNDARY", "NO_TRAP", width, "NO_WRAP", "NA"),
   SWAM_SCENARIO_ENTRY(op_class, "OOB",      "TRAP",    width, "NO_WRAP", "NA")}

SWAM_MEMORY_GROW_SCENARIOS ==
  {SWAM_SCENARIO_ENTRY("MEMORY_GROW", layout, "UNKNOWN", 0, "NO_WRAP", "NA") :
     layout \in {"INTERIOR", "BOUNDARY", "OOB"}}

SWAM_OVERFLOW_SCENARIO(op_class, width) ==
  {SWAM_SCENARIO_ENTRY(op_class, "INTERIOR", "TRAP", width, "OVERFLOW", "NA")}

SWAM_BULK_SCENARIOS(op_class) == SWAM_LAYOUT_SCENARIOS(op_class, 1)

SWAM_ATOMIC_W1_SCENARIOS(op_class) ==
  SWAM_LAYOUT_SCENARIOS(op_class, 1) \cup SWAM_OVERFLOW_SCENARIO(op_class, 1)

SWAM_ATOMIC_ALIGN_SCENARIOS(op_class, width) ==
  {SWAM_SCENARIO_ENTRY(op_class, "INTERIOR", "NO_TRAP", width, "NO_WRAP", "ALIGNED"),
   SWAM_SCENARIO_ENTRY(op_class, "BOUNDARY", "NO_TRAP", width, "NO_WRAP", "ALIGNED"),
   SWAM_SCENARIO_ENTRY(op_class, "OOB",      "TRAP",    width, "NO_WRAP", "ALIGNED"),
   SWAM_SCENARIO_ENTRY(op_class, "INTERIOR", "TRAP", width, "NO_WRAP", "MISALIGNED"),
   SWAM_SCENARIO_ENTRY(op_class, "BOUNDARY", "TRAP", width, "NO_WRAP", "MISALIGNED"),
   SWAM_SCENARIO_ENTRY(op_class, "OOB",      "TRAP", width, "NO_WRAP", "MISALIGNED"),
   SWAM_SCENARIO_ENTRY(op_class, "INTERIOR", "TRAP", width, "OVERFLOW", "ALIGNED")}

\* Loads and stores: a layout triple and an overflow row for every width.
AccessRows(op_class, widths) ==
  UNION {SWAM_LAYOUT_SCENARIOS(op_class, w) \cup SWAM_OVERFLOW_SCENARIO(op_class, w) :
           w \in widths}

ScalarScenarios == UNION {AccessRows(c, {1, 2, 4, 8}) : c \in {"LOAD", "STORE"}}

SimdScenarios ==
  AccessRows("SIMD_LOAD", {1, 2, 4, 8, 16}) \cup AccessRows("SIMD_STORE", {16})
    \cup AccessRows("SIMD_LOAD_LANE", {1, 2, 4, 8})
    \cup AccessRows("SIMD_STORE_LANE", {1, 2, 4, 8})

\* Atomics: bytes need no alignment, wider accesses do.
AlignRows(op_class, widths) ==
  UNION {SWAM_ATOMIC_ALIGN_SCENARIOS(op_class, w) : w \in widths}

AtomicLoadStoreScenarios ==
  UNION {SWAM_ATOMIC_W1_SCENARIOS(c) \cup AlignRows(c, {2, 4, 8}) :
           c \in {"ATOMIC_LOAD", "ATOMIC_STORE"}}

AtomicRmwScenarios ==
  SWAM_ATOMIC_W1_SCENARIOS("ATOMIC_RMW") \cup AlignRows("ATOMIC_RMW", {2, 4, 8})

AtomicCmpxchgScenarios ==
  SWAM_ATOMIC_W1_SCENARIOS("ATOMIC_CMPXCHG")
    \cup AlignRows("ATOMIC_CMPXCHG", {2, 4, 8})

WaitNotifyScenarios ==
  AlignRows("ATOMIC_WAIT", {4, 8}) \cup AlignRows("ATOMIC_NOTIFY", {4})

BulkScenarios == UNION {SWAM_BULK_SCENARIOS(c) : c \in BulkOps}

swam_scenario_catalog ==
  ScalarScenarios \cup SWAM_MEMORY_GROW_SCENARIOS
    \cup AtomicLoadStoreScenarios \cup AtomicRmwScenarios
    \cup AtomicCmpxchgScenarios \cup WaitNotifyScenarios
    \cup SimdScenarios \cup BulkScenarios
=============================================================================
