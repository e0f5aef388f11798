---------------------------- MODULE SwamProfile ----------------------------
(***************************************************************************)
(* Runtime capability profiles of the Wasm mutator (swam_profile.c/.h).    *)
(* A profile says which Wasm proposals a runtime implements and which      *)
(* instruction classes it lacks although the proposal is there.  A bitmask *)
(* of SwamProposal values is a set of proposals; the null profile pointer  *)
(* is the model value NoProfile.                                           *)
(***************************************************************************)
EXTENDS FiniteSets

CONSTANT NoProfile

\* enum SwamProposal; SWAM_PROPOSALS_ALL has every bit set.
Proposal ==
  {"MVP", "THREADS", "SIMD", "BULK", "MEMORY64", "MULTI_MEM"}

CoreOps   == {"LOAD", "STORE", "MEMORY_GROW"}
AtomicOps == {"ATOMIC_LOAD", "ATOMIC_STORE", "ATOMIC_RMW", "ATOMIC_CMPXCHG",
              "ATOMIC_WAIT", "ATOMIC_NOTIFY"}
SimdOps   == {"SIMD_LOAD", "SIMD_LOAD_LANE", "SIMD_STORE", "SIMD_STORE_LANE"}
BulkOps   == {"BULK_COPY", "BULK_FILL", "BULK_INIT"}

\* enum SwamOpClass.
OpClass == CoreOps \cup AtomicOps \cup SimdOps \cup BulkOps

swam_opclass_required_proposal(op_class) ==
  CASE op_class \in AtomicOps -> "THREADS"
    [] op_class \in SimdOps   -> "SIMD"
    [] op_class \in BulkOps   -> "BULK"
    [] OTHER                  -> "MVP"

Profile == [proposals : SUBSET Proposal, excluded : SUBSET OpClass]

FourProposals == {"MVP", "THREADS", "SIMD", "BULK"}

\* The built-in table, indexed by the profile's name.
swam_profiles ==
  [ name \in {"wasm3", "wamr", "wasmtime", "wasmer", "wasm-interp", "v8",
              "jsc", "spidermonkey"} |->
      CASE name = "wasm3" ->
             [proposals |-> {"MVP", "BULK"}, excluded |-> {"BULK_INIT"}]
        [] name = "wamr" ->
             [proposals |-> FourProposals \cup {"MEMORY64"}, excluded |-> {}]
        [] name \in {"wasmer", "jsc", "spidermonkey"} ->
             [proposals |-> FourProposals, excluded |-> {}]
        [] OTHER -> [proposals |-> Proposal, excluded |-> {}] ]

\* "all" and unknown names have no profile.
swam_profile_lookup(name) ==
  IF name \in DOMAIN swam_profiles THEN swam_profiles[name] ELSE NoProfile

swam_profile_supports_opclass(p, op_class) ==
  \/ p = NoProfile
  \/ /\ swam_opclass_required_proposal(op_class) \in p.proposals
     /\ op_class \notin p.excluded
=============================================================================
