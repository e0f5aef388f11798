--------------------------- MODULE SwamScheduler ---------------------------
(***************************************************************************)
(* The scenario scheduler (swam_scheduler.c): UCB1 with a cold start, an   *)
(* epsilon-greedy draw and suppression of hopeless scenarios.  The module  *)
(* gives the scheduler's state, the results one call of                    *)
(* swam_scheduler_select can return over all random draws, and the effect  *)
(* of swam_scheduler_update; SwamMutator composes them into the fuzzing    *)
(* loop.  Doubles are treated as reals: two scores are only compared where *)
(* the order of the counters decides it (Dominates).                       *)
(***************************************************************************)
EXTENDS SwamProfile, Integers

CONSTANTS
  NumScenarios,   \* swam_scenario_count()
  OpClassOf,      \* op_class column of swam_scenario_catalog
  FailWindow,     \* 10U: selections before the instantiation-failure filter
  ReachWindow     \* 100U: selections before the never-reached filter

Scenario == 1..NumScenarios

ASSUME SchedulerAssumption ==
  /\ NumScenarios \in Nat \ {0}
  /\ OpClassOf \in [Scenario -> OpClass]
  /\ FailWindow \in Nat \ {0}
  /\ ReachWindow \in Nat \ {0}

VARIABLES
  sched,            \* FALSE models a null SwamScheduler pointer
  stats,            \* SwamScenarioStats of every scenario
  total_selected,
  proposals_mask,
  profile

schedVars == <<sched, stats, total_selected, proposals_mask, profile>>

\* enum SwamSchedOutcome.
SwamSchedOutcome ==
  {"INSTANTIATE_FAIL", "NOT_REACHED", "REACHED_TRAPPED", "REACHED_COMPLETED"}

SwamScenarioStats ==
  [n_selected : Nat, n_reached : Nat, n_completed : Nat,
   n_instantiate_fail : Nat]

NoStats ==
  [n_selected |-> 0, n_reached |-> 0, n_completed |-> 0,
   n_instantiate_fail |-> 0]

SchedTypeOK ==
  /\ sched \in BOOLEAN
  /\ stats \in [Scenario -> SwamScenarioStats]
  /\ total_selected \in Nat
  /\ proposals_mask \in SUBSET Proposal
  /\ profile \in Profile \cup {NoProfile}

-----------------------------------------------------------------------------
\* swam_scheduler_create: either allocation may fail, leaving no scheduler.
\* Counters are zeroed and every proposal is active.
swam_scheduler_create ==
  /\ sched \in BOOLEAN
  /\ stats = [s \in Scenario |-> NoStats]
  /\ total_selected = 0

\* swam_scheduler_set_profile on the result of swam_profile_lookup; without a
\* profile the mask keeps the value swam_scheduler_create gave it.
ProfileApplied(p) ==
  /\ profile = p
  /\ proposals_mask = IF p = NoProfile THEN Proposal ELSE p.proposals

swam_scenario_passes_filter(s) ==
  /\ swam_opclass_required_proposal(OpClassOf[s]) \in proposals_mask
  /\ swam_profile_supports_opclass(profile, OpClassOf[s])

\* The scenarios swam_scheduler_active_count counts.
Active == {s \in Scenario : swam_scenario_passes_filter(s)}

Unselected == {s \in Active : stats[s].n_selected = 0}

\* The two filters of the UCB1 loop: more than 90% instantiation failures, and
\* never reached.
Suppressed(s) ==
  \/ /\ stats[s].n_selected >= FailWindow
     /\ 10 * stats[s].n_instantiate_fail > 9 * stats[s].n_selected
  \/ /\ stats[s].n_selected >= ReachWindow
     /\ stats[s].n_reached = 0

Candidates == {s \in Active : ~Suppressed(s)}

\* score(s) = 1 - n_reached/n_selected + sqrt(2 ln total / n_selected), the
\* second term only when total_selected > 1.  Dominates(s, t) holds when the
\* counters alone force score(s) > score(t).
Dominates(s, t) ==
  LET a == stats[s]
      b == stats[t]
      rateLE == a.n_reached * b.n_selected <= b.n_reached * a.n_selected
      rateLT == a.n_reached * b.n_selected <  b.n_reached * a.n_selected
  IN \/ rateLT /\ (total_selected > 1 => a.n_selected <= b.n_selected)
     \/ rateLE /\ total_selected > 1 /\ a.n_selected < b.n_selected

Best == {s \in Candidates : \A t \in Candidates : ~Dominates(t, s)}

\* Mutant: the cold-start pass accepts any active scenario.
SelectColdSkipped(s) == sched /\ s \in Active

\* The branches of swam_scheduler_select.  A result of 0 means that no
\* scenario passes the filter; without a scheduler the answer is always 1.
SelectCold(s)     == sched /\ s \in Unselected
SelectEpsilon(s)  == sched /\ Unselected = {} /\ s \in Active
SelectUCB(s)      == sched /\ Unselected = {} /\ s \in Best
SelectFallback(s) == /\ sched
                     /\ Unselected = {}
                     /\ Candidates = {}
                     /\ s \in Active
SelectNone(s)     == sched /\ Active = {} /\ s = 0
SelectNoSched(s)  == ~sched /\ s = 1

swam_scheduler_select(s) ==
  \/ SelectCold(s)
  \/ SelectEpsilon(s)
  \/ SelectUCB(s)
  \/ SelectFallback(s)
  \/ SelectNone(s)
  \/ SelectNoSched(s)

\* Mutant: the INSTANTIATE_FAIL case falls through to the next one that counts.
RecordedFallthrough(st, outcome) ==
  [n_selected         |-> st.n_selected + 1,
   n_reached          |-> IF outcome = "NOT_REACHED"
                            THEN st.n_reached ELSE st.n_reached + 1,
   n_completed        |-> IF outcome = "REACHED_COMPLETED"
                            THEN st.n_completed + 1 ELSE st.n_completed,
   n_instantiate_fail |-> IF outcome = "INSTANTIATE_FAIL"
                            THEN st.n_instantiate_fail + 1
                            ELSE st.n_instantiate_fail]

\* The statistics of one scenario after an outcome was reported for it.
Recorded(st, outcome) ==
  [n_selected         |-> st.n_selected + 1,
   n_reached          |-> IF outcome \in {"REACHED_TRAPPED", "REACHED_COMPLETED"}
                            THEN st.n_reached + 1 ELSE st.n_reached,
   n_completed        |-> IF outcome = "REACHED_COMPLETED"
                            THEN st.n_completed + 1 ELSE st.n_completed,
   n_instantiate_fail |-> IF outcome = "INSTANTIATE_FAIL"
                            THEN st.n_instantiate_fail + 1
                            ELSE st.n_instantiate_fail]

swam_scheduler_update(s, outcome) ==
  /\ IF sched /\ s \in Scenario
       THEN /\ stats' = [stats EXCEPT ![s] = Recorded(@, outcome)]
            /\ total_selected' = total_selected + 1
       ELSE UNCHANGED <<stats, total_selected>>
  /\ UNCHANGED <<sched, proposals_mask, profile>>
=============================================================================
