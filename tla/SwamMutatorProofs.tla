------------------------- MODULE SwamMutatorProofs -------------------------
(***************************************************************************)
(* Proofs about SwamMutator for every catalog, cap, budget, queue bound    *)
(* and environment.                                                        *)
(***************************************************************************)
EXTENDS SwamMutator, FiniteSetTheorems, TLAPS

\* What makes PendingConsistent inductive: a verdict is never due while a call
\* of afl_custom_fuzz is under way, and only a pending module is counted as
\* queued apart from the rest of the queue.
PendingInv ==
  /\ PendingConsistent
  /\ pc \in {"fuzz", "write"} => ~swam_last_was_exploit
  /\ pendingQueued => swam_last_was_exploit

TypeInv == TypeOK /\ PendingInv

\* Every result of the scheduler's statistics update is a statistics record.
LEMMA RecordedType ==
  ASSUME NEW st \in SwamScenarioStats, NEW o \in SwamSchedOutcome
  PROVE  Recorded(st, o) \in SwamScenarioStats
BY DEF Recorded, SwamScenarioStats

LEMMA UpdateType ==
  ASSUME SchedTypeOK, NEW s, NEW o \in SwamSchedOutcome,
         swam_scheduler_update(s, o)
  PROVE  SchedTypeOK'
<1>1. CASE sched /\ s \in Scenario
  <2>1. stats[s] \in SwamScenarioStats
    BY <1>1 DEF SchedTypeOK
  <2>2. Recorded(stats[s], o) \in SwamScenarioStats
    BY <2>1, RecordedType
  <2>3. stats' = [stats EXCEPT ![s] = Recorded(stats[s], o)]
    BY <1>1 DEF swam_scheduler_update
  <2>4. stats' \in [Scenario -> SwamScenarioStats]
    BY <2>2, <2>3 DEF SchedTypeOK
  <2>. QED
    BY <1>1, <2>4 DEF swam_scheduler_update, SchedTypeOK
<1>2. CASE ~(sched /\ s \in Scenario)
  BY <1>2 DEF swam_scheduler_update, SchedTypeOK
<1>. QED
  BY <1>1, <1>2

LEMMA OutcomeType ==
  ASSUME NEW s PROVE Outcome(s) \in SwamSchedOutcome
BY DEF Outcome, SwamSchedOutcome

\* A reached verdict rests on a marker record.
LEMMA ReachedHasMarkers ==
  ASSUME MarkersTypeOK, NEW s, Outcome(s) # "NOT_REACHED"
  PROVE  swam_markers_read \in Markers
BY MarkersAssumption DEF Outcome, swam_markers_read, MarkersTypeOK

\* The report step keeps the report state well typed.
LEMMA SavedType ==
  ASSUME ReportTypeOK, MarkersTypeOK, NEW s \in Scenario,
         Outcome(s) # "NOT_REACHED",
         swam_pending_module \in Module, NEW tag \in BugTag \cup UnknownTag,
         NEW id \in Nat, NEW fs \in Saved(s, tag, id)
  PROVE  fs \in SUBSET File
<1>1. swam_markers_read.from \in Writer
  BY ReachedHasMarkers DEF Markers
<1>. QED
  BY <1>1 DEF Saved, File, ReportTypeOK

LEMMA ReportType ==
  ASSUME ReportTypeOK, MarkersTypeOK, NEW s \in Scenario,
         swam_pending_module \in Module, Report(s, Outcome(s))
  PROVE  ReportTypeOK'
<1>. DEFINE o == Outcome(s)
<1>0. swam_pending_module # NoModule
  BY MutatorAssumption
<1>1. ASSUME NEW tag \in BugTag, o # "NOT_REACHED", swam_maybe_save_bug(s, tag)
      PROVE  ReportTypeOK'
  <2>1. CASE swam_saved_bug_count[<<s, tag>>] >= BugSaveCap
    BY <1>0, <1>1, <2>1 DEF swam_maybe_save_bug, ReportTypeOK
  <2>2. CASE ~(swam_saved_bug_count[<<s, tag>>] >= BugSaveCap)
    <3>1. /\ swam_saved_bug_count' =
               [swam_saved_bug_count EXCEPT ![<<s, tag>>] = @ + 1]
          /\ bug_counter' = bug_counter + 1
          /\ files' \in Saved(s, tag, bug_counter)
      BY <1>0, <1>1, <2>2 DEF swam_maybe_save_bug, swam_save_bug
    <3>2. files' \in SUBSET File
      BY <1>1, <3>1, SavedType DEF ReportTypeOK
    <3>3. <<s, tag>> \in Scenario \X BugTag
      BY <1>1
    <3>4. swam_saved_bug_count' \in [Scenario \X BugTag -> Nat]
      BY <3>1, <3>3 DEF ReportTypeOK
    <3>. QED
      BY <1>1, <3>1, <3>2, <3>4 DEF swam_maybe_save_bug, ReportTypeOK
  <2>. QED
    BY <2>1, <2>2
<1>2. ASSUME NEW trapped \in BOOLEAN, o # "NOT_REACHED", ReportUnknown(s, trapped)
      PROVE  ReportTypeOK'
  <2>1. ASSUME NEW tag \in UnknownTag, swam_save_unknown(s, tag)
        PROVE  files' \in SUBSET File /\ unknown_counter' \in Nat
    <3>1. /\ unknown_counter' = unknown_counter + 1
          /\ files' \in Saved(s, tag, unknown_counter)
      BY <1>0, <2>1 DEF swam_save_unknown
    <3>. QED
      BY <1>2, <3>1, SavedType DEF ReportTypeOK
  <2>2. CASE trapped
    <3>1. swam_save_unknown(s, "unknown_trap")
      BY <1>2, <2>2 DEF ReportUnknown
    <3>2. files' \in SUBSET File /\ unknown_counter' \in Nat
      BY <2>1, <3>1 DEF UnknownTag
    <3>. QED
      BY <1>2, <2>2, <3>2 DEF ReportUnknown, ReportTypeOK
  <2>3. CASE ~trapped /\ swam_unknown_saved_notrap[s] < NotrapSaveCap
    <3>1. swam_save_unknown(s, "unknown_notrap")
      BY <1>2, <2>3 DEF ReportUnknown
    <3>2. files' \in SUBSET File /\ unknown_counter' \in Nat
      BY <2>1, <3>1 DEF UnknownTag
    <3>. QED
      BY <1>2, <2>3, <3>2 DEF ReportUnknown, ReportTypeOK
  <2>4. CASE ~trapped /\ ~(swam_unknown_saved_notrap[s] < NotrapSaveCap)
    BY <1>2, <2>4 DEF ReportUnknown, ReportTypeOK
  <2>. QED
    BY <2>2, <2>3, <2>4
<1>3. CASE UNCHANGED reportVars
  BY <1>3 DEF reportVars, ReportTypeOK
<1>. QED
  BY <1>1, <1>2, <1>3 DEF Report, BugTag

-----------------------------------------------------------------------------
(***************************************************************************)
(* Type correctness and the pending module.                                *)
(***************************************************************************)
LEMMA ScenarioFacts ==
  /\ 0 \notin Scenario
  /\ \A s \in Scenario : ProbeOf(s) \in Module
  /\ NoProbe \in Module
  /\ NoModule \notin Module
BY SchedulerAssumption, MutatorAssumption
   DEF Scenario, ProbeOf, Module, Probe

LEMMA ExploitModuleType ==
  ASSUME NEW m \in Module, NEW s \in Scenario
  PROVE  ExploitModule(m, s) \in Module
BY ScenarioFacts DEF ExploitModule

LEMMA ExecutionType ==
  ASSUME MarkersTypeOK, NEW m \in Module, NEW w \in Writer, Execution(m, w)
  PROVE  MarkersTypeOK'
<1>1. CASE UNCHANGED markerVars
  BY <1>1 DEF markerVars, MarkersTypeOK
<1>2. ASSUME NEW r \in Reports(m, w), HarnessReport(r)
      PROVE  MarkersTypeOK'
  <2>1. r \in Markers
    BY <1>2, MarkersAssumption DEF Reports, Markers, Module, Probe
  <2>. QED
    BY <1>2, <2>1 DEF HarnessReport, markerVars, MarkersTypeOK
<1>. QED
  BY <1>1, <1>2 DEF Execution

LEMMA InitType == Init => TypeInv
<1>. SUFFICES ASSUME Init PROVE TypeInv
  OBVIOUS
<1>1. PICK n \in Runtimes : afl_custom_init(swam_profile_lookup(n))
  BY DEF Init
<1>2. SchedTypeOK
  <2>1. swam_profile_lookup(n) \in Profile \cup {NoProfile}
    BY DEF swam_profile_lookup, swam_profiles, Profile, FourProposals,
           Proposal, OpClass, BulkOps
  <2>2. stats \in [Scenario -> SwamScenarioStats]
    BY <1>1 DEF afl_custom_init, swam_scheduler_create, NoStats,
                SwamScenarioStats
  <2>. QED
    BY <1>1, <2>1, <2>2 DEF afl_custom_init, swam_scheduler_create,
       ProfileApplied, SchedTypeOK, Profile
<1>3. MarkersTypeOK
  BY <1>1 DEF afl_custom_init, swam_markers_init, LeftOver, MarkersTypeOK,
              Markers, Writer
<1>4. AflTypeOK /\ ArmTypeOK /\ ReportTypeOK /\ CountTypeOK
  <2>1. AflTypeOK
    <3>1. 0 \in 0..MaxCalls
      BY MutatorAssumption
    <3>2. {NoProbe} \in SUBSET Module
      BY ScenarioFacts
    <3>. QED
      BY <1>1, <3>1, <3>2, ScenarioFacts DEF afl_custom_init, AflTypeOK
  <2>2. ArmTypeOK /\ CountTypeOK
    BY <1>1 DEF afl_custom_init, ArmTypeOK, CountTypeOK
  <2>3. ReportTypeOK
    BY <1>1 DEF afl_custom_init, ReportTypeOK
  <2>. QED
    BY <2>1, <2>2, <2>3
<1>5. PendingInv
  BY <1>1 DEF afl_custom_init, PendingInv, PendingConsistent
<1>. QED
  BY <1>2, <1>3, <1>4, <1>5 DEF TypeInv, TypeOK

LEMMA NextType == TypeInv /\ [Next]_vars => TypeInv'
<1>. SUFFICES ASSUME TypeInv, [Next]_vars PROVE TypeInv'
  OBVIOUS
<1>. USE DEF TypeInv, TypeOK
<1>1. ASSUME NEW m \in Module, JudgePending(m) PROVE TypeInv'
  <2>1. swam_last_scenario_id \in Scenario /\ swam_pending_module \in Module
    BY <1>1 DEF JudgePending, PendingInv, PendingConsistent, ArmTypeOK
  <2>2. SchedTypeOK'
    BY <1>1, UpdateType, OutcomeType DEF JudgePending, swam_oracle_check
  <2>3. ReportTypeOK'
    BY <1>1, <2>1, ReportType DEF JudgePending, swam_oracle_check
  <2>4. AflTypeOK'
    <3>1. corpus' \in SUBSET Module
      BY <1>1, <2>1 DEF JudgePending, AflTypeOK
    <3>2. calls' \in 0..MaxCalls
      BY <1>1, MutatorAssumption DEF JudgePending, AflTypeOK
    <3>. QED
      BY <1>1, <3>1, <3>2 DEF JudgePending, AflTypeOK
  <2>5. MarkersTypeOK' /\ ArmTypeOK' /\ CountTypeOK'
    BY <1>1 DEF JudgePending, swam_oracle_check, MarkersTypeOK, markerVars,
                ArmTypeOK, CountTypeOK, countVars
  <2>6. PendingInv'
    BY <1>1 DEF JudgePending, swam_oracle_check, PendingInv, PendingConsistent
  <2>. QED
    BY <2>2, <2>3, <2>4, <2>5, <2>6
<1>2. ASSUME NEW m \in Module, NothingPending(m) PROVE TypeInv'
  <2>1. AflTypeOK'
    BY <1>2, MutatorAssumption DEF NothingPending, AflTypeOK
  <2>2. PendingInv'
    BY <1>2 DEF NothingPending, armVars, PendingInv, PendingConsistent
  <2>. QED
    BY <1>2, <2>1, <2>2
    DEF NothingPending, SchedTypeOK, schedVars, MarkersTypeOK, markerVars,
        ArmTypeOK, armVars, ReportTypeOK, reportVars, CountTypeOK, countVars
<1>3. CASE ParseFail
  <2>1. AflTypeOK'
    BY <1>3, ScenarioFacts DEF ParseFail, Returned, AflTypeOK
  <2>2. PendingInv'
    BY <1>3 DEF ParseFail, Returned, armVars, PendingInv, PendingConsistent
  <2>. QED
    BY <1>3, <2>1, <2>2
    DEF ParseFail, SchedTypeOK, schedVars, MarkersTypeOK, markerVars,
        ArmTypeOK, armVars, ReportTypeOK, reportVars, CountTypeOK, countVars
<1>4. ASSUME NEW s \in Scenario \cup {0}, pc = "fuzz", Chosen(s)
      PROVE  AflTypeOK' /\ PendingInv' /\ MarkersTypeOK' /\ ArmTypeOK' /\ ReportTypeOK'
  BY <1>4 DEF Chosen, AflTypeOK, PendingInv, PendingConsistent, armVars,
              MarkersTypeOK, markerVars, ArmTypeOK, ReportTypeOK, reportVars
<1>5. CASE Explore \/ ExploitNoScenario
  <2>1. pc = "fuzz" /\ Chosen(0) /\ UNCHANGED <<schedVars, countVars>>
    BY <1>5 DEF Explore, ExploitNoScenario
  <2>. QED
    BY <2>1, <1>4 DEF SchedTypeOK, schedVars, CountTypeOK, countVars
<1>6. ASSUME NEW s \in Scenario, ExploitCloneFail(s) PROVE TypeInv'
  <2>1. CountTypeOK' /\ SchedTypeOK'
    BY <1>6 DEF ExploitCloneFail, Selected, Lose, CountTypeOK, SchedTypeOK,
                schedVars
  <2>. QED
    BY <1>6, <1>4, <2>1 DEF ExploitCloneFail, Selected
<1>7. ASSUME NEW s \in Scenario, ExploitInstantiateFail(s) PROVE TypeInv'
  <2>1. CountTypeOK'
    BY <1>7 DEF ExploitInstantiateFail, Selected, CountTypeOK
  <2>2. SchedTypeOK'
    BY <1>7, UpdateType DEF ExploitInstantiateFail, SwamSchedOutcome
  <2>. QED
    BY <1>7, <1>4, <2>1, <2>2 DEF ExploitInstantiateFail, Selected
<1>8. ASSUME NEW s \in Scenario, ExploitInstantiated(s) PROVE TypeInv'
  <2>1. CountTypeOK' /\ SchedTypeOK'
    BY <1>8 DEF ExploitInstantiated, Selected, CountTypeOK, SchedTypeOK,
                schedVars
  <2>. QED
    BY <1>8, <1>4, <2>1 DEF ExploitInstantiated, Selected
<1>9. ASSUME NEW m \in Module, Returned(m)
      PROVE  AflTypeOK'
  BY <1>9, ScenarioFacts DEF Returned, AflTypeOK
<1>10. CASE WriteFail
  <2>1. AflTypeOK'
    BY <1>9, <1>10 DEF WriteFail, AflTypeOK
  <2>2. CountTypeOK'
    BY <1>10 DEF WriteFail, Lose, CountTypeOK, AflTypeOK
  <2>3. PendingInv'
    BY <1>10 DEF WriteFail, Returned, armVars, PendingInv, PendingConsistent
  <2>. QED
    BY <1>10, <2>1, <2>2, <2>3
    DEF WriteFail, SchedTypeOK, schedVars, MarkersTypeOK, markerVars,
        ArmTypeOK, armVars, ReportTypeOK, reportVars
<1>11. CASE WriteExplored
  <2>1. PICK m \in Mutants(buf) : Returned(m)
    BY <1>11 DEF WriteExplored
  <2>2. AflTypeOK'
    BY <1>9, <2>1, ScenarioFacts DEF Mutants, Module
  <2>3. PendingInv'
    BY <1>11, <2>1 DEF WriteExplored, Returned, armVars, PendingInv,
                       PendingConsistent
  <2>. QED
    BY <1>11, <2>2, <2>3
    DEF WriteExplored, SchedTypeOK, schedVars, MarkersTypeOK, markerVars,
        ArmTypeOK, armVars, ReportTypeOK, reportVars, CountTypeOK, countVars
<1>12. CASE WriteExploit
  <2>1. mode \in Scenario /\ buf \in Module
    BY <1>12 DEF WriteExploit, AflTypeOK
  <2>2. ExploitModule(buf, mode) \in Module
    BY <2>1, ExploitModuleType
  <2>3. AflTypeOK'
    BY <1>9, <1>12, <2>2 DEF WriteExploit
  <2>4. ArmTypeOK'
    BY <1>12, <2>1, <2>2 DEF WriteExploit, ArmTypeOK
  <2>5. MarkersTypeOK'
    BY <1>12, MarkersAssumption
       DEF WriteExploit, swam_markers_reset, Aged, ResetShm, ResetFile,
           MarkersTypeOK
  <2>6. PendingInv'
    <3>1. NamesKept => ExploitModule(buf, mode) = ProbeOf(mode)
      BY DEF ExploitModule
    <3>2. swam_pending_module' # NoModule
      BY <1>12, <2>2, ScenarioFacts DEF WriteExploit
    <3>3. PendingConsistent'
      BY <1>12, <2>1, <3>1, <3>2 DEF WriteExploit, PendingConsistent, ProbeOf
    <3>. QED
      BY <1>12, <3>3 DEF WriteExploit, Returned, PendingInv
  <2>. QED
    BY <1>12, <2>3, <2>4, <2>5, <2>6
    DEF WriteExploit, SchedTypeOK, schedVars, ReportTypeOK, reportVars,
        CountTypeOK, countVars
<1>13. CASE WriteExploitNoCopy
  <2>1. mode \in Scenario /\ buf \in Module
    BY <1>13 DEF WriteExploitNoCopy, AflTypeOK
  <2>2. AflTypeOK'
    BY <1>9, <1>13, <2>1, ExploitModuleType DEF WriteExploitNoCopy
  <2>3. CountTypeOK'
    BY <1>13, <2>1 DEF WriteExploitNoCopy, Lose, CountTypeOK
  <2>4. PendingInv'
    BY <1>13 DEF WriteExploitNoCopy, Returned, PendingInv, PendingConsistent
  <2>. QED
    BY <1>13, <2>2, <2>3, <2>4
    DEF WriteExploitNoCopy, SchedTypeOK, schedVars, MarkersTypeOK, markerVars,
        ArmTypeOK, ReportTypeOK, reportVars
<1>14. CASE common_fuzz_stuff
  <2>1. MarkersTypeOK'
    BY <1>14, ExecutionType DEF common_fuzz_stuff, AflTypeOK, Writer
  <2>2. AflTypeOK'
    BY <1>14, ScenarioFacts DEF common_fuzz_stuff, Queued, AflTypeOK
  <2>3. PendingInv'
    BY <1>14 DEF common_fuzz_stuff, armVars, PendingInv, PendingConsistent
  <2>. QED
    BY <1>14, <2>1, <2>2, <2>3
    DEF common_fuzz_stuff, SchedTypeOK, schedVars, ArmTypeOK, armVars,
        ReportTypeOK, reportVars, CountTypeOK, countVars
<1>15. ASSUME UNCHANGED <<schedVars, armVars, reportVars, countVars>>
       PROVE  SchedTypeOK' /\ ArmTypeOK' /\ ReportTypeOK' /\ CountTypeOK'
  BY <1>15 DEF SchedTypeOK, schedVars, ArmTypeOK, armVars, ReportTypeOK,
               reportVars, CountTypeOK, countVars
<1>16. ASSUME UNCHANGED <<aflVars, armVars>>
       PROVE  AflTypeOK' /\ PendingInv'
  BY <1>16 DEF aflVars, armVars, AflTypeOK, PendingInv, PendingConsistent
<1>17. CASE RunQueueEntry
  <2>1. pendingQueued => swam_pending_module \in Module
    BY DEF PendingInv, PendingConsistent, ArmTypeOK
  <2>2. MarkersTypeOK'
    BY <1>17, <2>1, ExecutionType DEF RunQueueEntry, AflTypeOK, Writer
  <2>. QED
    BY <1>15, <1>16, <1>17, <2>2 DEF RunQueueEntry
<1>18. ASSUME NEW s \in Scenario, sync_fuzzers(ProbeOf(s)) PROVE TypeInv'
  <2>1. MarkersTypeOK'
    BY <1>18, ExecutionType, ScenarioFacts DEF sync_fuzzers, Writer
  <2>2. AflTypeOK'
    BY <1>18, ScenarioFacts DEF sync_fuzzers, Queued, AflTypeOK
  <2>3. PendingInv'
    BY <1>18 DEF sync_fuzzers, armVars, PendingInv, PendingConsistent
  <2>. QED
    BY <1>15, <1>18, <2>1, <2>2, <2>3 DEF sync_fuzzers
<1>19. CASE Interference
  <2>1. MarkersTypeOK'
    BY <1>19 DEF Interference, PeerFile, MarkersTypeOK, Markers, Writer
  <2>. QED
    BY <1>15, <1>16, <1>19, <2>1 DEF Interference
<1>20. CASE afl_custom_deinit
  <2>1. swam_last_was_exploit => /\ swam_last_scenario_id \in Scenario
                                 /\ swam_pending_module \in Module
    BY DEF PendingInv, PendingConsistent, ArmTypeOK
  <2>2. corpus' \in SUBSET Module
    BY <1>20, <2>1 DEF afl_custom_deinit, AflTypeOK, PendingInv
  <2>3. AflTypeOK'
    BY <1>20, <2>2 DEF afl_custom_deinit, AflTypeOK
  <2>4. CountTypeOK'
    BY <1>20, <2>1 DEF afl_custom_deinit, Lose, CountTypeOK
  <2>5. PendingInv'
    BY <1>20 DEF afl_custom_deinit, PendingInv, PendingConsistent
  <2>6. MarkersTypeOK' /\ ArmTypeOK'
    BY <1>20 DEF afl_custom_deinit, swam_markers_cleanup, MarkersTypeOK,
                 ArmTypeOK
  <2>. QED
    BY <1>20, <2>3, <2>4, <2>5, <2>6
    DEF afl_custom_deinit, SchedTypeOK, schedVars, ReportTypeOK, reportVars
<1>21. CASE UNCHANGED vars
  <2>1. UNCHANGED <<schedVars, markerVars, aflVars, armVars, reportVars, countVars>>
    BY <1>21 DEF vars
  <2>2. MarkersTypeOK'
    BY <2>1 DEF markerVars, MarkersTypeOK
  <2>. QED
    BY <1>15, <1>16, <2>1, <2>2
<1>. QED
  BY <1>1, <1>2, <1>3, <1>5, <1>6, <1>7, <1>8, <1>10, <1>11, <1>12, <1>13,
     <1>14, <1>17, <1>18, <1>19, <1>20, <1>21
  DEF Next, afl_custom_fuzz, Enter, Decide, Write

\* Type correctness of the composed mutator, scheduler and marker channel, for
\* every catalog and every environment.
THEOREM TypeCorrect == Spec => []TypeOK
<1>1. TypeInv => TypeOK
  BY DEF TypeInv
<1>. QED
  BY InitType, NextType, <1>1, PTL DEF Spec

\* Whenever a verdict is due there is a module to save and it carries the probe
\* the verdict is about (afl_custom_fuzz and swam_oracle_check).
THEOREM PendingIsConsistent == Spec => []PendingConsistent
<1>1. TypeInv => PendingConsistent
  BY DEF TypeInv, PendingInv
<1>. QED
  BY InitType, NextType, <1>1, PTL DEF Spec

-----------------------------------------------------------------------------
(***************************************************************************)
(* Freshness of the evidence.                                              *)
(***************************************************************************)
NotStale(cell) == cell \in Markers => cell.from # "stale"

\* Neither channel holds an old record while a verdict is due, whichever of the
\* two swam_markers_read will prefer.
FreshInv == swam_last_was_exploit => NotStale(s_shm) /\ NotStale(markerFile)

LEMMA ExecutionFresh ==
  ASSUME NEW m, NEW w \in {"pending", "other"}, Execution(m, w),
         NotStale(s_shm), NotStale(markerFile)
  PROVE  NotStale(s_shm)' /\ NotStale(markerFile)'
<1>1. CASE UNCHANGED markerVars
  BY <1>1 DEF markerVars, NotStale
<1>2. ASSUME NEW r \in Reports(m, w), HarnessReport(r)
      PROVE  NotStale(s_shm)' /\ NotStale(markerFile)'
  <2>1. r.from = w
    BY DEF Reports
  <2>. QED
    BY <1>2, <2>1, MarkersAssumption DEF HarnessReport, markerVars, NotStale
<1>. QED
  BY <1>1, <1>2 DEF Execution

LEMMA NextFresh == TypeInv /\ FreshInv /\ [Next]_vars => FreshInv'
<1>. SUFFICES ASSUME TypeInv, FreshInv, [Next]_vars, swam_last_was_exploit'
              PROVE  NotStale(s_shm)' /\ NotStale(markerFile)'
  BY DEF FreshInv
<1>1. CASE afl_custom_fuzz
  <2>1. CASE WriteExploit
    <3>1. s_shm' \in {NoShm, NoMarkers} /\ markerFile' = NoMarkers
      BY <2>1, MarkersAssumption
         DEF WriteExploit, swam_markers_reset, Aged, ResetShm, ResetFile
    <3>. QED
      BY <3>1, MarkersAssumption DEF NotStale
  <2>2. ~swam_last_was_exploit /\ ~WriteExploit => ~swam_last_was_exploit'
    BY <1>1 DEF afl_custom_fuzz, Enter, Decide, Write, JudgePending,
       NothingPending, ParseFail, Explore, ExploitNoScenario, ExploitCloneFail,
       ExploitInstantiateFail, ExploitInstantiated, Chosen, WriteFail,
       WriteExplored, WriteExploitNoCopy, armVars
  <2>3. swam_last_was_exploit => ~swam_last_was_exploit'
    BY <1>1 DEF afl_custom_fuzz, Enter, Decide, Write, JudgePending,
       NothingPending, ParseFail, Explore, ExploitNoScenario, ExploitCloneFail,
       ExploitInstantiateFail, ExploitInstantiated, Selected, WriteFail,
       WriteExplored, WriteExploit, WriteExploitNoCopy, TypeInv, PendingInv
  <2>. QED
    BY <2>1, <2>2, <2>3
<1>2. CASE common_fuzz_stuff
  <2>1. swam_last_was_exploit
    BY <1>2 DEF common_fuzz_stuff, armVars
  <2>2. Execution(out, "pending")
    BY <1>2, <2>1 DEF common_fuzz_stuff
  <2>. QED
    BY <2>1, <2>2, ExecutionFresh DEF FreshInv
<1>3. CASE RunQueueEntry
  <2>1. swam_last_was_exploit
    BY <1>3 DEF RunQueueEntry, armVars
  <2>. QED
    BY <1>3, <2>1, ExecutionFresh DEF RunQueueEntry, FreshInv
<1>4. ASSUME NEW m, sync_fuzzers(m)
      PROVE  NotStale(s_shm)' /\ NotStale(markerFile)'
  <2>1. swam_last_was_exploit
    BY <1>4 DEF sync_fuzzers, armVars
  <2>. QED
    BY <1>4, <2>1, ExecutionFresh DEF sync_fuzzers, FreshInv
<1>5. CASE Interference
  BY <1>5, MarkersAssumption DEF Interference, PeerFile, armVars, FreshInv, NotStale
<1>6. CASE afl_custom_deinit
  BY <1>6 DEF afl_custom_deinit
<1>7. CASE UNCHANGED vars
  BY <1>7 DEF vars, armVars, markerVars, FreshInv, NotStale
<1>. QED
  BY <1>1, <1>2, <1>3, <1>4, <1>5, <1>6, <1>7 DEF Next

\* No verdict rests on markers older than the judged module: neither a file an
\* earlier session left nor an execution before the module was emitted.
THEOREM EvidenceIsFresh == Spec => []EvidenceFresh
<1>1. Init => FreshInv
  BY DEF Init, afl_custom_init, FreshInv
<1>2. TypeInv /\ FreshInv => EvidenceFresh
  BY MarkersAssumption DEF FreshInv, EvidenceFresh, NotStale, TypeInv, TypeOK,
     MarkersTypeOK, swam_markers_read
<1>. QED
  BY InitType, NextType, NextFresh, <1>1, <1>2, PTL DEF Spec

-----------------------------------------------------------------------------
(***************************************************************************)
(* The scheduler's bookkeeping.                                            *)
(***************************************************************************)
\* Which steps touch the statistics, and how.
LEMMA StatsSteps ==
  ASSUME TypeInv, [Next]_vars
  PROVE  \/ UNCHANGED schedVars
         \/ \E s \in Scenario, o \in SwamSchedOutcome : swam_scheduler_update(s, o)
<1>1. ASSUME NEW m, JudgePending(m)
      PROVE  \E s \in Scenario, o \in SwamSchedOutcome : swam_scheduler_update(s, o)
  BY <1>1, OutcomeType
     DEF JudgePending, swam_oracle_check, TypeInv, PendingInv, PendingConsistent
<1>2. ASSUME NEW s \in Scenario, ExploitInstantiateFail(s)
      PROVE  \E t \in Scenario, o \in SwamSchedOutcome : swam_scheduler_update(t, o)
  BY <1>2 DEF ExploitInstantiateFail, SwamSchedOutcome
<1>. QED
  BY <1>1, <1>2
  DEF Next, vars, afl_custom_fuzz, Enter, Decide, Write, NothingPending,
      ParseFail, Explore, ExploitNoScenario, ExploitCloneFail,
      ExploitInstantiated, WriteFail, WriteExplored, WriteExploit,
      WriteExploitNoCopy, common_fuzz_stuff, RunQueueEntry, sync_fuzzers,
      Interference, afl_custom_deinit

\* Rates in the UCB1 score never exceed 1 and failed instantiations are disjoint
\* from reached probes.
THEOREM CountersAreConsistent == Spec => []CountersConsistent
<1>1. Init => CountersConsistent
  BY DEF Init, afl_custom_init, swam_scheduler_create, NoStats, CountersConsistent
<1>2. TypeInv /\ CountersConsistent /\ [Next]_vars => CountersConsistent'
  <2>. SUFFICES ASSUME TypeInv, CountersConsistent, [Next]_vars
                PROVE  CountersConsistent'
    OBVIOUS
  <2>1. CASE UNCHANGED schedVars
    BY <2>1 DEF schedVars, CountersConsistent
  <2>2. ASSUME NEW s \in Scenario, NEW o \in SwamSchedOutcome,
               swam_scheduler_update(s, o)
        PROVE  CountersConsistent'
    <3>1. stats \in [Scenario -> SwamScenarioStats]
      BY DEF TypeInv, TypeOK, SchedTypeOK
    <3>2. CASE sched
      <4>1. stats' = [stats EXCEPT ![s] = Recorded(stats[s], o)]
        BY <2>2, <3>2 DEF swam_scheduler_update
      <4>2. /\ Recorded(stats[s], o).n_completed <= Recorded(stats[s], o).n_reached
            /\ Recorded(stats[s], o).n_reached + Recorded(stats[s], o).n_instantiate_fail
                 <= Recorded(stats[s], o).n_selected
        BY <3>1 DEF CountersConsistent, Recorded, SwamScenarioStats, SwamSchedOutcome
      <4>. QED
        BY <3>1, <4>1, <4>2 DEF CountersConsistent
    <3>3. CASE ~sched
      BY <2>2, <3>3 DEF swam_scheduler_update, CountersConsistent
    <3>. QED
      BY <3>2, <3>3
  <2>. QED
    BY <2>1, <2>2, StatsSteps
<1>. QED
  BY InitType, NextType, <1>1, <1>2, PTL DEF Spec

\* The effect of a recorded outcome on n_selected.
LEMMA UpdateCounts ==
  ASSUME SchedTypeOK, sched, NEW s \in Scenario, NEW o,
         swam_scheduler_update(s, o)
  PROVE  /\ stats'[s].n_selected = stats[s].n_selected + 1
         /\ \A t \in Scenario \ {s} : stats'[t] = stats[t]
<1>1. stats' = [stats EXCEPT ![s] = Recorded(stats[s], o)]
  BY DEF swam_scheduler_update
<1>. QED
  BY <1>1 DEF Recorded, SchedTypeOK

LEMMA NextLedger == TypeInv /\ LedgerBalanced /\ [Next]_vars => LedgerBalanced'
<1>. SUFFICES ASSUME TypeInv, LedgerBalanced, [Next]_vars, sched', NEW t \in Scenario
              PROVE  selections'[t] = stats'[t].n_selected + InFlight(t)' + lost'[t]
  BY DEF LedgerBalanced
<1>. USE DEF TypeInv, TypeOK
<1>1. sched
  BY StatsSteps DEF schedVars, swam_scheduler_update
<1>2. selections[t] = stats[t].n_selected + InFlight(t) + lost[t]
  BY <1>1 DEF LedgerBalanced
<1>3. /\ selections \in [Scenario -> Nat]
      /\ lost \in [Scenario -> Nat]
      /\ stats[t].n_selected \in Nat
      /\ 0 \notin Scenario
  BY ScenarioFacts DEF CountTypeOK, SchedTypeOK, SwamScenarioStats
<1>4. ASSUME NEW m, JudgePending(m)
      PROVE  selections'[t] = stats'[t].n_selected + InFlight(t)' + lost'[t]
  <2>1. /\ swam_last_scenario_id \in Scenario
        /\ swam_scheduler_update(swam_last_scenario_id, Outcome(swam_last_scenario_id))
        /\ selections' = selections /\ lost' = lost
        /\ pc = "idle" /\ swam_last_was_exploit
    BY <1>4 DEF JudgePending, swam_oracle_check, PendingInv, PendingConsistent, countVars
  <2>2. InFlight(t) = IF swam_last_scenario_id = t THEN 1 ELSE 0
    BY <2>1 DEF InFlight
  <2>3. InFlight(t)' = 0
    BY <1>4 DEF JudgePending, InFlight
  <2>4. stats'[t].n_selected = stats[t].n_selected + InFlight(t)
    BY <1>1, <1>3, <2>1, <2>2, UpdateCounts
  <2>. QED
    BY <1>2, <1>3, <2>1, <2>2, <2>3, <2>4
<1>5. ASSUME NEW m, NothingPending(m)
      PROVE  selections'[t] = stats'[t].n_selected + InFlight(t)' + lost'[t]
  <2>1. InFlight(t)' = InFlight(t)
    BY <1>5 DEF NothingPending, armVars, InFlight
  <2>. QED
    BY <1>2, <1>5, <2>1 DEF NothingPending, schedVars, countVars
<1>6. CASE ParseFail
  <2>1. InFlight(t)' = InFlight(t)
    BY <1>6 DEF ParseFail, Returned, armVars, InFlight
  <2>. QED
    BY <1>2, <1>6, <2>1 DEF ParseFail, schedVars, countVars
<1>7. ASSUME NEW s \in Scenario \cup {0}, pc = "fuzz", Chosen(s)
      PROVE  InFlight(t) = 0 /\ InFlight(t)' = IF s = t THEN 1 ELSE 0
  BY <1>7 DEF Chosen, armVars, PendingInv, InFlight
<1>8. CASE Explore \/ ExploitNoScenario
  <2>1. pc = "fuzz" /\ Chosen(0) /\ UNCHANGED <<schedVars, countVars>>
    BY <1>8 DEF Explore, ExploitNoScenario
  <2>2. InFlight(t) = 0 /\ InFlight(t)' = 0
    BY <1>3, <1>7, <2>1
  <2>. QED
    BY <1>2, <2>1, <2>2 DEF schedVars, countVars
<1>9. ASSUME NEW s \in Scenario, ExploitCloneFail(s)
      PROVE  selections'[t] = stats'[t].n_selected + InFlight(t)' + lost'[t]
  <2>1. InFlight(t) = 0 /\ InFlight(t)' = 0
    BY <1>3, <1>7, <1>9 DEF ExploitCloneFail, Selected
  <2>2. /\ selections'[t] = IF s = t THEN selections[t] + 1 ELSE selections[t]
        /\ lost'[t] = IF s = t THEN lost[t] + 1 ELSE lost[t]
        /\ stats' = stats
    BY <1>3, <1>9 DEF ExploitCloneFail, Selected, Lose, schedVars
  <2>. QED
    BY <1>2, <1>3, <2>1, <2>2
<1>10. ASSUME NEW s \in Scenario, ExploitInstantiateFail(s)
      PROVE  selections'[t] = stats'[t].n_selected + InFlight(t)' + lost'[t]
  <2>1. InFlight(t) = 0 /\ InFlight(t)' = 0
    BY <1>3, <1>7, <1>10 DEF ExploitInstantiateFail, Selected
  <2>2. /\ selections'[t] = IF s = t THEN selections[t] + 1 ELSE selections[t]
        /\ lost' = lost
    BY <1>3, <1>10 DEF ExploitInstantiateFail, Selected
  <2>3. stats'[t].n_selected = IF s = t THEN stats[t].n_selected + 1
                                        ELSE stats[t].n_selected
    BY <1>1, <1>10, UpdateCounts DEF ExploitInstantiateFail
  <2>. QED
    BY <1>2, <1>3, <2>1, <2>2, <2>3
<1>11. ASSUME NEW s \in Scenario, ExploitInstantiated(s)
      PROVE  selections'[t] = stats'[t].n_selected + InFlight(t)' + lost'[t]
  <2>1. InFlight(t) = 0 /\ InFlight(t)' = IF s = t THEN 1 ELSE 0
    BY <1>7, <1>11 DEF ExploitInstantiated, Selected
  <2>2. /\ selections'[t] = IF s = t THEN selections[t] + 1 ELSE selections[t]
        /\ lost' = lost
        /\ stats' = stats
    BY <1>3, <1>11 DEF ExploitInstantiated, Selected, schedVars
  <2>. QED
    BY <1>2, <1>3, <2>1, <2>2
<1>12. CASE WriteFail \/ WriteExplored \/ WriteExploitNoCopy
  <2>0. pc = "write" /\ swam_last_was_exploit' = swam_last_was_exploit
    BY <1>12 DEF WriteFail, WriteExplored, WriteExploitNoCopy, armVars
  <2>1. /\ pc' = "run" /\ mode \in Scenario \cup {0}
        /\ selections' = selections /\ stats' = stats
    BY <1>12 DEF WriteFail, WriteExplored, WriteExploitNoCopy, Returned,
                 countVars, schedVars, AflTypeOK
  <2>2. InFlight(t)' = 0 /\ InFlight(t) = IF mode = t THEN 1 ELSE 0
    BY <2>0, <2>1 DEF InFlight, PendingInv
  <2>3. lost'[t] = IF mode = t THEN lost[t] + 1 ELSE lost[t]
    BY <1>3, <1>12, <2>1 DEF WriteFail, WriteExplored, WriteExploitNoCopy, Lose, countVars
  <2>. QED
    BY <1>2, <1>3, <2>1, <2>2, <2>3
<1>13. CASE WriteExploit
  <2>1. InFlight(t)' = InFlight(t)
    BY <1>13 DEF WriteExploit, Returned, InFlight, PendingInv
  <2>. QED
    BY <1>2, <1>13, <2>1 DEF WriteExploit, schedVars, countVars
<1>14. CASE afl_custom_deinit
  <2>1. /\ InFlight(t)' = 0
        /\ InFlight(t) = IF swam_last_was_exploit /\ swam_last_scenario_id = t
                           THEN 1 ELSE 0
    BY <1>14 DEF afl_custom_deinit, InFlight
  <2>2. lost'[t] = lost[t] + InFlight(t)
    BY <1>3, <1>14, <2>1 DEF afl_custom_deinit, Lose, PendingInv, PendingConsistent
  <2>. QED
    BY <1>2, <1>3, <1>14, <2>1, <2>2 DEF afl_custom_deinit, schedVars
<1>15. CASE common_fuzz_stuff
  <2>1. InFlight(t)' = InFlight(t)
    BY <1>15 DEF common_fuzz_stuff, armVars, InFlight
  <2>. QED
    BY <1>2, <1>15, <2>1 DEF common_fuzz_stuff, schedVars, countVars
<1>16. ASSUME pc' = pc, mode' = mode, UNCHANGED <<schedVars, armVars, countVars>>
       PROVE  selections'[t] = stats'[t].n_selected + InFlight(t)' + lost'[t]
  <2>1. InFlight(t)' = InFlight(t)
    BY <1>16 DEF armVars, InFlight
  <2>. QED
    BY <1>2, <1>16, <2>1 DEF schedVars, countVars
<1>17. CASE \/ RunQueueEntry \/ Interference \/ UNCHANGED vars
            \/ \E m \in {ProbeOf(s) : s \in Scenario} : sync_fuzzers(m)
  BY <1>16, <1>17 DEF RunQueueEntry, Interference, sync_fuzzers, aflVars, vars
<1>. QED
  BY <1>4, <1>5, <1>6, <1>8, <1>9, <1>10, <1>11, <1>12, <1>13, <1>14, <1>15, <1>17
  DEF Next, afl_custom_fuzz, Enter, Decide, Write

\* Every selection is recorded once, is on its way, or was lost on a known path.
THEOREM LedgerIsBalanced == Spec => []LedgerBalanced
<1>1. Init => LedgerBalanced
  BY DEF Init, afl_custom_init, swam_scheduler_create, NoStats, InFlight, LedgerBalanced
<1>. QED
  BY InitType, NextType, NextLedger, <1>1, PTL DEF Spec

-----------------------------------------------------------------------------
(***************************************************************************)
(* The cold start.                                                         *)
(***************************************************************************)
\* While some active scenario is untried, every active scenario has at most one
\* trial, the one still in flight included.
ColdInv ==
  /\ ~sched => \A s \in Scenario : stats[s].n_selected = 0
  /\ sched /\ Unselected # {} =>
       \A s \in Active : stats[s].n_selected + InFlight(s) <= 1

\* Only a selection moves the history count, and a loss is never taken back.
LEMMA SelectionSteps ==
  ASSUME TypeInv, [Next]_vars
  PROVE  /\ \/ selections' = selections
            \/ \E s \in Scenario : Selected(s)
         /\ \A t \in Scenario : lost'[t] \in Nat /\ lost[t] \in Nat /\ lost'[t] >= lost[t]
<1>1. \/ selections' = selections
      \/ \E s \in Scenario : Selected(s)
  BY DEF Next, vars, afl_custom_fuzz, Enter, Decide, Write, JudgePending,
      NothingPending, ParseFail, Explore, ExploitNoScenario, ExploitCloneFail,
      ExploitInstantiateFail, ExploitInstantiated, WriteFail, WriteExplored,
      WriteExploit, WriteExploitNoCopy, common_fuzz_stuff, RunQueueEntry,
      sync_fuzzers, Interference, afl_custom_deinit, countVars
<1>2. \/ lost' = lost
      \/ \E s : lost' = Lose(s)
  BY DEF Next, vars, afl_custom_fuzz, Enter, Decide, Write, JudgePending,
      NothingPending, ParseFail, Explore, ExploitNoScenario, ExploitCloneFail,
      ExploitInstantiateFail, ExploitInstantiated, WriteFail, WriteExplored,
      WriteExploit, WriteExploitNoCopy, common_fuzz_stuff, RunQueueEntry,
      sync_fuzzers, Interference, afl_custom_deinit, countVars
<1>3. lost \in [Scenario -> Nat]
  BY DEF TypeInv, TypeOK, CountTypeOK
<1>. QED
  BY <1>1, <1>2, <1>3 DEF Lose

LEMMA NextCold ==
  TypeInv /\ TypeInv' /\ LedgerBalanced /\ LedgerBalanced' /\ ColdInv /\ [Next]_vars
    => ColdInv'
<1>. SUFFICES ASSUME TypeInv, TypeInv', LedgerBalanced, LedgerBalanced', ColdInv,
                     [Next]_vars
              PROVE  ColdInv'
  OBVIOUS
<1>1. /\ sched' = sched
      /\ Active' = Active
  BY StatsSteps DEF schedVars, swam_scheduler_update, Active,
     swam_scenario_passes_filter
<1>2. stats \in [Scenario -> SwamScenarioStats] /\ stats' \in [Scenario -> SwamScenarioStats]
  BY DEF TypeInv, TypeOK, SchedTypeOK
<1>3. ~sched => stats' = stats
  BY StatsSteps DEF schedVars, swam_scheduler_update
<1>4. \A t \in Scenario : sched => stats'[t].n_selected >= stats[t].n_selected
  <2>. SUFFICES ASSUME NEW t \in Scenario, sched
                PROVE  stats'[t].n_selected >= stats[t].n_selected
    OBVIOUS
  <2>1. stats[t].n_selected \in Nat
    BY <1>2 DEF SwamScenarioStats
  <2>2. CASE UNCHANGED schedVars
    BY <2>1, <2>2 DEF schedVars
  <2>3. ASSUME NEW s \in Scenario, NEW o \in SwamSchedOutcome,
               swam_scheduler_update(s, o)
        PROVE  stats'[t].n_selected >= stats[t].n_selected
    BY <2>1, <2>3, UpdateCounts DEF TypeInv, TypeOK
  <2>. QED
    BY <2>2, <2>3, StatsSteps
<1>5. ASSUME sched, Unselected' # {}, NEW t \in Active
      PROVE  stats'[t].n_selected + InFlight(t)' <= 1
  <2>1. PICK u \in Active : stats'[u].n_selected = 0
    BY <1>1, <1>5 DEF Unselected
  <2>2. Active \subseteq Scenario
    BY DEF Active
  <2>3. Unselected # {}
    <3>1. stats'[u].n_selected >= stats[u].n_selected /\ stats[u].n_selected \in Nat
      BY <1>2, <1>4, <1>5, <2>2 DEF SwamScenarioStats
    <3>. QED
      BY <2>1, <3>1 DEF Unselected
  <2>4. stats[t].n_selected + InFlight(t) <= 1
    BY <1>5, <2>3 DEF ColdInv
  <2>5. /\ selections[t] = stats[t].n_selected + InFlight(t) + lost[t]
        /\ selections'[t] = stats'[t].n_selected + InFlight(t)' + lost'[t]
    BY <1>1, <1>5, <2>2 DEF LedgerBalanced
  <2>6. /\ stats[t].n_selected \in Nat /\ stats'[t].n_selected \in Nat
        /\ InFlight(t) \in Nat /\ InFlight(t)' \in Nat
        /\ lost[t] \in Nat /\ lost'[t] \in Nat /\ lost'[t] >= lost[t]
    BY <1>2, <2>2, SelectionSteps DEF SwamScenarioStats, InFlight
  <2>7. CASE selections'[t] = selections[t]
    BY <2>4, <2>5, <2>6, <2>7
  <2>8. ASSUME NEW s \in Scenario, Selected(s), s = t
        PROVE  stats'[t].n_selected + InFlight(t)' <= 1
    <3>1. 0 \notin Scenario
      BY ScenarioFacts
    <3>2. t \in Unselected
      BY <1>5, <2>2, <2>3, <2>8, <3>1
         DEF Selected, swam_scheduler_select, SelectCold, SelectEpsilon,
             SelectUCB, SelectFallback, SelectNone, SelectNoSched
    <3>3. stats[t].n_selected = 0
      BY <3>2 DEF Unselected
    <3>4. InFlight(t) = 0
      BY <2>8 DEF Selected, InFlight, TypeInv, PendingInv
    <3>5. selections'[t] = selections[t] + 1
      BY <2>8 DEF Selected, TypeInv, TypeOK, CountTypeOK
    <3>. QED
      BY <2>5, <2>6, <3>3, <3>4, <3>5
  <2>9. ASSUME NEW s \in Scenario, Selected(s), s # t
        PROVE  selections'[t] = selections[t]
    BY <2>2, <2>9 DEF Selected, TypeInv, TypeOK, CountTypeOK
  <2>. QED
    BY <2>7, <2>8, <2>9, SelectionSteps
<1>. QED
  BY <1>1, <1>3, <1>5 DEF ColdInv

\* Explore first: with the delayed verdict recorded before the next selection,
\* no scenario is tried twice while another active one is untried.
THEOREM ColdStartIsFirst == Spec => []ColdStartFirst
<1>1. Init => ColdInv
  BY DEF Init, afl_custom_init, swam_scheduler_create, NoStats, InFlight, ColdInv, Active
<1>2. Init => LedgerBalanced
  BY DEF Init, afl_custom_init, swam_scheduler_create, NoStats, InFlight, LedgerBalanced
<1>3. TypeInv /\ ColdInv => ColdStartFirst
  <2>. SUFFICES ASSUME TypeInv, ColdInv, NEW s \in Active, NEW t \in Active,
                       stats[s].n_selected >= 2
                PROVE  stats[t].n_selected >= 1
    BY DEF ColdStartFirst
  <2>1. /\ s \in Scenario /\ t \in Scenario
        /\ stats[s].n_selected \in Nat /\ stats[t].n_selected \in Nat
        /\ InFlight(s) \in Nat
    BY DEF Active, TypeInv, TypeOK, SchedTypeOK, SwamScenarioStats, InFlight
  <2>2. sched
    BY <2>1 DEF ColdInv
  <2>3. Unselected = {}
    BY <2>1, <2>2 DEF ColdInv
  <2>. QED
    BY <2>1, <2>3 DEF Unselected
<1>. QED
  BY InitType, NextType, NextLedger, NextCold, <1>1, <1>2, <1>3, PTL DEF Spec
-----------------------------------------------------------------------------
(***************************************************************************)
(* The report files.                                                       *)
(***************************************************************************)
\* A file of the reported module was added, or could not be opened.
FileAdded(s, tag) ==
  \/ files' = files
  \/ \E f : /\ files' = files \cup {f}
            /\ f.scenario = s
            /\ f.tag = tag
            /\ f.module = swam_pending_module

\* The ways a verdict on s can be reported: a bug beyond the cap is only
\* counted, a bug within it uses up a slot, and the same for a scenario whose
\* outcome is not specified.
BugDropped(s, tag) ==
  /\ swam_bug_hits_total' = swam_bug_hits_total + 1
  /\ swam_saved_bug_count[<<s, tag>>] >= BugSaveCap
  /\ UNCHANGED <<swam_saved_bug_count, bug_counter, unknown_counter, files,
                 swam_unknown_saved_notrap, swam_unknown_saved_trap>>

BugFiled(s, tag) ==
  /\ swam_bug_hits_total' = swam_bug_hits_total + 1
  /\ swam_saved_bug_count[<<s, tag>>] < BugSaveCap
  /\ swam_saved_bug_count' = [swam_saved_bug_count EXCEPT ![<<s, tag>>] = @ + 1]
  /\ bug_counter' = bug_counter + 1
  /\ FileAdded(s, tag)
  /\ UNCHANGED <<unknown_counter, swam_unknown_saved_notrap, swam_unknown_saved_trap>>

TrapFiled(s) ==
  /\ swam_unknown_saved_trap' = [swam_unknown_saved_trap EXCEPT ![s] = @ + 1]
  /\ unknown_counter' = unknown_counter + 1
  /\ FileAdded(s, "unknown_trap")
  /\ UNCHANGED <<swam_bug_hits_total, swam_saved_bug_count, bug_counter,
                 swam_unknown_saved_notrap>>

NotrapFiled(s) ==
  /\ swam_unknown_saved_notrap[s] < NotrapSaveCap
  /\ swam_unknown_saved_notrap' = [swam_unknown_saved_notrap EXCEPT ![s] = @ + 1]
  /\ unknown_counter' = unknown_counter + 1
  /\ FileAdded(s, "unknown_notrap")
  /\ UNCHANGED <<swam_bug_hits_total, swam_saved_bug_count, bug_counter,
                 swam_unknown_saved_trap>>

NothingFiled ==
  UNCHANGED <<swam_bug_hits_total, swam_saved_bug_count, bug_counter,
              unknown_counter, files, swam_unknown_saved_notrap,
              swam_unknown_saved_trap>>

Filed(s) ==
  \/ NothingFiled
  \/ Expected[s] = "TRAP" /\ (BugDropped(s, "bypass") \/ BugFiled(s, "bypass"))
  \/ Expected[s] = "NO_TRAP" /\ (BugDropped(s, "false_trap") \/ BugFiled(s, "false_trap"))
  \/ Expected[s] = "UNKNOWN" /\ (TrapFiled(s) \/ NotrapFiled(s))

LEMMA SavedAddsFile ==
  ASSUME NEW s, NEW tag, NEW id, files' \in Saved(s, tag, id)
  PROVE  FileAdded(s, tag)
<1>. DEFINE f == [id |-> id, scenario |-> s, tag |-> tag,
                  module |-> swam_pending_module,
                  evidence |-> swam_markers_read.from]
<1>1. f.scenario = s /\ f.tag = tag /\ f.module = swam_pending_module
  OBVIOUS
<1>2. files' = files \/ files' = files \cup {f}
  BY DEF Saved
<1>. HIDE DEF f
<1>. QED
  BY <1>1, <1>2 DEF FileAdded

LEMMA ReportFiles ==
  ASSUME TypeInv, NEW s \in Scenario, NEW o, swam_pending_module # NoModule,
         Report(s, o)
  PROVE  Filed(s)
<1>1. ASSUME NEW tag \in BugTag, swam_maybe_save_bug(s, tag)
      PROVE  BugDropped(s, tag) \/ BugFiled(s, tag)
  <2>1. BugSaveCap \in Nat /\ swam_saved_bug_count[<<s, tag>>] \in Nat
    BY <1>1, MutatorAssumption DEF TypeInv, TypeOK, ReportTypeOK
  <2>2. CASE swam_saved_bug_count[<<s, tag>>] >= BugSaveCap
    BY <1>1, <2>2 DEF swam_maybe_save_bug, BugDropped
  <2>3. CASE ~(swam_saved_bug_count[<<s, tag>>] >= BugSaveCap)
    <3>1. FileAdded(s, tag)
      BY <1>1, <2>3, SavedAddsFile DEF swam_maybe_save_bug, swam_save_bug
    <3>2. swam_saved_bug_count[<<s, tag>>] < BugSaveCap
      BY <2>1, <2>3
    <3>. QED
      BY <1>1, <2>3, <3>1, <3>2 DEF swam_maybe_save_bug, swam_save_bug, BugFiled
  <2>. QED
    BY <2>2, <2>3
<1>2. ASSUME NEW trapped \in BOOLEAN, ReportUnknown(s, trapped)
      PROVE  TrapFiled(s) \/ NotrapFiled(s) \/ NothingFiled
  <2>1. CASE trapped
    <3>1. FileAdded(s, "unknown_trap")
      BY <1>2, <2>1, SavedAddsFile DEF ReportUnknown, swam_save_unknown
    <3>. QED
      BY <1>2, <2>1, <3>1 DEF ReportUnknown, swam_save_unknown, TrapFiled
  <2>2. CASE ~trapped /\ swam_unknown_saved_notrap[s] < NotrapSaveCap
    <3>1. FileAdded(s, "unknown_notrap")
      BY <1>2, <2>2, SavedAddsFile DEF ReportUnknown, swam_save_unknown
    <3>. QED
      BY <1>2, <2>2, <3>1 DEF ReportUnknown, swam_save_unknown, NotrapFiled
  <2>3. CASE ~trapped /\ ~(swam_unknown_saved_notrap[s] < NotrapSaveCap)
    BY <1>2, <2>3 DEF ReportUnknown, NothingFiled
  <2>. QED
    BY <2>1, <2>2, <2>3
<1>3. CASE UNCHANGED reportVars
  BY <1>3 DEF reportVars, Filed, NothingFiled
<1>. QED
  BY <1>1, <1>2, <1>3 DEF Report, Filed, BugTag

\* Which steps touch the reports: the verdict on the pending module.
LEMMA ReportSteps ==
  ASSUME TypeInv, [Next]_vars
  PROVE  \/ NothingFiled
         \/ /\ swam_last_scenario_id \in Scenario
            /\ NamesKept => swam_pending_module = ProbeOf(swam_last_scenario_id)
            /\ Filed(swam_last_scenario_id)
<1>1. ASSUME NEW m, JudgePending(m)
      PROVE  /\ swam_last_scenario_id \in Scenario
             /\ NamesKept => swam_pending_module = ProbeOf(swam_last_scenario_id)
             /\ Filed(swam_last_scenario_id)
  <2>1. /\ swam_last_scenario_id \in Scenario
        /\ swam_pending_module # NoModule
        /\ NamesKept => swam_pending_module = ProbeOf(swam_last_scenario_id)
    BY <1>1 DEF JudgePending, TypeInv, PendingInv, PendingConsistent
  <2>. QED
    BY <1>1, <2>1, ReportFiles DEF JudgePending, swam_oracle_check
<1>2. UNCHANGED reportVars => NothingFiled
  BY DEF reportVars, NothingFiled
<1>. QED
  BY <1>1, <1>2
  DEF Next, vars, afl_custom_fuzz, Enter, Decide, Write, NothingPending,
      ParseFail, Explore, ExploitNoScenario, ExploitCloneFail,
      ExploitInstantiateFail, ExploitInstantiated, Chosen, WriteFail,
      WriteExplored, WriteExploit, WriteExploitNoCopy, common_fuzz_stuff,
      RunQueueEntry, sync_fuzzers, Interference, afl_custom_deinit

\* A report file shows the probe its name announces, and its tag contradicts the
\* scenario's specified outcome.
THEOREM ReportsAreTrue == Spec => []ReportsMatchModule
<1>1. Init => ReportsMatchModule
  BY DEF Init, afl_custom_init, ReportsMatchModule
<1>2. TypeInv /\ ReportsMatchModule /\ [Next]_vars => ReportsMatchModule'
  <2>. SUFFICES ASSUME TypeInv, ReportsMatchModule, [Next]_vars, NEW f \in files'
                PROVE  /\ NamesKept => f.module = ProbeOf(f.scenario)
                       /\ f.tag = "bypass" <=> Expected[f.scenario] = "TRAP"
                       /\ f.tag = "false_trap" <=> Expected[f.scenario] = "NO_TRAP"
    BY DEF ReportsMatchModule
  <2>1. CASE f \in files
    BY <2>1 DEF ReportsMatchModule
  <2>2. CASE f \notin files
    <3>1. PICK tag \in {"bypass", "false_trap", "unknown_trap", "unknown_notrap"} :
            /\ f.scenario = swam_last_scenario_id
            /\ f.tag = tag
            /\ f.module = swam_pending_module
            /\ NamesKept => swam_pending_module = ProbeOf(swam_last_scenario_id)
            /\ tag = "bypass" <=> Expected[swam_last_scenario_id] = "TRAP"
            /\ tag = "false_trap" <=> Expected[swam_last_scenario_id] = "NO_TRAP"
      BY <2>2, ReportSteps DEF Filed, NothingFiled, BugDropped, BugFiled,
         TrapFiled, NotrapFiled, FileAdded
    <3>. QED
      BY <3>1
  <2>. QED
    BY <2>1, <2>2
<1>. QED
  BY InitType, NextType, <1>1, <1>2, PTL DEF Spec

-----------------------------------------------------------------------------
(***************************************************************************)
(* The totals.                                                             *)
(***************************************************************************)
LEMMA NoUnits ==
  ASSUME NEW D, NEW f, f = [x \in D |-> 0]
  PROVE  IsFiniteSet(Units(f)) /\ Total(f) = 0
<1>1. Units(f) = {}
  BY DEF Units
<1>. QED
  BY <1>1, FS_EmptySet DEF Total

LEMMA UnitAdded ==
  ASSUME NEW D, NEW f \in [D -> Nat], NEW x \in D, IsFiniteSet(Units(f)),
         NEW g, g = [f EXCEPT ![x] = f[x] + 1]
  PROVE  IsFiniteSet(Units(g)) /\ Total(g) = Total(f) + 1
<1>. DEFINE u == <<x, f[x] + 1>>
<1>1. u \notin Units(f)
  BY DEF Units
<1>2. Units(g) = Units(f) \cup {u}
  <2>1. ASSUME NEW y \in D, NEW k \in 1..g[y]
        PROVE  <<y, k>> \in Units(f) \cup {u}
    <3>1. CASE y = x
      BY <2>1, <3>1 DEF Units
    <3>2. CASE y # x
      BY <2>1, <3>2 DEF Units
    <3>. QED
      BY <3>1, <3>2
  <2>2. Units(g) \subseteq Units(f) \cup {u}
    BY <2>1 DEF Units
  <2>3. ASSUME NEW y \in D, NEW k \in 1..f[y]
        PROVE  <<y, k>> \in Units(g)
    BY <2>3 DEF Units
  <2>4. u \in Units(g)
    BY DEF Units
  <2>. QED
    BY <2>2, <2>3, <2>4 DEF Units
<1>. HIDE DEF u
<1>3. /\ IsFiniteSet(Units(f) \cup {u})
      /\ Cardinality(Units(f) \cup {u}) = Cardinality(Units(f)) + 1
  BY <1>1, FS_AddElement
<1>. QED
  BY <1>2, <1>3 DEF Total

\* The scheduler's total is the sum over the scenarios.
SumInv ==
  /\ IsFiniteSet(Units([s \in Scenario |-> stats[s].n_selected]))
  /\ TotalIsSum

LEMMA NextSum == TypeInv /\ SumInv /\ [Next]_vars => SumInv'
<1>. SUFFICES ASSUME TypeInv, SumInv, [Next]_vars PROVE SumInv'
  OBVIOUS
<1>. DEFINE f == [s \in Scenario |-> stats[s].n_selected]
<1>1. CASE stats' = stats /\ total_selected' = total_selected
  BY <1>1 DEF SumInv, TotalIsSum
<1>2. ASSUME NEW s \in Scenario, NEW o \in SwamSchedOutcome, sched,
             swam_scheduler_update(s, o)
      PROVE  SumInv'
  <2>1. /\ stats \in [Scenario -> SwamScenarioStats]
        /\ stats' \in [Scenario -> SwamScenarioStats]
    BY NextType DEF TypeInv, TypeOK, SchedTypeOK
  <2>2. f \in [Scenario -> Nat]
    BY <2>1 DEF SwamScenarioStats
  <2>3. f' = [f EXCEPT ![s] = f[s] + 1]
    BY <1>2, <2>1, UpdateCounts DEF TypeInv, TypeOK
  <2>4. total_selected' = total_selected + 1
    BY <1>2 DEF swam_scheduler_update
  <2>5. IsFiniteSet(Units(f)) /\ total_selected = Total(f)
    BY DEF SumInv, TotalIsSum
  <2>6. IsFiniteSet(Units(f')) /\ Total(f') = Total(f) + 1
    <3>. HIDE DEF f
    <3>. QED
      BY <2>2, <2>3, <2>5, UnitAdded
  <2>. QED
    BY <2>4, <2>5, <2>6 DEF SumInv, TotalIsSum
<1>. QED
  BY <1>1, <1>2, StatsSteps DEF schedVars, swam_scheduler_update

\* What makes SlotsHaveNames and ReportsBounded inductive: a slot is used up
\* before its file is written, and never beyond the cap.
FilesOf(s, tag) == {f \in files : f.scenario = s /\ f.tag = tag}

SlotInv ==
  /\ IsFiniteSet(files)
  /\ IsFiniteSet(Units(swam_saved_bug_count))
  /\ IsFiniteSet(Units(swam_unknown_saved_trap))
  /\ IsFiniteSet(Units(swam_unknown_saved_notrap))
  /\ \A s \in Scenario :
       /\ \A tag \in BugTag :
            /\ Cardinality(FilesOf(s, tag)) <= swam_saved_bug_count[<<s, tag>>]
            /\ swam_saved_bug_count[<<s, tag>>] <= BugSaveCap
       /\ Cardinality(FilesOf(s, "unknown_notrap")) <= swam_unknown_saved_notrap[s]
       /\ swam_unknown_saved_notrap[s] <= NotrapSaveCap

\* A report adds at most one file, and only to its own scenario and tag.
LEMMA OneFileAdded ==
  ASSUME IsFiniteSet(files), NEW s, NEW tag, FileAdded(s, tag)
  PROVE  /\ IsFiniteSet(files')
         /\ Cardinality(FilesOf(s, tag)) \in Nat
         /\ Cardinality(FilesOf(s, tag)') \in Nat
         /\ Cardinality(FilesOf(s, tag)') <= Cardinality(FilesOf(s, tag)) + 1
         /\ \A t, k : ~(t = s /\ k = tag) => FilesOf(t, k)' = FilesOf(t, k)
<1>1. IsFiniteSet(FilesOf(s, tag))
  BY FS_Subset DEF FilesOf
<1>2. Cardinality(FilesOf(s, tag)) \in Nat
  BY <1>1, FS_CardinalityType
<1>3. CASE files' = files
  <2>1. \A t, k : FilesOf(t, k)' = FilesOf(t, k)
    BY <1>3 DEF FilesOf
  <2>. QED
    BY <1>2, <1>3, <2>1
<1>4. ASSUME NEW f, files' = files \cup {f}, f.scenario = s, f.tag = tag
      PROVE  /\ IsFiniteSet(files')
             /\ Cardinality(FilesOf(s, tag)') \in Nat
             /\ Cardinality(FilesOf(s, tag)') <= Cardinality(FilesOf(s, tag)) + 1
             /\ \A t, k : ~(t = s /\ k = tag) => FilesOf(t, k)' = FilesOf(t, k)
  <2>1. IsFiniteSet(files')
    BY <1>4, FS_AddElement
  <2>2. FilesOf(s, tag)' = FilesOf(s, tag) \cup {f}
    BY <1>4 DEF FilesOf
  <2>3. \A t, k : ~(t = s /\ k = tag) => FilesOf(t, k)' = FilesOf(t, k)
    BY <1>4 DEF FilesOf
  <2>4. \/ Cardinality(FilesOf(s, tag)') = Cardinality(FilesOf(s, tag))
        \/ Cardinality(FilesOf(s, tag)') = Cardinality(FilesOf(s, tag)) + 1
    BY <1>1, <2>2, FS_AddElement
  <2>. QED
    BY <1>2, <2>1, <2>3, <2>4
<1>. QED
  BY <1>2, <1>3, <1>4 DEF FileAdded

LEMMA NextSlots ==
  TypeInv /\ SlotInv /\ SlotsHaveNames /\ [Next]_vars => SlotInv' /\ SlotsHaveNames'
<1>. SUFFICES ASSUME TypeInv, SlotInv, SlotsHaveNames, [Next]_vars
              PROVE  SlotInv' /\ SlotsHaveNames'
  OBVIOUS
<1>. DEFINE n == swam_last_scenario_id
<1>1. /\ swam_saved_bug_count \in [Scenario \X BugTag -> Nat]
      /\ swam_unknown_saved_notrap \in [Scenario -> Nat]
      /\ swam_unknown_saved_trap \in [Scenario -> Nat]
      /\ swam_bug_hits_total \in Nat /\ bug_counter \in Nat /\ unknown_counter \in Nat
      /\ BugSaveCap \in Nat /\ NotrapSaveCap \in Nat
  BY MutatorAssumption DEF TypeInv, TypeOK, ReportTypeOK
<1>2. CASE NothingFiled
  BY <1>2 DEF NothingFiled, SlotInv, SlotsHaveNames, FilesOf
<1>3. ASSUME n \in Scenario, NEW tag \in BugTag, BugDropped(n, tag)
      PROVE  SlotInv' /\ SlotsHaveNames'
  <2>1. SlotInv'
    BY <1>3 DEF BugDropped, SlotInv, FilesOf
  <2>2. swam_saved_bug_count[<<n, tag>>] = BugSaveCap
    BY <1>1, <1>3 DEF BugDropped, SlotInv
  <2>3. \E x \in Scenario \X BugTag : swam_saved_bug_count'[x] = BugSaveCap
    BY <1>3, <2>2 DEF BugDropped
  <2>. QED
    BY <1>3, <2>1, <2>3 DEF BugDropped, SlotsHaveNames
<1>4. ASSUME n \in Scenario, NEW tag \in BugTag, BugFiled(n, tag)
      PROVE  SlotInv' /\ SlotsHaveNames'
  <2>0. <<n, tag>> \in Scenario \X BugTag
    BY <1>4
  <2>1. /\ IsFiniteSet(Units(swam_saved_bug_count'))
        /\ Total(swam_saved_bug_count') = Total(swam_saved_bug_count) + 1
    BY <1>1, <1>4, <2>0, UnitAdded DEF BugFiled, SlotInv
  <2>2. FileAdded(n, tag) /\ IsFiniteSet(files)
    BY <1>4 DEF BugFiled, SlotInv
  <2>3. IsFiniteSet(files')
    BY <2>2, OneFileAdded
  <2>4. ASSUME NEW s \in Scenario
        PROVE  /\ Cardinality(FilesOf(s, "unknown_notrap")') <= swam_unknown_saved_notrap'[s]
               /\ swam_unknown_saved_notrap'[s] <= NotrapSaveCap
    <3>1. FilesOf(s, "unknown_notrap")' = FilesOf(s, "unknown_notrap")
      BY <2>2, OneFileAdded DEF BugTag
    <3>. QED
      BY <1>4, <3>1 DEF BugFiled, SlotInv
  <2>5. ASSUME NEW s \in Scenario, NEW k \in BugTag
        PROVE  /\ Cardinality(FilesOf(s, k)') <= swam_saved_bug_count'[<<s, k>>]
               /\ swam_saved_bug_count'[<<s, k>>] <= BugSaveCap
    <3>1. /\ Cardinality(FilesOf(s, k)) <= swam_saved_bug_count[<<s, k>>]
          /\ swam_saved_bug_count[<<s, k>>] <= BugSaveCap
          /\ swam_saved_bug_count[<<s, k>>] \in Nat
      BY <1>1 DEF SlotInv
    <3>2. CASE s = n /\ k = tag
      <4>1. /\ Cardinality(FilesOf(s, k)) \in Nat
            /\ Cardinality(FilesOf(s, k)') \in Nat
            /\ Cardinality(FilesOf(s, k)') <= Cardinality(FilesOf(s, k)) + 1
        BY <2>2, <3>2, OneFileAdded
      <4>2. /\ swam_saved_bug_count'[<<s, k>>] = swam_saved_bug_count[<<s, k>>] + 1
            /\ swam_saved_bug_count[<<s, k>>] < BugSaveCap
        BY <1>1, <1>4, <2>0, <3>2 DEF BugFiled
      <4>. QED
        BY <1>1, <3>1, <4>1, <4>2
    <3>3. CASE ~(s = n /\ k = tag)
      <4>1. FilesOf(s, k)' = FilesOf(s, k)
        BY <2>2, <3>3, OneFileAdded
      <4>2. <<s, k>> # <<n, tag>>
        BY <3>3
      <4>3. swam_saved_bug_count'[<<s, k>>] = swam_saved_bug_count[<<s, k>>]
        BY <1>1, <1>4, <4>2 DEF BugFiled
      <4>. QED
        BY <3>1, <4>1, <4>3
    <3>. QED
      BY <3>2, <3>3
  <2>6. SlotInv'
    BY <1>4, <2>1, <2>3, <2>4, <2>5 DEF BugFiled, SlotInv
  <2>7. /\ bug_counter' = Total(swam_saved_bug_count')
        /\ unknown_counter' = Total(swam_unknown_saved_trap') + Total(swam_unknown_saved_notrap')
    BY <1>4, <2>1 DEF BugFiled, SlotsHaveNames
  <2>8. \/ swam_bug_hits_total' = bug_counter'
        \/ \E x \in Scenario \X BugTag : swam_saved_bug_count'[x] = BugSaveCap
    <3>1. CASE swam_bug_hits_total = bug_counter
      BY <1>4, <3>1 DEF BugFiled
    <3>2. ASSUME NEW x \in Scenario \X BugTag, swam_saved_bug_count[x] = BugSaveCap
          PROVE  swam_saved_bug_count'[x] = BugSaveCap
      <4>1. x # <<n, tag>>
        BY <1>1, <1>4, <3>2 DEF BugFiled
      <4>. QED
        BY <1>1, <1>4, <3>2, <4>1 DEF BugFiled
    <3>. QED
      BY <3>1, <3>2 DEF SlotsHaveNames
  <2>. QED
    BY <2>6, <2>7, <2>8 DEF SlotsHaveNames
<1>5. ASSUME n \in Scenario, TrapFiled(n)
      PROVE  SlotInv' /\ SlotsHaveNames'
  <2>1. /\ IsFiniteSet(Units(swam_unknown_saved_trap'))
        /\ Total(swam_unknown_saved_trap') = Total(swam_unknown_saved_trap) + 1
    BY <1>1, <1>5, UnitAdded DEF TrapFiled, SlotInv
  <2>2. FileAdded(n, "unknown_trap") /\ IsFiniteSet(files)
    BY <1>5 DEF TrapFiled, SlotInv
  <2>3. /\ IsFiniteSet(files')
        /\ \A s \in Scenario, k \in BugTag : FilesOf(s, k)' = FilesOf(s, k)
        /\ \A s \in Scenario : FilesOf(s, "unknown_notrap")' = FilesOf(s, "unknown_notrap")
    BY <2>2, OneFileAdded DEF BugTag
  <2>4. SlotInv'
    BY <1>5, <2>1, <2>3 DEF TrapFiled, SlotInv
  <2>5. /\ Total(swam_unknown_saved_trap) \in Nat
        /\ Total(swam_unknown_saved_notrap) \in Nat
    BY FS_CardinalityType DEF SlotInv, Total
  <2>6. unknown_counter' = Total(swam_unknown_saved_trap') + Total(swam_unknown_saved_notrap')
    BY <1>5, <2>1, <2>5 DEF TrapFiled, SlotsHaveNames
  <2>. QED
    BY <1>5, <2>4, <2>6 DEF TrapFiled, SlotsHaveNames
<1>6. ASSUME n \in Scenario, NotrapFiled(n)
      PROVE  SlotInv' /\ SlotsHaveNames'
  <2>1. /\ IsFiniteSet(Units(swam_unknown_saved_notrap'))
        /\ Total(swam_unknown_saved_notrap') = Total(swam_unknown_saved_notrap) + 1
    BY <1>1, <1>6, UnitAdded DEF NotrapFiled, SlotInv
  <2>2. FileAdded(n, "unknown_notrap") /\ IsFiniteSet(files)
    BY <1>6 DEF NotrapFiled, SlotInv
  <2>3. /\ IsFiniteSet(files')
        /\ \A s \in Scenario, k \in BugTag : FilesOf(s, k)' = FilesOf(s, k)
    BY <2>2, OneFileAdded DEF BugTag
  <2>4. ASSUME NEW s \in Scenario
        PROVE  /\ Cardinality(FilesOf(s, "unknown_notrap")') <= swam_unknown_saved_notrap'[s]
               /\ swam_unknown_saved_notrap'[s] <= NotrapSaveCap
    <3>1. /\ Cardinality(FilesOf(s, "unknown_notrap")) <= swam_unknown_saved_notrap[s]
          /\ swam_unknown_saved_notrap[s] <= NotrapSaveCap
          /\ swam_unknown_saved_notrap[s] \in Nat
      BY <1>1 DEF SlotInv
    <3>2. CASE s = n
      <4>1. /\ Cardinality(FilesOf(s, "unknown_notrap")) \in Nat
            /\ Cardinality(FilesOf(s, "unknown_notrap")') \in Nat
            /\ Cardinality(FilesOf(s, "unknown_notrap")')
                 <= Cardinality(FilesOf(s, "unknown_notrap")) + 1
        BY <2>2, <3>2, OneFileAdded
      <4>2. /\ swam_unknown_saved_notrap'[s] = swam_unknown_saved_notrap[s] + 1
            /\ swam_unknown_saved_notrap[s] < NotrapSaveCap
        BY <1>1, <1>6, <3>2 DEF NotrapFiled
      <4>. QED
        BY <1>1, <3>1, <4>1, <4>2
    <3>3. CASE s # n
      <4>1. FilesOf(s, "unknown_notrap")' = FilesOf(s, "unknown_notrap")
        BY <2>2, <3>3, OneFileAdded
      <4>2. swam_unknown_saved_notrap'[s] = swam_unknown_saved_notrap[s]
        BY <1>1, <1>6, <3>3 DEF NotrapFiled
      <4>. QED
        BY <3>1, <4>1, <4>2
    <3>. QED
      BY <3>2, <3>3
  <2>5. SlotInv'
    BY <1>6, <2>1, <2>3, <2>4 DEF NotrapFiled, SlotInv
  <2>6. /\ Total(swam_unknown_saved_trap) \in Nat
        /\ Total(swam_unknown_saved_notrap) \in Nat
    BY FS_CardinalityType DEF SlotInv, Total
  <2>7. unknown_counter' = Total(swam_unknown_saved_trap') + Total(swam_unknown_saved_notrap')
    BY <1>6, <2>1, <2>6 DEF NotrapFiled, SlotsHaveNames
  <2>. QED
    BY <1>6, <2>5, <2>7 DEF NotrapFiled, SlotsHaveNames
<1>7. "bypass" \in BugTag /\ "false_trap" \in BugTag
  BY DEF BugTag
<1>. QED
  BY <1>2, <1>3, <1>4, <1>5, <1>6, <1>7, ReportSteps DEF Filed

LEMMA InitTotals == Init => SumInv /\ SlotInv /\ SlotsHaveNames
<1>. SUFFICES ASSUME Init PROVE SumInv /\ SlotInv /\ SlotsHaveNames
  OBVIOUS
<1>1. /\ stats = [s \in Scenario |-> NoStats]
      /\ total_selected = 0
      /\ swam_saved_bug_count = [x \in Scenario \X BugTag |-> 0]
      /\ swam_unknown_saved_notrap = [s \in Scenario |-> 0]
      /\ swam_unknown_saved_trap = [s \in Scenario |-> 0]
      /\ bug_counter = 0 /\ unknown_counter = 0 /\ swam_bug_hits_total = 0
      /\ files = {}
  BY DEF Init, afl_custom_init, swam_scheduler_create
<1>2. [s \in Scenario |-> stats[s].n_selected] = [s \in Scenario |-> 0]
  BY <1>1 DEF NoStats
<1>3. SumInv
  BY <1>1, <1>2, NoUnits DEF SumInv, TotalIsSum
<1>4. \A s, tag : FilesOf(s, tag) = {}
  BY <1>1 DEF FilesOf
<1>5. IsFiniteSet({}) /\ Cardinality({}) = 0
  BY FS_EmptySet
<1>6. /\ IsFiniteSet(Units(swam_saved_bug_count)) /\ Total(swam_saved_bug_count) = 0
      /\ IsFiniteSet(Units(swam_unknown_saved_trap)) /\ Total(swam_unknown_saved_trap) = 0
      /\ IsFiniteSet(Units(swam_unknown_saved_notrap)) /\ Total(swam_unknown_saved_notrap) = 0
  BY <1>1, NoUnits
<1>7. SlotInv
  <2>1. \A s, tag : Cardinality(FilesOf(s, tag)) = 0
    BY <1>4, <1>5
  <2>2. 0 <= BugSaveCap /\ 0 <= NotrapSaveCap
    BY MutatorAssumption
  <2>3. IsFiniteSet(files)
    BY <1>1, <1>5
  <2>. QED
    BY <1>1, <1>6, <2>1, <2>2, <2>3 DEF SlotInv
<1>8. SlotsHaveNames
  BY <1>1, <1>6 DEF SlotsHaveNames
<1>. QED
  BY <1>3, <1>7, <1>8

\* The counters advanced in different functions agree with each other, and the
\* caps bound the files on disk, also when a report could not be written.
THEOREM TotalsDoAgree == Spec => []TotalsAgree
<1>1. TypeInv /\ SumInv /\ SlotInv /\ SlotsHaveNames => TotalsAgree
  <2>. SUFFICES ASSUME TypeInv, SumInv, SlotInv, SlotsHaveNames
                PROVE  TotalsAgree
    OBVIOUS
  <2>1. ASSUME NEW s \in Scenario, NEW tag \in BugTag
        PROVE  Cardinality({f \in files : f.scenario = s /\ f.tag = tag}) <= BugSaveCap
    <3>1. Cardinality(FilesOf(s, tag)) \in Nat
      BY FS_Subset, FS_CardinalityType DEF SlotInv, FilesOf
    <3>2. swam_saved_bug_count[<<s, tag>>] \in Nat
      BY DEF TypeInv, TypeOK, ReportTypeOK
    <3>3. Cardinality(FilesOf(s, tag)) <= BugSaveCap
      BY <3>1, <3>2, MutatorAssumption DEF SlotInv
    <3>. QED
      BY <3>3 DEF FilesOf
  <2>2. ASSUME NEW s \in Scenario
        PROVE  Cardinality({f \in files : f.scenario = s /\ f.tag = "unknown_notrap"})
                 <= NotrapSaveCap
    <3>1. Cardinality(FilesOf(s, "unknown_notrap")) \in Nat
      BY FS_Subset, FS_CardinalityType DEF SlotInv, FilesOf
    <3>2. swam_unknown_saved_notrap[s] \in Nat
      BY DEF TypeInv, TypeOK, ReportTypeOK
    <3>3. Cardinality(FilesOf(s, "unknown_notrap")) <= NotrapSaveCap
      BY <3>1, <3>2, MutatorAssumption DEF SlotInv
    <3>. QED
      BY <3>3 DEF FilesOf
  <2>3. ReportsBounded
    BY <2>1, <2>2 DEF ReportsBounded
  <2>. QED
    BY <2>3 DEF TotalsAgree, SumInv
<1>. QED
  BY InitType, NextType, InitTotals, NextSum, NextSlots, <1>1, PTL DEF Spec
=============================================================================
