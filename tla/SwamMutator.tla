---------------------------- MODULE SwamMutator ----------------------------
(***************************************************************************)
(* The custom mutator (wasm_mutators.c) inside AFL's fuzzing loop.         *)
(*                                                                         *)
(* afl_custom_fuzz judges the exploit module of an EARLIER call from the   *)
(* marker channel, then emits either an exploit module (one scenario's     *)
(* probe inserted into a clone of the queue entry) or an explored mutant.  *)
(* Between two calls AFL executes the emitted module, may queue it, and    *)
(* may execute other queue entries.  One call is the sequence Judge,       *)
(* {ParseFail, Explore, Exploit...}, Write...; nothing runs in between, as *)
(* pc shows.                                                               *)
(*                                                                         *)
(* A module is what the oracle can see of it: the constants of its two     *)
(* marker assignments, or NoProbe when it has no marker globals.           *)
(***************************************************************************)
EXTENDS SwamScheduler, SwamMarkers

CONSTANTS
  Expected,       \* expected column of swam_scenario_catalog
  BugSaveCap,     \* SWAM_BUG_SAVE_CAP, 3U
  NotrapSaveCap,  \* SWAM_UNKNOWN_NOTRAP_SAVE_CAP, 32U
  NamesKept,      \* Binaryen writes and reads back internal global names
  Runtimes,       \* values of SWAM_RUNTIME considered
  Peers,          \* TRUE when other instances fuzz into the same sync_dir
  NoProbe, NoModule,
  MaxCalls,       \* bound on the calls of afl_custom_fuzz
  MaxCorpus       \* bound on the queue entries told apart

BugTag     == {"bypass", "false_trap"}
UnknownTag == {"unknown_trap", "unknown_notrap"}

Probe  == [before : MarkerValue, after : MarkerValue]
Module == Probe \cup {NoProbe}

ProbeOf(s) == [before |-> s, after |-> s]

ASSUME MutatorAssumption ==
  /\ Expected \in [Scenario -> {"TRAP", "NO_TRAP", "UNKNOWN"}]
  /\ Scenario \subseteq MarkerValue
  /\ BugSaveCap \in Nat
  /\ NotrapSaveCap \in Nat
  /\ NamesKept \in BOOLEAN
  /\ Peers \in BOOLEAN
  /\ NoProbe \notin Probe
  /\ NoModule \notin Module
  /\ MaxCalls \in Nat
  /\ MaxCorpus \in Nat

VARIABLES
  pc,                         \* where AFL's loop is
  calls,                      \* calls of afl_custom_fuzz so far
  corpus,                     \* queue entries other than the pending module
  pendingQueued,              \* the pending module is in the queue too
  buf,                        \* the queue entry passed to afl_custom_fuzz
  mode,                       \* 0, or the scenario swam_exploit_ok is true for
  out,                        \* *out_buf
  swam_last_was_exploit,
  swam_last_scenario_id,
  swam_exploit_cnt,
  swam_pending_module,
  swam_bug_hits_total,
  swam_saved_bug_count,
  swam_unknown_total,
  swam_unknown_saved_notrap,
  swam_unknown_saved_trap,
  bug_counter,
  unknown_counter,
  files,                      \* swam_bugs and swam_unknowns
  selections,                 \* history: results of swam_scheduler_select
  lost                        \* history: selections that never get a verdict

aflVars    == <<pc, calls, corpus, pendingQueued, buf, mode, out>>
armVars    == <<swam_last_was_exploit, swam_last_scenario_id,
                swam_pending_module>>
reportVars == <<swam_bug_hits_total, swam_saved_bug_count, swam_unknown_total,
                swam_unknown_saved_notrap, swam_unknown_saved_trap,
                bug_counter, unknown_counter, files>>
countVars  == <<swam_exploit_cnt, selections, lost>>

vars == <<schedVars, markerVars, aflVars, armVars, reportVars, countVars>>

\* A report file: its name, its content, and who wrote the markers it rests
\* on (history).
File == [id : Nat, scenario : Scenario, tag : BugTag \cup UnknownTag,
         module : Module, evidence : Writer]

AflTypeOK ==
  /\ pc \in {"idle", "fuzz", "write", "run", "stopped"}
  /\ calls \in 0..MaxCalls
  /\ corpus \in SUBSET Module
  /\ pendingQueued \in BOOLEAN
  /\ buf \in Module
  /\ mode \in Scenario \cup {0}
  /\ out \in Module

ArmTypeOK ==
  /\ swam_last_was_exploit \in BOOLEAN
  /\ swam_last_scenario_id \in Scenario \cup {0}
  /\ swam_pending_module \in Module \cup {NoModule}

ReportTypeOK ==
  /\ swam_bug_hits_total \in Nat
  /\ swam_saved_bug_count \in [Scenario \X BugTag -> Nat]
  /\ swam_unknown_total \in [Scenario -> Nat]
  /\ swam_unknown_saved_notrap \in [Scenario -> Nat]
  /\ swam_unknown_saved_trap \in [Scenario -> Nat]
  /\ bug_counter \in Nat
  /\ unknown_counter \in Nat
  /\ files \in SUBSET File

CountTypeOK ==
  /\ swam_exploit_cnt \in Nat
  /\ selections \in [Scenario -> Nat]
  /\ lost \in [Scenario -> Nat]

TypeOK ==
  /\ SchedTypeOK
  /\ MarkersTypeOK
  /\ AflTypeOK
  /\ ArmTypeOK
  /\ ReportTypeOK
  /\ CountTypeOK

-----------------------------------------------------------------------------
\* afl_custom_init: calloc'd mutator state, marker channel, scheduler and the
\* profile named by SWAM_RUNTIME.  The queue holds the initial corpus.
afl_custom_init(p) ==
  /\ swam_scheduler_create
  /\ ProfileApplied(p)
  /\ swam_markers_init
  /\ pc = "idle"
  /\ calls = 0
  /\ corpus = {NoProbe}
  /\ pendingQueued = FALSE
  /\ buf = NoProbe
  /\ mode = 0
  /\ out = NoProbe
  /\ swam_last_was_exploit = FALSE
  /\ swam_last_scenario_id = 0
  /\ swam_pending_module = NoModule
  /\ swam_exploit_cnt = 0
  /\ swam_bug_hits_total = 0
  /\ swam_saved_bug_count = [x \in Scenario \X BugTag |-> 0]
  /\ swam_unknown_total = [s \in Scenario |-> 0]
  /\ swam_unknown_saved_notrap = [s \in Scenario |-> 0]
  /\ swam_unknown_saved_trap = [s \in Scenario |-> 0]
  /\ bug_counter = 0
  /\ unknown_counter = 0
  /\ files = {}
  /\ selections = [s \in Scenario |-> 0]
  /\ lost = [s \in Scenario |-> 0]

-----------------------------------------------------------------------------
(***************************************************************************)
(* swam_oracle_check.                                                      *)
(***************************************************************************)
Outcome(s) ==
  LET m == swam_markers_read
  IN IF m = NoMarkers \/ m.before # s THEN "NOT_REACHED"
     ELSE IF m.after # s THEN "REACHED_TRAPPED"
     ELSE "REACHED_COMPLETED"

\* The file a save writes, when fopen succeeds.
Saved(s, tag, id) ==
  {files, files \cup {[id |-> id, scenario |-> s, tag |-> tag,
                       module |-> swam_pending_module,
                       evidence |-> swam_markers_read.from]}}

\* Mutant: the file name is used up only when the file could be opened.
SaveBugReusesName(s, tag) ==
  /\ swam_pending_module # NoModule
  /\ files' \in Saved(s, tag, bug_counter)
  /\ bug_counter' = IF files' = files THEN bug_counter ELSE bug_counter + 1

swam_save_bug(s, tag) ==
  IF swam_pending_module = NoModule THEN UNCHANGED <<bug_counter, files>>
  ELSE /\ bug_counter' = bug_counter + 1
       /\ files' \in Saved(s, tag, bug_counter)

swam_save_unknown(s, tag) ==
  IF swam_pending_module = NoModule THEN UNCHANGED <<unknown_counter, files>>
  ELSE /\ unknown_counter' = unknown_counter + 1
       /\ files' \in Saved(s, tag, unknown_counter)

\* Every hit is counted; only the first BugSaveCap per scenario and tag are
\* saved.  The slot is used up before the file is opened.
swam_maybe_save_bug(s, tag) ==
  /\ swam_bug_hits_total' = swam_bug_hits_total + 1
  /\ IF \/ swam_pending_module = NoModule
        \/ swam_saved_bug_count[<<s, tag>>] >= BugSaveCap
       THEN UNCHANGED <<swam_saved_bug_count, bug_counter, files>>
       ELSE /\ swam_saved_bug_count' = [swam_saved_bug_count EXCEPT ![<<s, tag>>] = @ + 1]
            /\ swam_save_bug(s, tag)
  /\ UNCHANGED <<swam_unknown_total, swam_unknown_saved_notrap,
                 swam_unknown_saved_trap, unknown_counter>>

\* A scenario without a specified outcome: traps are always saved, completions
\* up to NotrapSaveCap.
ReportUnknown(s, trapped) ==
  /\ swam_unknown_total' = [swam_unknown_total EXCEPT ![s] = @ + 1]
  /\ IF trapped
       THEN /\ swam_save_unknown(s, "unknown_trap")
            /\ swam_unknown_saved_trap' = [swam_unknown_saved_trap EXCEPT ![s] = @ + 1]
            /\ UNCHANGED swam_unknown_saved_notrap
       ELSE /\ UNCHANGED swam_unknown_saved_trap
            /\ IF swam_unknown_saved_notrap[s] < NotrapSaveCap
                 THEN /\ swam_save_unknown(s, "unknown_notrap")
                      /\ swam_unknown_saved_notrap' =
                           [swam_unknown_saved_notrap EXCEPT ![s] = @ + 1]
                 ELSE UNCHANGED <<swam_unknown_saved_notrap, unknown_counter, files>>
  /\ UNCHANGED <<swam_bug_hits_total, swam_saved_bug_count, bug_counter>>

Report(s, outcome) ==
  \/ /\ Expected[s] = "TRAP" /\ outcome = "REACHED_COMPLETED"
     /\ swam_maybe_save_bug(s, "bypass")
  \/ /\ Expected[s] = "NO_TRAP" /\ outcome = "REACHED_TRAPPED"
     /\ swam_maybe_save_bug(s, "false_trap")
  \/ /\ Expected[s] = "UNKNOWN" /\ outcome # "NOT_REACHED"
     /\ ReportUnknown(s, outcome = "REACHED_TRAPPED")
  \/ /\ \/ outcome = "NOT_REACHED"
        \/ Expected[s] = "TRAP" /\ outcome = "REACHED_TRAPPED"
        \/ Expected[s] = "NO_TRAP" /\ outcome = "REACHED_COMPLETED"
     /\ UNCHANGED reportVars

\* Mutant: no verdict is recorded when the harness did not report.
OracleSilent(s) ==
  /\ IF swam_markers_read = NoMarkers
       THEN UNCHANGED <<schedVars, reportVars>>
       ELSE /\ swam_scheduler_update(s, Outcome(s))
            /\ Report(s, Outcome(s))
  /\ swam_pending_module' = NoModule

\* The verdict: statistics first, then the report, then the pending copy is
\* freed.  A queued pending module becomes an ordinary queue entry.
swam_oracle_check(s) ==
  /\ swam_scheduler_update(s, Outcome(s))
  /\ Report(s, Outcome(s))
  /\ swam_pending_module' = NoModule

-----------------------------------------------------------------------------
(***************************************************************************)
(* afl_custom_fuzz.                                                        *)
(***************************************************************************)
\* Mutant: the verdict waits until the harness has reported.
JudgeAwaitsReport(m) ==
  /\ pc = "idle"
  /\ calls < MaxCalls
  /\ swam_last_was_exploit
  /\ swam_markers_read # NoMarkers
  /\ m \in corpus
  /\ swam_oracle_check(swam_last_scenario_id)
  /\ swam_last_was_exploit' = FALSE
  /\ pendingQueued' = FALSE
  /\ buf' = m
  /\ pc' = "fuzz"
  /\ calls' = calls + 1
  /\ UNCHANGED <<mode, out, corpus, swam_last_scenario_id, markerVars, countVars>>

\* Entry: the pending exploit is judged before anything else is decided.
JudgePending(m) ==
  /\ pc = "idle"
  /\ calls < MaxCalls
  /\ swam_last_was_exploit
  /\ m \in corpus \cup (IF pendingQueued THEN {swam_pending_module} ELSE {})
  /\ swam_oracle_check(swam_last_scenario_id)
  /\ swam_last_was_exploit' = FALSE
  /\ corpus' = IF pendingQueued THEN corpus \cup {swam_pending_module} ELSE corpus
  /\ pendingQueued' = FALSE
  /\ buf' = m
  /\ pc' = "fuzz"
  /\ calls' = calls + 1
  /\ UNCHANGED <<mode, out, swam_last_scenario_id, markerVars, countVars>>

NothingPending(m) ==
  /\ pc = "idle"
  /\ calls < MaxCalls
  /\ ~swam_last_was_exploit
  /\ m \in corpus
  /\ buf' = m
  /\ pc' = "fuzz"
  /\ calls' = calls + 1
  /\ UNCHANGED <<mode, out, corpus, pendingQueued, schedVars, markerVars,
                 armVars, reportVars, countVars>>

\* afl_custom_fuzz returns m; its locals are gone.
Returned(m) ==
  /\ out' = m
  /\ buf' = NoProbe
  /\ mode' = 0
  /\ pc' = "run"
  /\ UNCHANGED <<calls, corpus, pendingQueued>>

\* The entry does not parse: it is returned unchanged.
ParseFail ==
  /\ pc = "fuzz"
  /\ Returned(buf)
  /\ UNCHANGED <<schedVars, markerVars, armVars, reportVars, countVars>>

\* The branch taken to the explore loop, or with an exploit clone for s.
Chosen(s) ==
  /\ mode' = s
  /\ pc' = "write"
  /\ UNCHANGED <<calls, corpus, pendingQueued, buf, out, markerVars, armVars,
                 reportVars>>

\* A selection that will never be recorded.
Lose(s) == [lost EXCEPT ![s] = @ + 1]

Explore ==
  /\ pc = "fuzz"
  /\ Chosen(0)
  /\ UNCHANGED <<schedVars, countVars>>

\* swam_get_scenario finds nothing for the scheduler's answer.
ExploitNoScenario ==
  /\ pc = "fuzz"
  /\ swam_scheduler_select(0)
  /\ Chosen(0)
  /\ UNCHANGED <<schedVars, countVars>>

Selected(s) ==
  /\ pc = "fuzz"
  /\ swam_scheduler_select(s)
  /\ selections' = [selections EXCEPT ![s] = @ + 1]

ExploitCloneFail(s) ==
  /\ Selected(s)
  /\ lost' = Lose(s)
  /\ Chosen(0)
  /\ UNCHANGED <<schedVars, swam_exploit_cnt>>

ExploitInstantiateFail(s) ==
  /\ Selected(s)
  /\ swam_scheduler_update(s, "INSTANTIATE_FAIL")
  /\ Chosen(0)
  /\ UNCHANGED <<swam_exploit_cnt, lost>>

ExploitInstantiated(s) ==
  /\ Selected(s)
  /\ swam_exploit_cnt' = swam_exploit_cnt + 1
  /\ Chosen(s)
  /\ UNCHANGED <<schedVars, lost>>

\* Serialization fails, or the result exceeds max_size: the entry is returned
\* unchanged and an exploit leaves no trace but its count.
WriteFail ==
  /\ pc = "write"
  /\ Returned(buf)
  /\ lost' = IF mode = 0 THEN lost ELSE Lose(mode)
  /\ UNCHANGED <<schedVars, markerVars, armVars, reportVars, swam_exploit_cnt,
                 selections>>

\* What the explore loop can make of the marker constants: any constant may be
\* replaced by an interesting value.
Mutants(m) == IF m = NoProbe THEN {NoProbe} ELSE Probe

WriteExplored ==
  /\ pc = "write"
  /\ mode = 0
  /\ \E m \in Mutants(buf) : Returned(m)
  /\ UNCHANGED <<schedVars, markerVars, armVars, reportVars, countVars>>

\* Mutant: the probe is inserted without stripping the old markers.
ExploitUnstripped(m, s) == IF m = NoProbe THEN ProbeOf(s) ELSE m

\* What the harness can see of a clone of m with the probe of s.  Old marker
\* assignments are stripped, and the marker globals found again, by name; if
\* the names are gone the exported globals stay those of the old probe.
ExploitModule(m, s) == IF NamesKept \/ m = NoProbe THEN ProbeOf(s) ELSE m

\* Mutant: the scenario index is remembered 1-based twice.
WriteExploitOffByOne ==
  /\ pc = "write"
  /\ mode # 0
  /\ Returned(ExploitModule(buf, mode))
  /\ swam_pending_module' = ExploitModule(buf, mode)
  /\ swam_markers_reset
  /\ swam_last_was_exploit' = TRUE
  /\ swam_last_scenario_id' = mode + 1
  /\ UNCHANGED <<schedVars, reportVars, countVars>>

WriteExploit ==
  /\ pc = "write"
  /\ mode # 0
  /\ Returned(ExploitModule(buf, mode))
  /\ swam_pending_module' = ExploitModule(buf, mode)
  /\ swam_markers_reset
  /\ swam_last_was_exploit' = TRUE
  /\ swam_last_scenario_id' = mode
  /\ UNCHANGED <<schedVars, reportVars, countVars>>

\* Mutant: the verdict is requested although the copy failed.
WriteNoCopyArmed ==
  /\ pc = "write"
  /\ mode # 0
  /\ Returned(ExploitModule(buf, mode))
  /\ swam_pending_module' = NoModule
  /\ swam_markers_reset
  /\ swam_last_was_exploit' = TRUE
  /\ swam_last_scenario_id' = mode
  /\ UNCHANGED <<schedVars, reportVars, countVars>>

\* malloc of the pending copy fails: the exploit runs unjudged.
WriteExploitNoCopy ==
  /\ pc = "write"
  /\ mode # 0
  /\ Returned(ExploitModule(buf, mode))
  /\ swam_pending_module' = NoModule
  /\ lost' = Lose(mode)
  /\ UNCHANGED <<schedVars, markerVars, swam_last_was_exploit,
                 swam_last_scenario_id, reportVars, swam_exploit_cnt,
                 selections>>

-----------------------------------------------------------------------------
(***************************************************************************)
(* AFL between two calls of afl_custom_fuzz.                               *)
(***************************************************************************)
\* The values of the exported globals when an execution of m ends: probe not
\* reached, trapped inside the probe, or passed it.
Reports(m, writer) ==
  IF m = NoProbe THEN {}
  ELSE {[before |-> x[1], after |-> x[2], from |-> writer] :
          x \in {<<0, 0>>, <<m.before, 0>>, <<m.before, m.after>>}}

Execution(m, writer) ==
  \/ UNCHANGED markerVars
  \/ \E r \in Reports(m, writer) : HarnessReport(r)

\* The queue gains m.
Queued(m) ==
  /\ Cardinality(corpus \cup {m}) <= MaxCorpus
  /\ corpus' = corpus \cup {m}

\* common_fuzz_stuff: run the output, then save_if_interesting.
common_fuzz_stuff ==
  /\ pc = "run"
  /\ Execution(out, IF swam_last_was_exploit THEN "pending" ELSE "other")
  /\ \/ UNCHANGED <<corpus, pendingQueued>>
     \/ /\ swam_last_was_exploit
        /\ Cardinality(corpus \cup {out}) <= MaxCorpus
        /\ pendingQueued' = TRUE
        /\ UNCHANGED corpus
     \/ ~swam_last_was_exploit /\ Queued(out) /\ UNCHANGED pendingQueued
  /\ pc' = "idle"
  /\ out' = NoProbe
  /\ UNCHANGED <<calls, buf, mode, schedVars, armVars, reportVars, countVars>>

\* calibrate_case and trim_case run queue entries, the pending module's own
\* entry among them.
RunQueueEntry ==
  /\ pc = "idle"
  /\ \/ \E m \in corpus : Execution(m, "other")
     \/ pendingQueued /\ Execution(swam_pending_module, "pending")
  /\ UNCHANGED <<aflVars, schedVars, armVars, reportVars, countVars>>

\* sync_fuzzers runs an entry of another instance, which may carry a probe of
\* its own, and may keep it.
sync_fuzzers(m) ==
  /\ pc = "idle"
  /\ Peers
  /\ Execution(m, "other")
  /\ corpus' = corpus \/ Queued(m)
  /\ UNCHANGED <<pc, calls, pendingQueued, buf, mode, out, schedVars, armVars,
                 reportVars, countVars>>

Interference ==
  /\ pc # "stopped"
  /\ PeerFile
  /\ UNCHANGED <<aflVars, schedVars, armVars, reportVars, countVars>>

\* afl-fuzz stops: the pending module is freed without a verdict.
afl_custom_deinit ==
  /\ pc = "idle"
  /\ pc' = "stopped"
  /\ swam_markers_cleanup
  /\ swam_last_was_exploit' = FALSE
  /\ swam_pending_module' = NoModule
  /\ pendingQueued' = FALSE
  /\ corpus' = IF pendingQueued THEN corpus \cup {swam_pending_module} ELSE corpus
  /\ lost' = IF swam_last_was_exploit THEN Lose(swam_last_scenario_id) ELSE lost
  /\ UNCHANGED <<calls, buf, mode, out, schedVars, swam_last_scenario_id,
                 reportVars, swam_exploit_cnt, selections>>

-----------------------------------------------------------------------------
Init == \E n \in Runtimes : afl_custom_init(swam_profile_lookup(n))

Enter == \E m \in Module : JudgePending(m) \/ NothingPending(m)

Decide ==
  \/ ParseFail
  \/ Explore
  \/ ExploitNoScenario
  \/ \E s \in Scenario : \/ ExploitCloneFail(s)
                         \/ ExploitInstantiateFail(s)
                         \/ ExploitInstantiated(s)

Write == WriteFail \/ WriteExplored \/ WriteExploit \/ WriteExploitNoCopy

afl_custom_fuzz == Enter \/ Decide \/ Write

Next ==
  \/ afl_custom_fuzz
  \/ common_fuzz_stuff
  \/ RunQueueEntry
  \/ \E m \in {ProbeOf(s) : s \in Scenario} : sync_fuzzers(m)
  \/ Interference
  \/ afl_custom_deinit

Spec == Init /\ [][Next]_vars

\* AFL's loop is one thread that keeps fuzzing until its budget is used up and
\* then stops; that it executes other queue entries first cannot go on for
\* ever.  MaxCalls plays the budget (-E, -V).
Fairness ==
  /\ WF_vars(Enter)
  /\ WF_vars(Decide)
  /\ WF_vars(Write)
  /\ WF_vars(common_fuzz_stuff)
  /\ WF_vars(calls = MaxCalls /\ afl_custom_deinit)

FairSpec == Spec /\ Fairness

-----------------------------------------------------------------------------
(***************************************************************************)
(* Properties.                                                             *)
(***************************************************************************)
\* The oracle's flag and the pending copy go together: whenever a verdict is
\* due there is a module to save, it carries the probe of the scenario the
\* verdict is recorded for (wasm_mutators.c:610-624, 373-376, 392-395).
PendingConsistent ==
  /\ swam_last_was_exploit <=> swam_pending_module # NoModule
  /\ swam_last_was_exploit => swam_last_scenario_id \in Scenario
  /\ swam_last_was_exploit /\ NamesKept =>
       swam_pending_module = ProbeOf(swam_last_scenario_id)

\* 1 when a selection of s is still on its way to the scheduler's statistics.
InFlight(s) ==
  IF \/ pc = "write" /\ mode = s
     \/ swam_last_was_exploit /\ swam_last_scenario_id = s
    THEN 1 ELSE 0

\* No selection is recorded twice and none vanishes on a path other than the
\* known lossy ones: what swam_scheduler_select returned is recorded, on its
\* way, or lost (wasm_mutators.c:392-464, 554-624).
LedgerBalanced ==
  sched => \A s \in Scenario :
             selections[s] = stats[s].n_selected + InFlight(s) + lost[s]

\* The counters the UCB1 score divides stay meaningful: rates never exceed 1
\* and failures and reaches are disjoint (swam_scheduler.c:240-270).
CountersConsistent ==
  \A s \in Scenario :
    /\ stats[s].n_completed <= stats[s].n_reached
    /\ stats[s].n_reached + stats[s].n_instantiate_fail <= stats[s].n_selected

\* Explore first: no active scenario gets a second recorded trial while another
\* one has had none.  The delayed verdict must be recorded before the next
\* selection (wasm_mutators.c:392-395 before 429; swam_scheduler.c:142-153).
ColdStartFirst ==
  \A s, t \in Active : stats[s].n_selected >= 2 => stats[t].n_selected >= 1

\* A verdict never rests on markers written before the judged module was handed
\* to AFL: neither a left-over file nor an earlier execution
\* (wasm_mutators.c:617, swam_markers.c:97-105).
EvidenceFresh ==
  swam_last_was_exploit =>
    swam_markers_read = NoMarkers \/ swam_markers_read.from # "stale"

\* A report file holds a module with exactly the probe its name announces, and
\* its tag contradicts the scenario's specified outcome
\* (wasm_mutators.c:169-219, 350-371).
ReportsMatchModule ==
  \A f \in files :
    /\ NamesKept => f.module = ProbeOf(f.scenario)
    /\ f.tag = "bypass" <=> Expected[f.scenario] = "TRAP"
    /\ f.tag = "false_trap" <=> Expected[f.scenario] = "NO_TRAP"

\* The per-scenario caps bound the report files on disk, and two files never
\* share a name (wasm_mutators.c:303-309, 365-369).
ReportsBounded ==
  \A s \in Scenario :
    /\ \A tag \in BugTag :
         Cardinality({f \in files : f.scenario = s /\ f.tag = tag}) <= BugSaveCap
    /\ Cardinality({f \in files : f.scenario = s /\ f.tag = "unknown_notrap"})
         <= NotrapSaveCap

\* The sum of a function's values: one element per unit counted.
Units(f) == UNION {{x} \X (1..f[x]) : x \in DOMAIN f}
Total(f) == Cardinality(Units(f))

\* total_selected is "sum of all n_selected" (swam_scheduler.c:32), so the
\* exploration term of the score uses the right horizon.
TotalIsSum ==
  total_selected = Total([s \in Scenario |-> stats[s].n_selected])

\* Every used-up slot got a file name of its own, and a bug is dropped only
\* when its slots are used up (wasm_mutators.c:299-309, 356-370).
SlotsHaveNames ==
  /\ bug_counter = Total(swam_saved_bug_count)
  /\ unknown_counter = Total(swam_unknown_saved_trap) + Total(swam_unknown_saved_notrap)
  /\ \/ swam_bug_hits_total = bug_counter
     \/ \E x \in Scenario \X BugTag : swam_saved_bug_count[x] = BugSaveCap

\* The counters that are advanced in different functions agree with each other
\* and with the files on disk, also when a report could not be written.
TotalsAgree == TotalIsSum /\ SlotsHaveNames /\ ReportsBounded

\* "Online oracle - process markers from PREVIOUS execution"
\* (wasm_mutators.c:391): the markers behind a report come from the module that
\* is reported.
EvidenceIsPending == \A f \in files : f.evidence = "pending"

\* Every exploit handed to AFL is judged, or dropped when afl-fuzz stops; the
\* verdict is not postponed for ever (wasm_mutators.c:392-395).
ExploitResolved == swam_last_was_exploit ~> ~swam_last_was_exploit
=============================================================================
