------------------------- MODULE ReleaseTransaction -------------------------
(***************************************************************************)
(* tools/live_release_transaction.py: one release of a candidate over the  *)
(* running fleet, and its recovery.  The controller stops the old fleet,   *)
(* copies its databases, migrates a copy, replaces the databases one by    *)
(* one, starts the candidate and accepts it; every phase leaves a durable  *)
(* receipt, and a controller that fails, or one started again on the       *)
(* receipts of a dead one, rolls back what the receipts say was begun.     *)
(***************************************************************************)
EXTENDS Naturals

CONSTANTS
  Databases,  \* the ledgers of the profiles and the coordinator's database
  MaxTrades,  \* bound: actions the fleets record
  MaxFaults,  \* bound: checks or commands that fail, and signals
  MaxCrashes  \* bound: deaths of the controller, alone or with the host

ASSUME ReleaseAssumption ==
  /\ Databases # {}
  /\ MaxTrades \in Nat
  /\ MaxFaults \in Nat
  /\ MaxCrashes \in Nat

\* ReceiptStore.PHASES.  The durable phase is that of the last of the first six,
\* each of which is only written after the one before.
Receipts ==
  {"STOP_INTENT", "PREPARED", "DB_MUTATION_INTENT", "START_INTENT", "ACCEPTED", "COMMITTED",
   "OLD_START_INTENT", "FAILED"}

Releases == {"old", "new"}
Locks == {"wallet", "profiles"}

Forward ==
  {"preflight", "prepare", "intend stop", "stop", "copy", "prepared", "disable", "stage",
   "replace", "install", "intend start", "unlock", "start", "accept", "accepted",
   "enable", "commit"}
Backward ==
  {"rollback", "quiesce", "disable candidate", "restore", "restore old", "intend old",
   "unlock old", "start old", "enable old", "accept old", "retain"}

VARIABLES
  live,      \* what a database holds: the release it fits and the actions recorded
  traded,    \* actions the wallet really carries, by database
  link,      \* release the installed units run
  autostart, \* the units start with the host
  fleet,     \* release that runs, or "none"
  receipts,  \* durable receipts of this transaction
  snapshot,  \* its directory exists
  exact,     \* copies in it
  held,      \* locks the controller holds
  pc,        \* its step, "idle" when no controller runs
  todo,      \* databases it has still to write
  stopped,   \* its rollback has proved the fleet stopped
  ended,     \* how the last controller ended
  loose,     \* a rollback could not disable the units of a candidate that may run
  faults, crashes

host == <<live, traded, link, autostart, fleet>>
evidence == <<receipts, snapshot, exact>>
machine == <<held, pc, todo, stopped, ended, loose>>
counters == <<faults, crashes>>
vars == <<host, evidence, machine, counters>>

-----------------------------------------------------------------------------
\* Receipts.

\* validated_phase, or a phase beyond it.
Reached(mark) == mark \in receipts

\* Mutant of Leave: a receipt is written under the name of its phase.
LeavePhase(mark) ==
  receipts' = receipts \cup {IF mark = "PREPARED" THEN "STOPPED_PREPARED" ELSE mark}

Leave(mark) == receipts' = receipts \cup {mark}

Copy(d, form) == [exact[d] EXCEPT !.form = form]

To(step) == pc' = step

\* run: a directory that exists makes it a recovery, which returns on a commit
\* and refuses a directory without receipts.
Begin ==
  /\ pc = "idle"
  /\ To(IF snapshot THEN "rollback" ELSE "preflight")
  /\ ended' = "running"
  /\ UNCHANGED <<host, evidence, held, todo, stopped, loose, counters>>

Finish(how) ==
  /\ To("idle")
  /\ held' = {}
  /\ todo' = {}
  /\ stopped' = FALSE
  /\ ended' = how

-----------------------------------------------------------------------------
\* The release.

\* preflight: the old fleet is the installed one, and runs.
Preflight ==
  /\ pc = "preflight"
  /\ link = "old" /\ fleet = "old"
  /\ To("prepare")
  /\ UNCHANGED <<host, evidence, held, todo, stopped, ended, loose, counters>>

\* stop_snapshot_prepare, up to the lock that keeps the fleet from trading.
PrepareSnapshot ==
  /\ pc = "prepare"
  /\ snapshot' = TRUE
  /\ held' = held \cup {"wallet"}
  /\ To("intend stop")
  /\ UNCHANGED <<host, receipts, exact, todo, stopped, ended, loose, counters>>

WriteStopIntent ==
  /\ pc = "intend stop"
  /\ Leave("STOP_INTENT")
  /\ To("stop")
  /\ UNCHANGED <<host, snapshot, exact, held, todo, stopped, ended, loose, counters>>

\* stop_and_prove_quiescent.
StopFleet ==
  /\ pc = "stop"
  /\ fleet' = "none"
  /\ held' = Locks
  /\ To("copy")
  /\ UNCHANGED <<live, traded, link, autostart, evidence, todo, stopped, ended, loose,
                 counters>>

CopyExact ==
  /\ pc = "copy"
  /\ exact' = live
  /\ To("prepared")
  /\ UNCHANGED <<host, receipts, snapshot, held, todo, stopped, ended, loose, counters>>

WritePrepared ==
  /\ pc = "prepared"
  /\ Leave("PREPARED")
  /\ To("disable")
  /\ UNCHANGED <<host, snapshot, exact, held, todo, stopped, ended, loose, counters>>

\* Mutant of Disabled: the units stay enabled while the databases are replaced.
DisabledLater == autostart' = autostart

Disabled == autostart' = FALSE

DisableAutostart ==
  /\ pc = "disable"
  /\ Disabled
  /\ To("stage")
  /\ UNCHANGED <<live, traded, link, fleet, evidence, held, todo, stopped, ended, loose,
                 counters>>

\* stage_replace: the copies are migrated and verified in a sandbox.
StageDatabases ==
  /\ pc = "stage"
  /\ Leave("DB_MUTATION_INTENT")
  /\ todo' = Databases
  /\ To("replace")
  /\ UNCHANGED <<host, snapshot, exact, held, stopped, ended, loose, counters>>

ReplaceDatabase(d) ==
  /\ pc = "replace"
  /\ d \in todo
  /\ live' = [live EXCEPT ![d] = Copy(d, "new")]
  /\ todo' = todo \ {d}
  /\ To(IF todo = {d} THEN "install" ELSE "replace")
  /\ UNCHANGED <<traded, link, autostart, fleet, evidence, held, stopped, ended, loose,
                 counters>>

\* _install_and_verify_candidate.
InstallCandidate ==
  /\ pc = "install"
  /\ link' = "new"
  /\ To("intend start")
  /\ UNCHANGED <<live, traded, autostart, fleet, evidence, held, todo, stopped, ended,
                 loose, counters>>

\* switch_start: the receipt, then the locks, then the units.
WriteStartIntent ==
  /\ pc = "intend start"
  /\ Leave("START_INTENT")
  /\ To("unlock")
  /\ UNCHANGED <<host, snapshot, exact, held, todo, stopped, ended, loose, counters>>

ReleaseLocks ==
  /\ pc = "unlock"
  /\ held' = {}
  /\ To("start")
  /\ UNCHANGED <<host, evidence, todo, stopped, ended, loose, counters>>

StartCandidate ==
  /\ pc = "start"
  /\ fleet' = link
  /\ To("accept")
  /\ UNCHANGED <<live, traded, link, autostart, evidence, held, todo, stopped, ended,
                 loose, counters>>

\* accept_commit: the lock is taken between two orders of the candidate, and
\* an attempt that does not pass gives it back.
AcceptCandidate ==
  /\ pc = "accept"
  /\ held' = {"wallet"}
  /\ To("accepted")
  /\ UNCHANGED <<host, evidence, todo, stopped, ended, loose, counters>>

WriteAccepted ==
  /\ pc = "accepted"
  /\ Leave("ACCEPTED")
  /\ To("enable")
  /\ UNCHANGED <<host, snapshot, exact, held, todo, stopped, ended, loose, counters>>

EnableCandidateAutostart ==
  /\ pc = "enable"
  /\ autostart' = TRUE
  /\ To("commit")
  /\ UNCHANGED <<live, traded, link, fleet, evidence, held, todo, stopped, ended, loose,
                 counters>>

Commit ==
  /\ pc = "commit"
  /\ Leave("COMMITTED")
  /\ Finish("committed")
  /\ UNCHANGED <<host, snapshot, exact, loose, counters>>

\* A check or a command fails, or a signal arrives, before the step is done.
Fail ==
  /\ pc \in Forward
  /\ faults < MaxFaults
  /\ faults' = faults + 1
  /\ To("rollback")
  /\ UNCHANGED <<host, evidence, held, todo, stopped, ended, loose, crashes>>

-----------------------------------------------------------------------------
\* rollback.

\* Mutant of Settled: a recovery that meant to start the old fleet is taken for
\* one that did.
SettledByIntent ==
  ~Reached("STOP_INTENT") \/ Reached("COMMITTED") \/ Reached("OLD_START_INTENT")

\* Mutant of Settled: a commit is rolled back.
SettledBeforeStop == ~Reached("STOP_INTENT")

\* noop_before_stop, or a commit.
Settled == ~Reached("STOP_INTENT") \/ Reached("COMMITTED")

LeaveAlone ==
  /\ pc = "rollback"
  /\ Settled
  /\ Finish(IF Reached("COMMITTED") THEN "committed" ELSE "untouched")
  /\ UNCHANGED <<host, evidence, loose, counters>>

RollBack ==
  /\ pc = "rollback"
  /\ ~Settled
  /\ To("quiesce")
  /\ UNCHANGED <<host, evidence, held, todo, stopped, ended, loose, counters>>

\* Mutant of RestoresDatabases: the old fleet's intended start is not looked at.
RestoresDatabasesAnyway == Reached("DB_MUTATION_INTENT")

\* Before the start boundary an old fleet that was to be started again keeps
\* its databases.
RestoresDatabases ==
  \/ Reached("START_INTENT")
  \/ Reached("DB_MUTATION_INTENT") /\ ~Reached("OLD_START_INTENT")

\* quiesce and seal_partial_migration_stage.
Quiesce ==
  /\ pc = "quiesce"
  /\ fleet' = "none"
  /\ held' = held \cup {"profiles"}
  /\ stopped' = TRUE
  /\ todo' = IF RestoresDatabases THEN Databases ELSE {}
  /\ To(IF Reached("START_INTENT") THEN "disable candidate"
        ELSE IF RestoresDatabases THEN "restore" ELSE "restore old")
  /\ UNCHANGED <<live, traded, link, autostart, evidence, ended, loose, counters>>

Fault ==
  /\ faults < MaxFaults
  /\ faults' = faults + 1
  /\ ended' = "incomplete"
  /\ UNCHANGED crashes

\* Units that do not stop, or a stage that cannot be sealed once they have.
QuiesceFails ==
  /\ pc = "quiesce"
  /\ Fault
  /\ fleet' \in {fleet, "none"}
  /\ To(IF Reached("START_INTENT") THEN "disable candidate" ELSE "retain")
  /\ UNCHANGED <<live, traded, link, autostart, evidence, held, todo, stopped, loose>>

\* Mutant of Restorable: the databases are restored under a running fleet.
RestorableAnyway == TRUE

Restorable == stopped

\* disable_candidate, whose result nothing waits for.
DisableCandidate ==
  /\ pc = "disable candidate"
  /\ \/ /\ autostart' = FALSE
        /\ loose' = (loose /\ fleet # "none")
        /\ UNCHANGED <<faults, crashes, ended>>
     \/ /\ Fault
        /\ loose' = (loose \/ autostart)
        /\ UNCHANGED autostart
  /\ To(IF Restorable THEN "restore" ELSE "retain")
  /\ todo' = IF Restorable THEN Databases ELSE {}
  /\ UNCHANGED <<live, traded, link, fleet, evidence, held, stopped>>

\* restore_exact_databases.
RestoreDatabase(d) ==
  /\ pc = "restore"
  /\ d \in todo
  /\ held' = held \cup {"wallet"}
  /\ live' = [live EXCEPT ![d] = Copy(d, "old")]
  /\ todo' = todo \ {d}
  /\ To(IF todo = {d} THEN "restore old" ELSE "restore")
  /\ UNCHANGED <<traded, link, autostart, fleet, evidence, stopped, ended, loose, counters>>

\* restore_old_without_database before PREPARED: the old files are in place.
KeepOldFiles ==
  /\ pc = "restore old"
  /\ ~Reached("PREPARED")
  /\ To("unlock old")
  /\ UNCHANGED <<host, evidence, held, todo, stopped, ended, loose, counters>>

\* _restore_old_artifacts_and_start.
RestoreOldArtifacts ==
  /\ pc = "restore old"
  /\ Reached("PREPARED")
  /\ held' = held \cup {"wallet"}
  /\ link' = "old"
  /\ To("intend old")
  /\ UNCHANGED <<live, traded, autostart, fleet, evidence, todo, stopped, ended, loose,
                 counters>>

WriteOldStartIntent ==
  /\ pc = "intend old"
  /\ Leave("OLD_START_INTENT")
  /\ To("unlock old")
  /\ UNCHANGED <<host, snapshot, exact, held, todo, stopped, ended, loose, counters>>

ReleaseOldLocks ==
  /\ pc = "unlock old"
  /\ held' = {}
  /\ To("start old")
  /\ UNCHANGED <<host, evidence, todo, stopped, ended, loose, counters>>

\* _start_and_accept_old_fleet.
StartOldFleet ==
  /\ pc = "start old"
  /\ fleet' = link
  /\ loose' = FALSE
  /\ To("enable old")
  /\ UNCHANGED <<live, traded, link, autostart, evidence, held, todo, stopped, ended,
                 counters>>

\* Mutant of OriginalEnablement: the units are started and not enabled again.
NoEnablement == autostart' = autostart

OriginalEnablement == autostart' = TRUE

\* _restore_original_enablement_and_health.
EnableOldFleet ==
  /\ pc = "enable old"
  /\ OriginalEnablement
  /\ To("accept old")
  /\ UNCHANGED <<live, traded, link, fleet, evidence, held, todo, stopped, ended, loose,
                 counters>>

AcceptOldFleet ==
  /\ pc = "accept old"
  /\ To("retain")
  /\ UNCHANGED <<host, evidence, held, todo, stopped, ended, loose, counters>>

\* A fleet that does not start, is not enabled or is not accepted is stopped
\* again, if it can be: a start that fails may have started it all the same, and
\* an enablement that fails may have enabled it.
OldFleetFails ==
  /\ pc \in {"start old", "enable old", "accept old"}
  /\ Fault
  /\ fleet' \in {link, "none"}
  /\ autostart' \in IF pc = "enable old" THEN {autostart, TRUE} ELSE {autostart}
  /\ held' = IF fleet' = "none" THEN {"profiles"} ELSE {}
  /\ To("retain")
  /\ UNCHANGED <<live, traded, link, evidence, todo, stopped, loose>>

RestoreFails ==
  /\ pc \in {"restore", "restore old", "intend old", "unlock old"}
  /\ Fault
  /\ To("retain")
  /\ UNCHANGED <<host, evidence, held, todo, stopped, loose>>

\* retain_evidence, and the errors that were collected are raised.
RetainEvidence ==
  /\ pc = "retain"
  /\ Leave("FAILED")
  /\ Finish(IF ended = "running" THEN "recovered" ELSE ended)
  /\ UNCHANGED <<host, snapshot, exact, loose, counters>>

-----------------------------------------------------------------------------
\* The fleet and the host.

\* The running fleet copies one action: the order and its record.  Orders need
\* the wallet's lock.
Trade(d) ==
  /\ fleet # "none"
  /\ "wallet" \notin held
  /\ \A e \in Databases : traded[e] < MaxTrades
  /\ live' = [live EXCEPT ![d].recorded = @ + 1]
  /\ traded' = [traded EXCEPT ![d] = @ + 1]
  /\ UNCHANGED <<link, autostart, fleet, evidence, machine, counters>>

\* The controller is killed, and its locks go with it.
Crash ==
  /\ pc # "idle"
  /\ crashes < MaxCrashes
  /\ crashes' = crashes + 1
  /\ Finish("died")
  /\ UNCHANGED <<host, evidence, loose, faults>>

\* The host restarts, and starts the units that are enabled.
Reboot ==
  /\ crashes < MaxCrashes
  /\ crashes' = crashes + 1
  /\ fleet' = IF autostart THEN link ELSE "none"
  /\ Finish(IF pc = "idle" THEN ended ELSE "died")
  /\ UNCHANGED <<live, traded, link, autostart, evidence, loose, faults>>

-----------------------------------------------------------------------------

Init ==
  /\ live = [d \in Databases |-> [form |-> "old", recorded |-> 0]]
  /\ traded = [d \in Databases |-> 0]
  /\ link = "old"
  /\ autostart = TRUE
  /\ fleet = "old"
  /\ receipts = {}
  /\ snapshot = FALSE
  /\ exact = live
  /\ held = {}
  /\ pc = "idle"
  /\ todo = {}
  /\ stopped = FALSE
  /\ ended = "untouched"
  /\ loose = FALSE
  /\ faults = 0
  /\ crashes = 0

Switch ==
  \/ Preflight \/ PrepareSnapshot \/ WriteStopIntent \/ StopFleet \/ CopyExact
  \/ WritePrepared \/ DisableAutostart \/ StageDatabases
  \/ \E d \in Databases : ReplaceDatabase(d)
  \/ InstallCandidate \/ WriteStartIntent \/ ReleaseLocks \/ StartCandidate
  \/ AcceptCandidate \/ WriteAccepted \/ EnableCandidateAutostart \/ Commit

Recovery ==
  \/ LeaveAlone \/ RollBack \/ Quiesce \/ QuiesceFails \/ DisableCandidate
  \/ \E d \in Databases : RestoreDatabase(d)
  \/ KeepOldFiles \/ RestoreOldArtifacts \/ WriteOldStartIntent \/ ReleaseOldLocks
  \/ StartOldFleet \/ EnableOldFleet \/ AcceptOldFleet \/ OldFleetFails \/ RestoreFails
  \/ RetainEvidence

Next ==
  \/ Begin \/ Switch \/ Fail \/ Recovery
  \/ \E d \in Databases : Trade(d)
  \/ Crash \/ Reboot

Spec == Init /\ [][Next]_vars

\* The controller goes on, and is run again while the fleet is down.
FairSpec ==
  /\ Spec
  /\ WF_vars(Switch)
  /\ WF_vars(Recovery)
  /\ WF_vars(Begin /\ fleet = "none")

-----------------------------------------------------------------------------

Contents == [form : Releases, recorded : Nat]

TypeOK ==
  /\ live \in [Databases -> Contents]
  /\ traded \in [Databases -> Nat]
  /\ link \in Releases
  /\ autostart \in BOOLEAN
  /\ fleet \in Releases \cup {"none"}
  /\ receipts \subseteq Receipts
  /\ snapshot \in BOOLEAN
  /\ exact \in [Databases -> Contents]
  /\ held \subseteq Locks
  /\ pc \in Forward \cup Backward \cup {"idle"}
  /\ todo \subseteq Databases
  /\ stopped \in BOOLEAN
  /\ ended \in {"untouched", "running", "committed", "recovered", "incomplete", "died"}
  /\ loose \in BOOLEAN
  /\ faults \in 0..MaxFaults
  /\ crashes \in 0..MaxCrashes

\* Whatever fails, dies or restarts in whichever order, a fleet that runs is the
\* installed one and finds every database in the form it knows, unless a
\* rollback failed to disable the candidate's units.
FleetFitsDatabases ==
  fleet # "none" /\ ~loose =>
    link = fleet /\ \A d \in Databases : live[d].form = fleet

\* Up to the start boundary no recovery, however often it is repeated, forgets
\* an action a fleet has recorded.
NothingForgottenBeforeStart ==
  ~Reached("START_INTENT") =>
    \A d \in Databases : live[d].recorded = traded[d]

\* The databases are rewritten under every lock and under no fleet.
RewrittenOffline ==
  [][\A d \in Databases : live'[d] # live[d] /\ traded'[d] = traded[d]
       => fleet = "none" /\ held' = Locks]_vars

\* A commit is final: no later run, crash or restart takes the candidate or
\* anything it recorded away.
CommitIsFinal ==
  Reached("COMMITTED") =>
    /\ link = "new" /\ autostart
    /\ \A d \in Databases : live[d] = [form |-> "new", recorded |-> traded[d]]

\* A controller that ends without an error, and the restarts of the host after
\* it, leave a fleet that runs.
NeverLeftStopped ==
  pc = "idle" /\ ended \notin {"incomplete", "died"} => fleet # "none"

\* Every state a failure or a death leaves can be recovered: a stopped fleet is
\* replaced by a running one.
FleetReturns == fleet = "none" ~> fleet # "none"

=============================================================================
