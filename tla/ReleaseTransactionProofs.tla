---------------------- MODULE ReleaseTransactionProofs ----------------------
(***************************************************************************)
(* Theorems about ReleaseTransaction, for any set of databases and any     *)
(* number of trades, faults, crashes and restarts of the host.             *)
(***************************************************************************)
EXTENDS ReleaseTransaction, TLAPS

\* Steps of the release after each of its receipts.
AfterStart == {"unlock", "start", "accept", "accepted", "enable", "commit"}
AfterMutation == {"replace", "install", "intend start"} \cup AfterStart
AfterPrepared == {"disable", "stage"} \cup AfterMutation
AfterStop == {"stop", "copy", "prepared"} \cup AfterPrepared

\* Steps at which the fleet is kept down, by the release or by its rollback.
KeptDown ==
  {"copy", "prepared", "disable", "stage", "replace", "install", "intend start", "unlock",
   "start", "restore", "restore old", "intend old", "unlock old", "start old"}

AllForm(form) == \A d \in Databases : live[d].form = form
ExactIsCurrent == \A d \in Databases : exact[d].recorded = traded[d]

\* What the receipts say of the step, and of each other.
InSequence ==
  /\ pc \in Forward =>
       /\ Reached("STOP_INTENT") <=> pc \in AfterStop
       /\ Reached("PREPARED") <=> pc \in AfterPrepared
       /\ Reached("DB_MUTATION_INTENT") <=> pc \in AfterMutation
       /\ Reached("START_INTENT") <=> pc \in AfterStart
       /\ ~Reached("OLD_START_INTENT") /\ ~Reached("COMMITTED")
       /\ ~snapshot <=> pc \in {"preflight", "prepare"}
  /\ pc \in Backward \ {"rollback"} => Reached("STOP_INTENT") /\ ~Reached("COMMITTED")
  /\ Reached("PREPARED") => Reached("STOP_INTENT")
  /\ Reached("DB_MUTATION_INTENT") => Reached("PREPARED")
  /\ Reached("START_INTENT") => Reached("DB_MUTATION_INTENT")
  /\ ~snapshot => receipts = {} /\ ~loose
  /\ pc = "disable candidate" => Reached("START_INTENT")
  /\ pc = "restore" => RestoresDatabases
  /\ pc \in {"unlock old", "start old", "enable old", "accept old"} =>
       Reached("OLD_START_INTENT") \/ ~Reached("PREPARED")

\* Who is up, and what a controller that ends without an error has left.
FleetAsLeft ==
  /\ pc \in KeptDown => fleet = "none"
  /\ pc \in {"accept", "accepted", "enable", "commit"} => fleet = "new"
  /\ pc = "enable old" => fleet = "old"
  /\ pc = "accept old" => fleet = "old" /\ autostart
  /\ pc = "commit" => autostart
  /\ pc # "idle" => ended \in {"running", "incomplete"}
  /\ ~Reached("STOP_INTENT") \/ Reached("COMMITTED") => fleet # "none" /\ autostart
  /\ pc = "idle" /\ ended \notin {"incomplete", "died"} => fleet # "none" /\ autostart
  /\ pc = "retain" /\ ended = "running" => fleet # "none" /\ autostart
  /\ pc = "disable candidate" => IF stopped THEN fleet = "none" ELSE ended = "incomplete"
  /\ stopped => pc \in Backward \ {"rollback", "quiesce"}

\* Who holds the locks while databases may be rewritten.
LocksHeld ==
  /\ pc \in {"copy", "prepared", "disable", "stage", "replace", "install", "intend start",
             "unlock"} => held = Locks
  /\ pc = "restore" \/ (pc = "disable candidate" /\ stopped) => "profiles" \in held

\* The form of the databases: units that run or start with the host find
\* theirs, and the receipts narrow what it can be.
UnitsFit ==
  /\ ~loose /\ (autostart \/ fleet # "none") => AllForm(link)
  /\ ~loose /\ fleet # "none" => fleet = link
  /\ ~Reached("DB_MUTATION_INTENT") \/ Reached("OLD_START_INTENT") =>
       link = "old" /\ AllForm("old")
  /\ Reached("COMMITTED") => link = "new" /\ AllForm("new")
  /\ pc \in Forward \/ Reached("COMMITTED") => ~loose

\* And so does the step.
StepsFit ==
  /\ pc \in AfterMutation \ {"commit"} \/ pc = "stage" => ~autostart
  /\ pc = "replace" => \A d \in Databases \ todo : live[d].form = "new"
  /\ pc \in AfterMutation \ {"replace"} => AllForm("new")
  /\ pc \in AfterStart \cup {"intend start"} => link = "new"
  /\ pc = "restore" => (autostart => loose) /\ \A d \in Databases \ todo : live[d].form = "old"
  /\ pc \in {"restore old", "intend old", "unlock old", "start old", "enable old", "accept old"} =>
       AllForm("old")
  /\ pc \in {"intend old", "unlock old", "start old", "enable old", "accept old"} =>
       link = "old"

FormsFit == UnitsFit /\ StepsFit

\* What the fleets recorded is in the databases until a rollback goes behind
\* the start boundary, and in the copies while only these may come back.
NothingLost ==
  /\ ~Reached("START_INTENT") \/ pc \in Forward \/ Reached("COMMITTED") =>
       \A d \in Databases : live[d].recorded = traded[d]
  /\ Reached("DB_MUTATION_INTENT") /\ ~Reached("START_INTENT") /\ ~Reached("OLD_START_INTENT")
       => fleet = "none" /\ ~autostart /\ ExactIsCurrent
  /\ pc \in {"prepared", "disable", "stage"} => ExactIsCurrent

\* The inductive invariant.
Recoverable ==
  TypeOK /\ InSequence /\ FleetAsLeft /\ LocksHeld /\ FormsFit /\ NothingLost

-----------------------------------------------------------------------------

\* A fault or a crash within the bound leaves the counter in its range.
LEMMA OneMoreFault ==
  ASSUME TypeOK, faults < MaxFaults, faults' = faults + 1
  PROVE  faults' \in 0..MaxFaults
BY ReleaseAssumption DEF TypeOK

LEMMA OneMoreCrash ==
  ASSUME TypeOK, crashes < MaxCrashes, crashes' = crashes + 1
  PROVE  crashes' \in 0..MaxCrashes
BY ReleaseAssumption DEF TypeOK

\* A trade is recorded where it is made and changes no database's form.
LEMMA TradeRecords ==
  ASSUME TypeOK, NEW d \in Databases, Trade(d)
  PROVE  /\ live' \in [Databases -> Contents]
         /\ traded' \in [Databases -> Nat]
         /\ \A e \in Databases :
              /\ live'[e].form = live[e].form
              /\ live[e].recorded = traded[e] => live'[e].recorded = traded'[e]
              /\ e # d => live'[e] = live[e]
              /\ traded'[d] # traded[d]
BY DEF TypeOK, Contents, Trade

LEMMA TradeKeepsTypes ==
  ASSUME TypeOK, NEW d \in Databases, Trade(d)
  PROVE  TypeOK'
BY TradeRecords DEF TypeOK, Trade, evidence, machine, counters

\* A restored database has the old form, and the others keep theirs.
LEMMA RestoreReplaces ==
  ASSUME TypeOK, NEW d \in Databases, RestoreDatabase(d)
  PROVE  /\ live'[d].form = "old"
         /\ \A e \in Databases : e # d => live'[e] = live[e]
         /\ pc = "restore" /\ todo' = todo \ {d}
         /\ pc' = IF todo = {d} THEN "restore old" ELSE "restore"
         /\ UNCHANGED <<traded, link, autostart, fleet, receipts, loose>>
BY DEF TypeOK, Contents, RestoreDatabase, Copy, To, evidence

\* A rollback that disables the candidate's units, or fails to, rewrites nothing.
LEMMA DisableChanges ==
  ASSUME TypeOK, DisableCandidate
  PROVE  /\ UNCHANGED <<live, traded, link, fleet, receipts>>
         /\ pc = "disable candidate"
         /\ pc' = IF stopped THEN "restore" ELSE "retain"
         /\ stopped => todo' = Databases
         /\ autostart' => loose'
         /\ ~loose' => ~loose \/ fleet = "none"
<1> DEFINE Goal == (autostart' => loose') /\ (~loose' => ~loose \/ fleet = "none")
<1>1. ASSUME autostart' = FALSE, loose' = (loose /\ fleet # "none") PROVE Goal
  BY <1>1
<1>2. ASSUME UNCHANGED autostart, loose' = (loose \/ autostart) PROVE Goal
  BY <1>2
<1>3. Goal
  BY <1>1, <1>2 DEF DisableCandidate
<1> QED
  BY <1>3 DEF TypeOK, DisableCandidate, Restorable, To, evidence

\* Nothing changes when no variable does.
LEMMA StutterKeeps ==
  ASSUME Recoverable, UNCHANGED vars
  PROVE  Recoverable'
<1> USE DEF Recoverable, Reached, RestoresDatabases, AllForm, ExactIsCurrent, vars, host,
            evidence, machine, counters
<1>1. TypeOK'
  BY DEF TypeOK
<1>2. InSequence' /\ LocksHeld'
  BY DEF InSequence, LocksHeld
<1>3. FleetAsLeft'
  BY DEF FleetAsLeft
<1>4. FormsFit'
  BY DEF FormsFit, UnitsFit, StepsFit
<1>5. NothingLost'
  BY DEF NothingLost
<1> QED
  BY <1>1, <1>2, <1>3, <1>4, <1>5

USE DEF Receipts, Releases, Locks, Forward, Backward, AfterStart, AfterMutation, AfterPrepared,
        AfterStop, KeptDown

\* The old fleet runs and nothing was begun.
LEMMA Initially == Init => Recoverable
<1> SUFFICES ASSUME Init PROVE Recoverable
  OBVIOUS
<1>1. TypeOK
  <2>1. live \in [Databases -> Contents]
    BY DEF Init, Contents
  <2>2. traded \in [Databases -> Nat] /\ 0 \in 0..MaxFaults /\ 0 \in 0..MaxCrashes
    BY ReleaseAssumption DEF Init
  <2> QED
    BY <2>1, <2>2 DEF Init, TypeOK
<1>2. InSequence /\ FleetAsLeft /\ LocksHeld
  BY DEF Init, InSequence, FleetAsLeft, LocksHeld, Reached
<1>3. FormsFit /\ NothingLost
  BY DEF Init, FormsFit, UnitsFit, StepsFit, NothingLost, AllForm, Reached
<1> QED
  BY <1>1, <1>2, <1>3 DEF Recoverable

\* Every step keeps the types.
LEMMA TypesKept == Recoverable /\ [Next]_vars => TypeOK'
<1> SUFFICES ASSUME Recoverable, [Next]_vars PROVE TypeOK'
  OBVIOUS
<1> USE ReleaseAssumption DEF Recoverable, TypeOK, Contents, Leave, Copy, To, Finish, Disabled, Settled, Fault, Restorable,
           OriginalEnablement, host, evidence, machine, counters
<1>1. CASE Begin
  BY <1>1 DEF Begin
<1>2. CASE Preflight
  BY <1>2 DEF Preflight
<1>3. CASE PrepareSnapshot
  BY <1>3 DEF PrepareSnapshot
<1>4. CASE WriteStopIntent
  BY <1>4 DEF WriteStopIntent
<1>5. CASE StopFleet
  BY <1>5 DEF StopFleet
<1>6. CASE CopyExact
  BY <1>6 DEF CopyExact
<1>7. CASE WritePrepared
  BY <1>7 DEF WritePrepared
<1>8. CASE DisableAutostart
  BY <1>8 DEF DisableAutostart
<1>9. CASE StageDatabases
  BY <1>9 DEF StageDatabases
<1>10. ASSUME NEW d \in Databases, ReplaceDatabase(d) PROVE TypeOK'
  BY <1>10 DEF ReplaceDatabase
<1>11. CASE InstallCandidate
  BY <1>11 DEF InstallCandidate
<1>12. CASE WriteStartIntent
  BY <1>12 DEF WriteStartIntent
<1>13. CASE ReleaseLocks
  BY <1>13 DEF ReleaseLocks
<1>14. CASE StartCandidate
  BY <1>14 DEF StartCandidate
<1>15. CASE AcceptCandidate
  BY <1>15 DEF AcceptCandidate
<1>16. CASE WriteAccepted
  BY <1>16 DEF WriteAccepted
<1>17. CASE EnableCandidateAutostart
  BY <1>17 DEF EnableCandidateAutostart
<1>18. CASE Commit
  BY <1>18 DEF Commit
<1>19. CASE Fail
  BY <1>19, OneMoreFault, ZenonT(60) DEF Fail
<1>20. CASE LeaveAlone
  BY <1>20 DEF LeaveAlone
<1>21. CASE RollBack
  BY <1>21 DEF RollBack
<1>22. CASE Quiesce
  BY <1>22 DEF Quiesce
<1>23. CASE QuiesceFails
  BY <1>23, OneMoreFault DEF QuiesceFails
<1>24. CASE DisableCandidate
  BY <1>24, OneMoreFault DEF DisableCandidate
<1>25. ASSUME NEW d \in Databases, RestoreDatabase(d) PROVE TypeOK'
  BY <1>25, ZenonT(60) DEF RestoreDatabase
<1>26. CASE KeepOldFiles
  BY <1>26 DEF KeepOldFiles
<1>27. CASE RestoreOldArtifacts
  BY <1>27 DEF RestoreOldArtifacts
<1>28. CASE WriteOldStartIntent
  BY <1>28 DEF WriteOldStartIntent
<1>29. CASE ReleaseOldLocks
  BY <1>29 DEF ReleaseOldLocks
<1>30. CASE StartOldFleet
  BY <1>30 DEF StartOldFleet
<1>31. CASE EnableOldFleet
  BY <1>31 DEF EnableOldFleet
<1>32. CASE AcceptOldFleet
  BY <1>32 DEF AcceptOldFleet
<1>33. CASE OldFleetFails
  BY <1>33, OneMoreFault DEF OldFleetFails
<1>34. CASE RestoreFails
  BY <1>34, OneMoreFault DEF RestoreFails
<1>35. CASE RetainEvidence
  BY <1>35 DEF RetainEvidence
<1>36. ASSUME NEW d \in Databases, Trade(d) PROVE TypeOK'
  BY <1>36, TradeKeepsTypes
<1>37. CASE Crash
  BY <1>37, OneMoreCrash DEF Crash
<1>38. CASE Reboot
  BY <1>38, OneMoreCrash DEF Reboot
<1>39. CASE UNCHANGED vars
  BY <1>39, StutterKeeps
<1> QED
  BY <1>1, <1>2, <1>3, <1>4, <1>5, <1>6, <1>7, <1>8, <1>9, <1>10, <1>11, <1>12, <1>13,
     <1>14, <1>15, <1>16, <1>17, <1>18, <1>19, <1>20, <1>21, <1>22, <1>23, <1>24, <1>25, <1>26,
     <1>27, <1>28, <1>29, <1>30, <1>31, <1>32, <1>33, <1>34, <1>35, <1>36, <1>37, <1>38, <1>39
     DEF Next, Switch, Recovery

\* Receipts are written in their order, each at its step.
LEMMA SequenceKept == Recoverable /\ [Next]_vars => InSequence'
<1> SUFFICES ASSUME Recoverable, [Next]_vars PROVE InSequence'
  OBVIOUS
<1> USE DEF Recoverable, TypeOK, Contents, InSequence,
           Leave, Reached, Copy, To, Finish, Disabled, Settled, RestoresDatabases, Fault,
           Restorable, OriginalEnablement, host, evidence, machine, counters
<1>1. CASE Begin
  BY <1>1 DEF Begin
<1>2. CASE Preflight
  BY <1>2 DEF Preflight
<1>3. CASE PrepareSnapshot
  BY <1>3 DEF PrepareSnapshot
<1>4. CASE WriteStopIntent
  BY <1>4 DEF WriteStopIntent
<1>5. CASE StopFleet
  BY <1>5 DEF StopFleet
<1>6. CASE CopyExact
  BY <1>6 DEF CopyExact
<1>7. CASE WritePrepared
  BY <1>7 DEF WritePrepared
<1>8. CASE DisableAutostart
  BY <1>8 DEF DisableAutostart
<1>9. CASE StageDatabases
  BY <1>9 DEF StageDatabases
<1>10. ASSUME NEW d \in Databases, ReplaceDatabase(d) PROVE InSequence'
  BY <1>10 DEF ReplaceDatabase
<1>11. CASE InstallCandidate
  BY <1>11 DEF InstallCandidate
<1>12. CASE WriteStartIntent
  BY <1>12 DEF WriteStartIntent
<1>13. CASE ReleaseLocks
  BY <1>13 DEF ReleaseLocks
<1>14. CASE StartCandidate
  BY <1>14 DEF StartCandidate
<1>15. CASE AcceptCandidate
  BY <1>15 DEF AcceptCandidate
<1>16. CASE WriteAccepted
  BY <1>16 DEF WriteAccepted
<1>17. CASE EnableCandidateAutostart
  BY <1>17 DEF EnableCandidateAutostart
<1>18. CASE Commit
  BY <1>18 DEF Commit
<1>19. CASE Fail
  BY <1>19 DEF Fail
<1>20. CASE LeaveAlone
  BY <1>20 DEF LeaveAlone
<1>21. CASE RollBack
  BY <1>21 DEF RollBack
<1>22. CASE Quiesce
  BY <1>22 DEF Quiesce
<1>23. CASE QuiesceFails
  BY <1>23 DEF QuiesceFails
<1>24. CASE DisableCandidate
  BY <1>24 DEF DisableCandidate
<1>25. ASSUME NEW d \in Databases, RestoreDatabase(d) PROVE InSequence'
  BY <1>25 DEF RestoreDatabase
<1>26. CASE KeepOldFiles
  BY <1>26 DEF KeepOldFiles
<1>27. CASE RestoreOldArtifacts
  BY <1>27 DEF RestoreOldArtifacts
<1>28. CASE WriteOldStartIntent
  BY <1>28 DEF WriteOldStartIntent
<1>29. CASE ReleaseOldLocks
  BY <1>29 DEF ReleaseOldLocks
<1>30. CASE StartOldFleet
  BY <1>30 DEF StartOldFleet
<1>31. CASE EnableOldFleet
  BY <1>31 DEF EnableOldFleet
<1>32. CASE AcceptOldFleet
  BY <1>32 DEF AcceptOldFleet
<1>33. CASE OldFleetFails
  BY <1>33 DEF OldFleetFails
<1>34. CASE RestoreFails
  BY <1>34 DEF RestoreFails
<1>35. CASE RetainEvidence
  BY <1>35 DEF RetainEvidence
<1>36. ASSUME NEW d \in Databases, Trade(d) PROVE InSequence'
  BY <1>36 DEF Trade
<1>37. CASE Crash
  BY <1>37 DEF Crash
<1>38. CASE Reboot
  BY <1>38 DEF Reboot
<1>39. CASE UNCHANGED vars
  BY <1>39, StutterKeeps
<1> QED
  BY <1>1, <1>2, <1>3, <1>4, <1>5, <1>6, <1>7, <1>8, <1>9, <1>10, <1>11, <1>12, <1>13,
     <1>14, <1>15, <1>16, <1>17, <1>18, <1>19, <1>20, <1>21, <1>22, <1>23, <1>24, <1>25, <1>26,
     <1>27, <1>28, <1>29, <1>30, <1>31, <1>32, <1>33, <1>34, <1>35, <1>36, <1>37, <1>38, <1>39
     DEF Next, Switch, Recovery

\* A fleet that is down is one a controller keeps down or failed to bring back.
LEMMA FleetKept == Recoverable /\ [Next]_vars => FleetAsLeft'
<1> SUFFICES ASSUME Recoverable, [Next]_vars PROVE FleetAsLeft'
  OBVIOUS
<1> USE DEF Recoverable, TypeOK, Contents, InSequence, FleetAsLeft, FormsFit, UnitsFit, StepsFit, AllForm,
           Leave, Reached, Copy, To, Finish, Disabled, Settled, RestoresDatabases, Fault,
           Restorable, OriginalEnablement, host, evidence, machine, counters
<1>1. CASE Begin
  BY <1>1 DEF Begin
<1>2. CASE Preflight
  BY <1>2 DEF Preflight
<1>3. CASE PrepareSnapshot
  BY <1>3 DEF PrepareSnapshot
<1>4. CASE WriteStopIntent
  BY <1>4 DEF WriteStopIntent
<1>5. CASE StopFleet
  BY <1>5 DEF StopFleet
<1>6. CASE CopyExact
  BY <1>6 DEF CopyExact
<1>7. CASE WritePrepared
  BY <1>7 DEF WritePrepared
<1>8. CASE DisableAutostart
  BY <1>8 DEF DisableAutostart
<1>9. CASE StageDatabases
  BY <1>9 DEF StageDatabases
<1>10. ASSUME NEW d \in Databases, ReplaceDatabase(d) PROVE FleetAsLeft'
  BY <1>10 DEF ReplaceDatabase
<1>11. CASE InstallCandidate
  BY <1>11 DEF InstallCandidate
<1>12. CASE WriteStartIntent
  BY <1>12 DEF WriteStartIntent
<1>13. CASE ReleaseLocks
  BY <1>13 DEF ReleaseLocks
<1>14. CASE StartCandidate
  BY <1>14 DEF StartCandidate
<1>15. CASE AcceptCandidate
  BY <1>15 DEF AcceptCandidate
<1>16. CASE WriteAccepted
  BY <1>16 DEF WriteAccepted
<1>17. CASE EnableCandidateAutostart
  BY <1>17 DEF EnableCandidateAutostart
<1>18. CASE Commit
  BY <1>18 DEF Commit
<1>19. CASE Fail
  BY <1>19 DEF Fail
<1>20. CASE LeaveAlone
  BY <1>20 DEF LeaveAlone
<1>21. CASE RollBack
  BY <1>21 DEF RollBack
<1>22. CASE Quiesce
  BY <1>22 DEF Quiesce
<1>23. CASE QuiesceFails
  BY <1>23 DEF QuiesceFails
<1>24. CASE DisableCandidate
  BY <1>24 DEF DisableCandidate
<1>25. ASSUME NEW d \in Databases, RestoreDatabase(d) PROVE FleetAsLeft'
  BY <1>25 DEF RestoreDatabase
<1>26. CASE KeepOldFiles
  BY <1>26 DEF KeepOldFiles
<1>27. CASE RestoreOldArtifacts
  BY <1>27 DEF RestoreOldArtifacts
<1>28. CASE WriteOldStartIntent
  BY <1>28 DEF WriteOldStartIntent
<1>29. CASE ReleaseOldLocks
  BY <1>29 DEF ReleaseOldLocks
<1>30. CASE StartOldFleet
  BY <1>30 DEF StartOldFleet
<1>31. CASE EnableOldFleet
  BY <1>31 DEF EnableOldFleet
<1>32. CASE AcceptOldFleet
  BY <1>32 DEF AcceptOldFleet
<1>33. CASE OldFleetFails
  BY <1>33 DEF OldFleetFails
<1>34. CASE RestoreFails
  BY <1>34 DEF RestoreFails
<1>35. CASE RetainEvidence
  BY <1>35 DEF RetainEvidence
<1>36. ASSUME NEW d \in Databases, Trade(d) PROVE FleetAsLeft'
  BY <1>36, ZenonT(60) DEF Trade
<1>37. CASE Crash
  BY <1>37 DEF Crash
<1>38. CASE Reboot
  BY <1>38 DEF Reboot
<1>39. CASE UNCHANGED vars
  BY <1>39, StutterKeeps
<1> QED
  BY <1>1, <1>2, <1>3, <1>4, <1>5, <1>6, <1>7, <1>8, <1>9, <1>10, <1>11, <1>12, <1>13,
     <1>14, <1>15, <1>16, <1>17, <1>18, <1>19, <1>20, <1>21, <1>22, <1>23, <1>24, <1>25, <1>26,
     <1>27, <1>28, <1>29, <1>30, <1>31, <1>32, <1>33, <1>34, <1>35, <1>36, <1>37, <1>38, <1>39
     DEF Next, Switch, Recovery

\* The locks are taken before the databases are rewritten and kept until they are.
LEMMA LocksKept == Recoverable /\ [Next]_vars => LocksHeld'
<1> SUFFICES ASSUME Recoverable, [Next]_vars PROVE LocksHeld'
  OBVIOUS
<1> USE DEF Recoverable, TypeOK, Contents, FleetAsLeft, LocksHeld,
           Leave, Reached, Copy, To, Finish, Disabled, Settled, RestoresDatabases, Fault,
           Restorable, OriginalEnablement, host, evidence, machine, counters
<1>1. CASE Begin
  BY <1>1 DEF Begin
<1>2. CASE Preflight
  BY <1>2 DEF Preflight
<1>3. CASE PrepareSnapshot
  BY <1>3 DEF PrepareSnapshot
<1>4. CASE WriteStopIntent
  BY <1>4 DEF WriteStopIntent
<1>5. CASE StopFleet
  BY <1>5 DEF StopFleet
<1>6. CASE CopyExact
  BY <1>6 DEF CopyExact
<1>7. CASE WritePrepared
  BY <1>7 DEF WritePrepared
<1>8. CASE DisableAutostart
  BY <1>8 DEF DisableAutostart
<1>9. CASE StageDatabases
  BY <1>9 DEF StageDatabases
<1>10. ASSUME NEW d \in Databases, ReplaceDatabase(d) PROVE LocksHeld'
  BY <1>10 DEF ReplaceDatabase
<1>11. CASE InstallCandidate
  BY <1>11 DEF InstallCandidate
<1>12. CASE WriteStartIntent
  BY <1>12 DEF WriteStartIntent
<1>13. CASE ReleaseLocks
  BY <1>13 DEF ReleaseLocks
<1>14. CASE StartCandidate
  BY <1>14 DEF StartCandidate
<1>15. CASE AcceptCandidate
  BY <1>15 DEF AcceptCandidate
<1>16. CASE WriteAccepted
  BY <1>16 DEF WriteAccepted
<1>17. CASE EnableCandidateAutostart
  BY <1>17 DEF EnableCandidateAutostart
<1>18. CASE Commit
  BY <1>18 DEF Commit
<1>19. CASE Fail
  BY <1>19 DEF Fail
<1>20. CASE LeaveAlone
  BY <1>20 DEF LeaveAlone
<1>21. CASE RollBack
  BY <1>21 DEF RollBack
<1>22. CASE Quiesce
  BY <1>22 DEF Quiesce
<1>23. CASE QuiesceFails
  BY <1>23 DEF QuiesceFails
<1>24. CASE DisableCandidate
  BY <1>24 DEF DisableCandidate
<1>25. ASSUME NEW d \in Databases, RestoreDatabase(d) PROVE LocksHeld'
  BY <1>25 DEF RestoreDatabase
<1>26. CASE KeepOldFiles
  BY <1>26 DEF KeepOldFiles
<1>27. CASE RestoreOldArtifacts
  BY <1>27 DEF RestoreOldArtifacts
<1>28. CASE WriteOldStartIntent
  BY <1>28 DEF WriteOldStartIntent
<1>29. CASE ReleaseOldLocks
  BY <1>29 DEF ReleaseOldLocks
<1>30. CASE StartOldFleet
  BY <1>30 DEF StartOldFleet
<1>31. CASE EnableOldFleet
  BY <1>31 DEF EnableOldFleet
<1>32. CASE AcceptOldFleet
  BY <1>32 DEF AcceptOldFleet
<1>33. CASE OldFleetFails
  BY <1>33 DEF OldFleetFails
<1>34. CASE RestoreFails
  BY <1>34 DEF RestoreFails
<1>35. CASE RetainEvidence
  BY <1>35 DEF RetainEvidence
<1>36. ASSUME NEW d \in Databases, Trade(d) PROVE LocksHeld'
  BY <1>36 DEF Trade
<1>37. CASE Crash
  BY <1>37 DEF Crash
<1>38. CASE Reboot
  BY <1>38 DEF Reboot
<1>39. CASE UNCHANGED vars
  BY <1>39, StutterKeeps
<1> QED
  BY <1>1, <1>2, <1>3, <1>4, <1>5, <1>6, <1>7, <1>8, <1>9, <1>10, <1>11, <1>12, <1>13,
     <1>14, <1>15, <1>16, <1>17, <1>18, <1>19, <1>20, <1>21, <1>22, <1>23, <1>24, <1>25, <1>26,
     <1>27, <1>28, <1>29, <1>30, <1>31, <1>32, <1>33, <1>34, <1>35, <1>36, <1>37, <1>38, <1>39
     DEF Next, Switch, Recovery

\* Units that run, or start with the host, find the databases of their release.
LEMMA FormsKept == Recoverable /\ [Next]_vars => FormsFit'
<1> SUFFICES ASSUME Recoverable, [Next]_vars PROVE FormsFit'
  OBVIOUS
<1> USE DEF Recoverable, TypeOK, Contents, InSequence, FleetAsLeft, FormsFit, UnitsFit, StepsFit, AllForm, NothingLost,
           Leave, Reached, Copy, To, Finish, Disabled, Settled, RestoresDatabases, Fault,
           Restorable, OriginalEnablement, host, evidence, machine, counters
<1>1. CASE Begin
  BY <1>1 DEF Begin
<1>2. CASE Preflight
  BY <1>2 DEF Preflight
<1>3. CASE PrepareSnapshot
  BY <1>3 DEF PrepareSnapshot
<1>4. CASE WriteStopIntent
  BY <1>4 DEF WriteStopIntent
<1>5. CASE StopFleet
  BY <1>5 DEF StopFleet
<1>6. CASE CopyExact
  BY <1>6 DEF CopyExact
<1>7. CASE WritePrepared
  BY <1>7 DEF WritePrepared
<1>8. CASE DisableAutostart
  BY <1>8 DEF DisableAutostart
<1>9. CASE StageDatabases
  BY <1>9 DEF StageDatabases
<1>10. ASSUME NEW d \in Databases, ReplaceDatabase(d) PROVE FormsFit'
  BY <1>10 DEF ReplaceDatabase
<1>11. CASE InstallCandidate
  BY <1>11 DEF InstallCandidate
<1>12. CASE WriteStartIntent
  BY <1>12 DEF WriteStartIntent
<1>13. CASE ReleaseLocks
  BY <1>13 DEF ReleaseLocks
<1>14. CASE StartCandidate
  BY <1>14 DEF StartCandidate
<1>15. CASE AcceptCandidate
  BY <1>15 DEF AcceptCandidate
<1>16. CASE WriteAccepted
  BY <1>16 DEF WriteAccepted
<1>17. CASE EnableCandidateAutostart
  BY <1>17 DEF EnableCandidateAutostart
<1>18. CASE Commit
  BY <1>18 DEF Commit
<1>19. CASE Fail
  BY <1>19 DEF Fail
<1>20. CASE LeaveAlone
  BY <1>20 DEF LeaveAlone
<1>21. CASE RollBack
  BY <1>21 DEF RollBack
<1>22. CASE Quiesce
  BY <1>22, ZenonT(60) DEF Quiesce
<1>23. CASE QuiesceFails
  BY <1>23 DEF QuiesceFails
<1>24. CASE DisableCandidate
  <2>1. UnitsFit'
    BY <1>24, DisableChanges
  <2>2. StepsFit'
    BY <1>24, DisableChanges
  <2> QED
    BY <2>1, <2>2
<1>25. ASSUME NEW d \in Databases, RestoreDatabase(d) PROVE FormsFit'
  <2>1. UnitsFit'
    BY <1>25, RestoreReplaces, ZenonT(60)
  <2>2. StepsFit'
    BY <1>25, RestoreReplaces, ZenonT(60)
  <2> QED
    BY <2>1, <2>2
<1>26. CASE KeepOldFiles
  BY <1>26 DEF KeepOldFiles
<1>27. CASE RestoreOldArtifacts
  BY <1>27 DEF RestoreOldArtifacts
<1>28. CASE WriteOldStartIntent
  BY <1>28 DEF WriteOldStartIntent
<1>29. CASE ReleaseOldLocks
  BY <1>29 DEF ReleaseOldLocks
<1>30. CASE StartOldFleet
  BY <1>30 DEF StartOldFleet
<1>31. CASE EnableOldFleet
  BY <1>31 DEF EnableOldFleet
<1>32. CASE AcceptOldFleet
  BY <1>32 DEF AcceptOldFleet
<1>33. CASE OldFleetFails
  BY <1>33 DEF OldFleetFails
<1>34. CASE RestoreFails
  BY <1>34 DEF RestoreFails
<1>35. CASE RetainEvidence
  BY <1>35 DEF RetainEvidence
<1>36. ASSUME NEW d \in Databases, Trade(d) PROVE FormsFit'
  BY <1>36, TradeRecords, ZenonT(60) DEF Trade
<1>37. CASE Crash
  BY <1>37 DEF Crash
<1>38. CASE Reboot
  BY <1>38 DEF Reboot
<1>39. CASE UNCHANGED vars
  BY <1>39, StutterKeeps
<1> QED
  BY <1>1, <1>2, <1>3, <1>4, <1>5, <1>6, <1>7, <1>8, <1>9, <1>10, <1>11, <1>12, <1>13,
     <1>14, <1>15, <1>16, <1>17, <1>18, <1>19, <1>20, <1>21, <1>22, <1>23, <1>24, <1>25, <1>26,
     <1>27, <1>28, <1>29, <1>30, <1>31, <1>32, <1>33, <1>34, <1>35, <1>36, <1>37, <1>38, <1>39
     DEF Next, Switch, Recovery

\* The copies are current for as long as they may be restored before the start.
LEMMA RecordsKept == Recoverable /\ [Next]_vars => NothingLost'
<1> SUFFICES ASSUME Recoverable, [Next]_vars PROVE NothingLost'
  OBVIOUS
<1> USE DEF Recoverable, TypeOK, Contents, InSequence, FleetAsLeft, FormsFit, UnitsFit, StepsFit, AllForm, NothingLost, ExactIsCurrent,
           Leave, Reached, Copy, To, Finish, Disabled, Settled, RestoresDatabases, Fault,
           Restorable, OriginalEnablement, host, evidence, machine, counters
<1>1. CASE Begin
  BY <1>1 DEF Begin
<1>2. CASE Preflight
  BY <1>2 DEF Preflight
<1>3. CASE PrepareSnapshot
  BY <1>3 DEF PrepareSnapshot
<1>4. CASE WriteStopIntent
  BY <1>4 DEF WriteStopIntent
<1>5. CASE StopFleet
  BY <1>5 DEF StopFleet
<1>6. CASE CopyExact
  BY <1>6 DEF CopyExact
<1>7. CASE WritePrepared
  BY <1>7 DEF WritePrepared
<1>8. CASE DisableAutostart
  BY <1>8 DEF DisableAutostart
<1>9. CASE StageDatabases
  BY <1>9 DEF StageDatabases
<1>10. ASSUME NEW d \in Databases, ReplaceDatabase(d) PROVE NothingLost'
  BY <1>10 DEF ReplaceDatabase
<1>11. CASE InstallCandidate
  BY <1>11 DEF InstallCandidate
<1>12. CASE WriteStartIntent
  BY <1>12 DEF WriteStartIntent
<1>13. CASE ReleaseLocks
  BY <1>13 DEF ReleaseLocks
<1>14. CASE StartCandidate
  BY <1>14 DEF StartCandidate
<1>15. CASE AcceptCandidate
  BY <1>15 DEF AcceptCandidate
<1>16. CASE WriteAccepted
  BY <1>16 DEF WriteAccepted
<1>17. CASE EnableCandidateAutostart
  BY <1>17 DEF EnableCandidateAutostart
<1>18. CASE Commit
  BY <1>18 DEF Commit
<1>19. CASE Fail
  BY <1>19 DEF Fail
<1>20. CASE LeaveAlone
  BY <1>20 DEF LeaveAlone
<1>21. CASE RollBack
  BY <1>21 DEF RollBack
<1>22. CASE Quiesce
  BY <1>22 DEF Quiesce
<1>23. CASE QuiesceFails
  BY <1>23 DEF QuiesceFails
<1>24. CASE DisableCandidate
  BY <1>24 DEF DisableCandidate
<1>25. ASSUME NEW d \in Databases, RestoreDatabase(d) PROVE NothingLost'
  BY <1>25, ZenonT(60) DEF RestoreDatabase
<1>26. CASE KeepOldFiles
  BY <1>26 DEF KeepOldFiles
<1>27. CASE RestoreOldArtifacts
  BY <1>27 DEF RestoreOldArtifacts
<1>28. CASE WriteOldStartIntent
  BY <1>28 DEF WriteOldStartIntent
<1>29. CASE ReleaseOldLocks
  BY <1>29 DEF ReleaseOldLocks
<1>30. CASE StartOldFleet
  BY <1>30 DEF StartOldFleet
<1>31. CASE EnableOldFleet
  BY <1>31 DEF EnableOldFleet
<1>32. CASE AcceptOldFleet
  BY <1>32 DEF AcceptOldFleet
<1>33. CASE OldFleetFails
  BY <1>33 DEF OldFleetFails
<1>34. CASE RestoreFails
  BY <1>34 DEF RestoreFails
<1>35. CASE RetainEvidence
  BY <1>35 DEF RetainEvidence
<1>36. ASSUME NEW d \in Databases, Trade(d) PROVE NothingLost'
  BY <1>36, TradeRecords, ZenonT(60) DEF Trade
<1>37. CASE Crash
  BY <1>37 DEF Crash
<1>38. CASE Reboot
  BY <1>38 DEF Reboot
<1>39. CASE UNCHANGED vars
  BY <1>39, StutterKeeps
<1> QED
  BY <1>1, <1>2, <1>3, <1>4, <1>5, <1>6, <1>7, <1>8, <1>9, <1>10, <1>11, <1>12, <1>13,
     <1>14, <1>15, <1>16, <1>17, <1>18, <1>19, <1>20, <1>21, <1>22, <1>23, <1>24, <1>25, <1>26,
     <1>27, <1>28, <1>29, <1>30, <1>31, <1>32, <1>33, <1>34, <1>35, <1>36, <1>37, <1>38, <1>39
     DEF Next, Switch, Recovery

LEMMA Preserved == Recoverable /\ [Next]_vars => Recoverable'
BY TypesKept, SequenceKept, FleetKept, LocksKept, FormsKept, RecordsKept DEF Recoverable

LEMMA Inductive == Spec => []Recoverable
BY Initially, Preserved, PTL DEF Spec

-----------------------------------------------------------------------------

\* The receipts, databases, units and locks keep their types through every
\* interruption, and the bounds of faults and crashes are kept.
THEOREM TypeCorrect == Spec => []TypeOK
<1>1. Recoverable => TypeOK
  BY DEF Recoverable
<1> QED
  BY <1>1, Inductive, PTL

\* A fleet that runs, started by the release, its rollback or the host, is the
\* installed one and finds every database in its form.
THEOREM RunningFleetFits == Spec => []FleetFitsDatabases
<1>1. Recoverable => FleetFitsDatabases
  BY DEF Recoverable, FormsFit, UnitsFit, StepsFit, AllForm, FleetFitsDatabases
<1> QED
  BY <1>1, Inductive, PTL

\* Repeated recoveries before the start boundary lose no recorded action.
THEOREM NothingIsForgotten == Spec => []NothingForgottenBeforeStart
<1>1. Recoverable => NothingForgottenBeforeStart
  BY DEF Recoverable, NothingLost, NothingForgottenBeforeStart
<1> QED
  BY <1>1, Inductive, PTL

\* No later run, crash or restart takes back a committed candidate.
THEOREM CommitStays == Spec => []CommitIsFinal
<1>1. Recoverable => CommitIsFinal
  BY DEF Recoverable, TypeOK, Contents, FleetAsLeft, FormsFit, UnitsFit, NothingLost, AllForm,
         CommitIsFinal
<1> QED
  BY <1>1, Inductive, PTL

\* A controller that ends without an error leaves a fleet that runs.
THEOREM FleetIsLeftRunning == Spec => []NeverLeftStopped
<1>1. Recoverable => NeverLeftStopped
  BY DEF Recoverable, FleetAsLeft, NeverLeftStopped
<1> QED
  BY <1>1, Inductive, PTL

\* Only a controller that holds every lock, with no fleet up, rewrites a database.
THEOREM RewritesAreOffline == Spec => RewrittenOffline
<1>1. Recoverable /\ [Next]_vars =>
         [\A d \in Databases : live'[d] # live[d] /\ traded'[d] = traded[d]
            => fleet = "none" /\ held' = Locks]_vars
  <2> DEFINE Offline == \A d \in Databases :
        live'[d] # live[d] /\ traded'[d] = traded[d] => fleet = "none" /\ held' = Locks
  <2> SUFFICES ASSUME Recoverable, [Next]_vars PROVE Offline
    OBVIOUS
  <2> USE DEF Recoverable, FleetAsLeft, LocksHeld, To
  <2>1. ASSUME NEW d \in Databases, ReplaceDatabase(d) PROVE Offline
    BY <2>1 DEF ReplaceDatabase
  <2>2. ASSUME NEW d \in Databases, RestoreDatabase(d) PROVE Offline
    BY <2>2 DEF RestoreDatabase, TypeOK
  <2>3. ASSUME NEW d \in Databases, Trade(d) PROVE Offline
    BY <2>3, TradeRecords
  <2>4. CASE live' = live
    BY <2>4
  <2> QED
    BY <2>1, <2>2, <2>3, <2>4 DEF Next, Switch, Recovery, Begin, Preflight, PrepareSnapshot,
       WriteStopIntent, StopFleet, CopyExact, WritePrepared, DisableAutostart, StageDatabases,
       InstallCandidate, WriteStartIntent, ReleaseLocks, StartCandidate, AcceptCandidate,
       WriteAccepted, EnableCandidateAutostart, Commit, Fail, LeaveAlone, RollBack, Quiesce,
       QuiesceFails, DisableCandidate, KeepOldFiles, RestoreOldArtifacts, WriteOldStartIntent,
       ReleaseOldLocks, StartOldFleet, EnableOldFleet, AcceptOldFleet, OldFleetFails,
       RestoreFails, RetainEvidence, Crash, Reboot, Finish, host, vars
<1> QED
  BY <1>1, Inductive, PTL DEF Spec, RewrittenOffline
=============================================================================
