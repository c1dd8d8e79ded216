------------------------------ MODULE MLArtifacts ------------------------------
(* The publication of fitted classic-ML artifacts: a run trains into a      *)
(* staging directory and swaps it in under the registry's file lock, with a *)
(* journal that lets the next run roll an interrupted swap back or clean up *)
(* behind a committed one.                                                  *)
EXTENDS Integers, FiniteSets

CONSTANTS
    Trainers,       \* processes that run ML models of one project
    Fitted,         \* the models, each with an artifact path of its own
    MaxTrainings,   \* bound: artifacts trained
    MaxFaults       \* bound: crashes and errors

Nobody == "nobody"
Debris == MaxTrainings + 1      \* a directory that lost its metadata

ASSUME ArtifactAssumption ==
    Nobody \notin Trainers /\ MaxTrainings \in Nat /\ MaxFaults \in Nat

\* A path holds nothing (0), a whole artifact (its version), or what a removal left of it:
\* an artifact with its metadata (the negated version), or debris.
Absent == 0
VersionAt(path) == IF path = Debris THEN 0 ELSE IF path < 0 THEN -path ELSE path
Remains(path) == IF path = Debris THEN {Debris} ELSE {Debris, -VersionAt(path)}

VARIABLES
    final,      \* [Fitted -> path]: the artifact paths
    backups,    \* [versions -> path]: the backup of the publication of a version
    staged,     \* the versions that have a staging directory
    entries,    \* [Fitted -> version], 0 for no entry
    journals,   \* the pending publications
    trainer,    \* [Trainers -> where its run is]
    holder,     \* who holds the registry's lock
    section,    \* what the holder does
    trained, faults,
    late        \* whether a rollback was begun after the registry was replaced

artifactVars ==
    <<final, backups, staged, entries, journals, trainer, holder, section, trained, faults, late>>

Versions == 1..MaxTrainings
NoSection == [at |-> "none", journal |-> [id |-> 0]]
AtRest == [at |-> "idle", model |-> "none", version |-> 0]

ArtifactInit ==
    /\ final = [m \in Fitted |-> Absent] /\ backups = [v \in Versions |-> Absent]
    /\ staged = {} /\ entries = [m \in Fitted |-> 0] /\ journals = {}
    /\ trainer = [t \in Trainers |-> AtRest]
    /\ holder = Nobody /\ section = NoSection
    /\ trained = 0 /\ faults = 0 /\ late = FALSE

Doing(place) == holder # Nobody /\ section.at = place
Job == section.journal
GoTo(place) == section' = [section EXCEPT !.at = place]
LockedVars == <<trainer, holder, trained, faults, late>>

------------------------------------------------------------------------------
(* The run around a publication.                                            *)

\* run_classic_ml_model recovers what an earlier run left, under the lock, before it trains.
BeginRun(t, m) ==
    /\ trainer[t].at = "idle"
    /\ trainer' = [trainer EXCEPT ![t] = [at |-> "opening", model |-> m, version |-> 0]]
    /\ UNCHANGED <<final, backups, staged, entries, journals, holder, section, trained, faults,
                   late>>

Lock(t) ==
    /\ holder = Nobody
    /\ \/ trainer[t].at = "opening"
       \/ trainer[t].at = "staged" /\ trainer[t].version \in staged
    /\ holder' = t
    /\ section' = [NoSection EXCEPT !.at = "recover"]
    /\ UNCHANGED <<final, backups, staged, entries, journals, trainer, trained, faults, late>>

\* A model that predicts from its artifact publishes nothing: its run ends here.
Predict(t) ==
    /\ trainer[t].at = "training"
    /\ trainer' = [trainer EXCEPT ![t] = AtRest]
    /\ UNCHANGED <<final, backups, staged, entries, journals, holder, section, trained, faults,
                   late>>

Train(t) ==
    /\ trainer[t].at = "training" /\ trained < MaxTrainings
    /\ trained' = trained + 1
    /\ staged' = staged \cup {trained + 1}
    /\ trainer' = [trainer EXCEPT ![t].at = "staged", ![t].version = trained + 1]
    /\ UNCHANGED <<final, backups, entries, journals, holder, section, faults, late>>

\* The section is left: a run that opened goes on, one that published or failed ends, and
\* a failed one discards what it staged.
Leave(place) ==
    /\ holder' = Nobody /\ section' = NoSection
    /\ trainer' = [trainer EXCEPT ![holder] = IF place = "training" THEN [@ EXCEPT !.at = place]
                                              ELSE AtRest]

------------------------------------------------------------------------------
(* Recovery: the pending publications one by one.                           *)

\* mutant: a publication taken for committed by the artifact alone
CommittedOnSwap(j) == VersionAt(final[j.model]) = j.id
Committed(j) == entries[j.model] = j.id /\ VersionAt(final[j.model]) = j.id

RecoverNext ==
    /\ Doing("recover")
    /\ IF journals = {}
       THEN IF trainer[holder].at = "opening" THEN Leave("training")
            ELSE GoTo("journal") /\ UNCHANGED <<trainer, holder>>
       ELSE \E j \in journals :
               /\ section' = [at |-> IF Committed(j) THEN "clean" ELSE "rollback", journal |-> j]
               /\ UNCHANGED <<trainer, holder>>
    /\ UNCHANGED <<final, backups, staged, entries, journals, trained, faults, late>>

\* The artifact goes back where it was. Removing a directory takes more than one step.
TearFinal ==
    /\ Doing("rollback")
    /\ \/ backups[Job.id] # Absent /\ final[Job.model] # Absent
       \/ /\ backups[Job.id] = Absent /\ ~Job.prior
          /\ VersionAt(final[Job.model]) = Job.id
    /\ \E left \in Remains(final[Job.model]) :
          final' = [final EXCEPT ![Job.model] = left]
    /\ GoTo("removing")
    /\ UNCHANGED <<backups, staged, entries, journals, LockedVars>>
RemoveFinal ==
    /\ Doing("removing")
    /\ final' = [final EXCEPT ![Job.model] = Absent]
    /\ GoTo("rollback")
    /\ UNCHANGED <<backups, staged, entries, journals, LockedVars>>
RestoreBackup ==
    /\ Doing("rollback")
    /\ backups[Job.id] # Absent /\ final[Job.model] = Absent
    /\ final' = [final EXCEPT ![Job.model] = backups[Job.id]]
    /\ backups' = [backups EXCEPT ![Job.id] = Absent]
    /\ UNCHANGED <<staged, entries, journals, section, LockedVars>>
RestoreRegistry ==
    /\ Doing("rollback")
    /\ backups[Job.id] = Absent
    /\ Job.prior \/ VersionAt(final[Job.model]) # Job.id
    /\ entries' = Job.before
    /\ GoTo("drop_staged")
    /\ UNCHANGED <<final, backups, staged, journals, LockedVars>>

\* What follows a commit: the backup and the staging directory go, then the journal.
TearBackup ==
    /\ Doing("clean") /\ backups[Job.id] # Absent
    /\ \E left \in Remains(backups[Job.id]) \cup {Absent} :
          backups' = [backups EXCEPT ![Job.id] = left]
    /\ UNCHANGED <<final, staged, entries, journals, section, LockedVars>>
BackupGone ==
    /\ Doing("clean") /\ backups[Job.id] = Absent
    /\ GoTo("drop_staged")
    /\ UNCHANGED <<final, backups, staged, entries, journals, LockedVars>>
DropStaged ==
    /\ Doing("drop_staged")
    /\ staged' = staged \ {Job.id}
    /\ GoTo("unlink")
    /\ UNCHANGED <<final, backups, entries, journals, LockedVars>>
Unlink ==
    /\ Doing("unlink")
    /\ journals' = journals \ {Job}
    /\ IF trainer[holder].version = Job.id
       THEN Leave("idle") ELSE GoTo("recover") /\ UNCHANGED <<trainer, holder>>
    /\ UNCHANGED <<final, backups, staged, entries, trained, faults, late>>

------------------------------------------------------------------------------
(* Publication.                                                             *)

Model == trainer[holder].model
WriteJournal ==
    /\ Doing("journal")
    /\ LET j == [id |-> trainer[holder].version, model |-> Model,
                 prior |-> final[Model] # Absent, before |-> entries]
       IN  /\ journals' = journals \cup {j}
           /\ section' = [at |-> "aside", journal |-> j]
    /\ UNCHANGED <<final, backups, staged, entries, LockedVars>>
SetAside ==
    /\ Doing("aside")
    /\ backups' = [backups EXCEPT ![Job.id] = final[Model]]
    /\ final' = [final EXCEPT ![Model] = Absent]
    /\ GoTo("swap")
    /\ UNCHANGED <<staged, entries, journals, LockedVars>>
SwapIn ==
    /\ Doing("swap")
    /\ final' = [final EXCEPT ![Model] = Job.id]
    /\ staged' = staged \ {Job.id}
    /\ GoTo("register")
    /\ UNCHANGED <<backups, entries, journals, LockedVars>>
Register ==
    /\ Doing("register")
    /\ entries' = [Job.before EXCEPT ![Model] = Job.id]
    /\ GoTo("registered")
    /\ UNCHANGED <<final, backups, staged, journals, LockedVars>>

Commit ==
    /\ Doing("registered")
    /\ GoTo("clean")
    /\ UNCHANGED <<final, backups, staged, entries, journals, LockedVars>>

------------------------------------------------------------------------------
(* Faults.                                                                  *)

\* An error of the publication rolls it back; an interrupt may still be raised once the
\* registry was replaced.
PublishFails ==
    /\ faults < MaxFaults
    /\ \E place \in {"aside", "swap", "register", "registered"} : Doing(place)
    /\ faults' = faults + 1
    /\ late' = (late \/ section.at = "registered")
    /\ section' = [section EXCEPT !.at = "rollback"]
    /\ UNCHANGED <<final, backups, staged, entries, journals, trainer, holder, trained>>

\* An error of the recovery, of the rollback or of the cleanup ends the run with the journal
\* in place; the run discards its own staging directory.
RecoveryFails ==
    /\ faults < MaxFaults
    /\ \E place \in {"recover", "rollback", "removing", "clean", "drop_staged", "unlink", "journal"} :
          Doing(place)
    /\ faults' = faults + 1
    /\ staged' = staged \ {trainer[holder].version}
    /\ Leave("idle")
    /\ UNCHANGED <<final, backups, entries, journals, trained, late>>

\* A killed process releases the lock and leaves every file as it is.
Kill(t) ==
    /\ faults < MaxFaults /\ trainer[t].at # "idle"
    /\ faults' = faults + 1
    /\ trainer' = [trainer EXCEPT ![t] = AtRest]
    /\ IF holder = t THEN holder' = Nobody /\ section' = NoSection
       ELSE UNCHANGED <<holder, section>>
    /\ UNCHANGED <<final, backups, staged, entries, journals, trained, late>>

SectionStep ==
    \/ RecoverNext \/ TearFinal \/ RemoveFinal \/ RestoreBackup \/ RestoreRegistry
    \/ TearBackup \/ BackupGone \/ DropStaged \/ Unlink
    \/ WriteJournal \/ SetAside \/ SwapIn \/ Register \/ Commit
RunStep == \E t \in Trainers : Lock(t) \/ Predict(t) \/ Train(t)

ArtifactNext ==
    \/ \E t \in Trainers, m \in Fitted : BeginRun(t, m)
    \/ RunStep \/ SectionStep \/ PublishFails \/ RecoveryFails
    \/ \E t \in Trainers : Kill(t)

ArtifactSpec == ArtifactInit /\ [][ArtifactNext]_artifactVars

------------------------------------------------------------------------------

\* What the artifact path of model m holds once the pending publication is recovered, and
\* what the registry says of it then.
Recovered(m) ==
    LET pending == {j \in journals : ~Committed(j)} IN
    IF pending = {} THEN [path |-> final[m], entry |-> entries[m]]
    ELSE LET j == CHOOSE j \in pending : TRUE
         IN  [path |-> IF m # j.model THEN final[m]
                       ELSE IF backups[j.id] # Absent THEN backups[j.id]
                       ELSE IF ~j.prior /\ VersionAt(final[m]) = j.id THEN Absent
                       ELSE final[m],
              entry |-> j.before[m]]

\* Whatever was interrupted, recovery leaves every registered artifact whole at the version
\* the registry names, and no artifact it does not name: the old pair or the new pair. At
\* most one publication is pending. The exception is a process killed in a rollback that an
\* interrupt began after the registry was replaced: recovery may take the remains for committed.
ArtifactsPaired ==
    /\ Cardinality(journals) <= 1
    /\ ~late => \A m \in Fitted : LET r == Recovered(m) IN
                   IF r.entry # 0 THEN r.path = r.entry ELSE r.path \in {Absent, Debris}

\* As long as models are run, nothing stays pending.
PublicationsSettle == <>[](journals = {})
==============================================================================
