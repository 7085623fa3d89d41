--------------------------- MODULE InstallGenerated ---------------------------
(***************************************************************************)
(* The transactional install of generated output: install() of             *)
(* scripts/install_generated_output.py, run by scripts/generate_firmware.sh*)
(* on a fresh staging directory, whose exit trap removes that directory.   *)
(* One action is one file-system call or one list update; between any two  *)
(* of them a call may fail, Ctrl-C may raise KeyboardInterrupt, or a       *)
(* signal Python does not handle (SIGTERM, SIGHUP) may end the process.    *)
(*                                                                         *)
(* A path holds the number of the run that generated it; 0 is what the     *)
(* project held at first.  A directory is renamed as a whole, and only to  *)
(* a name that no other (non-empty) directory has, as rename(2) does.      *)
(***************************************************************************)
EXTENDS Integers, Sequences, SequencesExt

CONSTANTS
    Paths,          \* GENERATED_PATHS, in order
    Files,          \* those of them that are plain files
    FaultKinds,     \* which of "error", "interrupt", "terminate" may happen
    MaxFaults,      \* bound on the number of faults in a run
    MaxRuns         \* bound on the number of runs of generate_firmware.sh

Names  == {Paths[i] : i \in DOMAIN Paths}
Absent == -1
Gone   == [n \in Names |-> Absent]

ASSUME InstallAssumption ==
    /\ Paths \in Seq(Names)
    /\ \A i, j \in DOMAIN Paths : Paths[i] = Paths[j] => i = j
    /\ Files \subseteq Names
    /\ FaultKinds \subseteq {"error", "interrupt", "terminate"}
    /\ MaxFaults \in Nat /\ MaxRuns \in Nat

VARIABLES
    project,        \* content of each path in the project directory
    staging,        \* ... in the staging directory
    backup,         \* ... in staging/.previous
    pc,             \* the next step of the script
    next,           \* index into Paths of the loop in progress
    backed_up, installed,       \* the lists of install()
    status,         \* exit status of the installer
    run,            \* number of the run of generate_firmware.sh
    before,         \* what the project held when the run began
    faults          \* what has struck in this run, in order

trees   == <<project, staging, backup>>
lists   == <<backed_up, installed>>
history == <<run, before>>
vars    == <<trees, pc, next, lists, status, history, faults>>

Replacement == [n \in Names |-> run]

Init ==
    /\ project = [n \in Names |-> 0] /\ staging = Gone /\ backup = Gone
    /\ pc = "clean" /\ next = 1 /\ backed_up = << >> /\ installed = << >>
    /\ status = 0 /\ run = 0 /\ before = project /\ faults = << >>

--------------------------------------------------------------------------------
(* os.replace(from/n, to/n) *)
Blocked(from, to, n) == from[n] = Absent \/ (n \notin Files /\ to[n] # Absent)
Without(from, n)     == [from EXCEPT ![n] = Absent]
With(to, from, n)    == [to EXCEPT ![n] = from[n]]

InLoop    == next <= Len(Paths)
Path      == Paths[next]
NextPath  == next' = next + 1
StartLoop == next' = 1

(* Everything between try and except. *)
Guarded == {"back_up", "record_backup", "install", "record_install"}

(* Faulty: the handler restores without removing what was installed. *)
RollbackRestoringOnly == "undo_backup"
Rollback              == "undo_install"

(* An exception: the handler runs, or, if it is raised in the handler or    *)
(* outside the try statement, the installer ends.  In the faulty form a     *)
(* handler that fails removes the backup.                                   *)
RaiseRemovingBackup ==
    /\ pc' = IF pc \in Guarded THEN Rollback ELSE "ended"
    /\ backup' = IF pc \in Guarded THEN backup ELSE Gone
    /\ UNCHANGED <<project, staging, next, lists, status, history>>
Raise ==
    /\ pc' = IF pc \in Guarded THEN Rollback ELSE "ended"
    /\ UNCHANGED <<trees, next, lists, status, history>>

--------------------------------------------------------------------------------
(* generate_firmware.sh has filled a new staging directory; the generator   *)
(* may have left out one path.                                              *)
Generate ==
    /\ pc = "clean" /\ run < MaxRuns
    /\ run' = run + 1 /\ before' = project /\ faults' = << >> /\ status' = 1
    /\ \E missing \in {{}} \cup {{n} : n \in Names} :
        staging' = [n \in Names |-> IF n \in missing THEN Absent ELSE run + 1]
    /\ backup' = Gone /\ backed_up' = << >> /\ installed' = << >>
    /\ pc' = "check" /\ StartLoop
    /\ UNCHANGED project

CheckStaging ==
    /\ pc = "check"
    /\ pc' = IF \A n \in Names : staging[n] # Absent THEN "mkdir" ELSE "ended"
    /\ UNCHANGED <<trees, next, lists, status, history, faults>>

MakeBackupDir ==
    /\ pc = "mkdir"
    /\ pc' = "back_up" /\ StartLoop
    /\ UNCHANGED <<trees, lists, status, history, faults>>

SkipMissing ==
    /\ pc = "back_up" /\ InLoop /\ project[Path] = Absent
    /\ NextPath
    /\ UNCHANGED <<trees, pc, lists, status, history, faults>>

BackUp ==
    /\ pc = "back_up" /\ InLoop /\ project[Path] # Absent
    /\ backup' = With(backup, project, Path) /\ project' = Without(project, Path)
    /\ pc' = "record_backup"
    /\ UNCHANGED <<staging, next, lists, status, history, faults>>

RecordBackup ==
    /\ pc = "record_backup"
    /\ backed_up' = Append(backed_up, Path)
    /\ pc' = "back_up" /\ NextPath
    /\ UNCHANGED <<trees, installed, status, history, faults>>

AllBackedUp ==
    /\ pc = "back_up" /\ ~InLoop
    /\ pc' = "install" /\ StartLoop
    /\ UNCHANGED <<trees, lists, status, history, faults>>

Install ==
    /\ pc = "install" /\ InLoop
    /\ \/ /\ ~Blocked(staging, project, Path)
          /\ project' = With(project, staging, Path) /\ staging' = Without(staging, Path)
          /\ pc' = "record_install"
          /\ UNCHANGED <<backup, next, lists, status, history>>
       \/ Blocked(staging, project, Path) /\ Raise
    /\ UNCHANGED faults

(* Faulty: the list of installed paths is not kept. *)
Unrecorded == installed
Recorded   == Append(installed, Path)

RecordInstall ==
    /\ pc = "record_install"
    /\ installed' = Recorded
    /\ pc' = "install" /\ NextPath
    /\ UNCHANGED <<trees, backed_up, status, history, faults>>

AllInstalled ==
    /\ pc = "install" /\ ~InLoop
    /\ pc' = "remove_backup"
    /\ UNCHANGED <<trees, next, lists, status, history, faults>>

RemoveBackup ==
    /\ pc = "remove_backup"
    /\ \/ \E n \in Names : /\ backup[n] # Absent /\ backup' = Without(backup, n)
                            /\ UNCHANGED <<pc, status>>
       \/ backup = Gone /\ pc' = "ended" /\ status' = 0 /\ UNCHANGED backup
    /\ UNCHANGED <<project, staging, next, lists, history, faults>>

--------------------------------------------------------------------------------
(* The handler.  The lists are consumed from their ends. *)

UndoInstall ==
    /\ pc = "undo_install" /\ installed # << >>
    /\ LET n == Last(installed)
       IN  \/ /\ ~Blocked(project, staging, n)
              /\ staging' = With(staging, project, n) /\ project' = Without(project, n)
              /\ installed' = Front(installed)
              /\ UNCHANGED <<backup, pc, next, backed_up, status, history>>
           \/ Blocked(project, staging, n) /\ Raise
    /\ UNCHANGED faults

AllRemoved ==
    /\ pc = "undo_install" /\ installed = << >>
    /\ pc' = "undo_backup"
    /\ UNCHANGED <<trees, next, lists, status, history, faults>>

UndoBackup ==
    /\ pc = "undo_backup" /\ backed_up # << >>
    /\ LET n == Last(backed_up)
       IN  \/ /\ ~Blocked(backup, project, n)
              /\ project' = With(project, backup, n) /\ backup' = Without(backup, n)
              /\ backed_up' = Front(backed_up)
              /\ UNCHANGED <<staging, pc, next, installed, status, history>>
           \/ Blocked(backup, project, n) /\ Raise
    /\ UNCHANGED faults

(* Faulty: the exception is not raised again. *)
StatusSwallowed == 0
StatusRaised    == 1
AllRestored ==
    /\ pc = "undo_backup" /\ backed_up = << >>
    /\ pc' = "ended" /\ status' = StatusRaised
    /\ UNCHANGED <<trees, next, lists, history, faults>>

--------------------------------------------------------------------------------
(* Faults. *)
Fault(kind) ==
    /\ kind \in FaultKinds /\ Len(faults) < MaxFaults
    /\ faults' = Append(faults, kind)

Running == pc \notin {"clean", "ended"}

CallsTheSystem ==
    \/ pc \in {"mkdir", "remove_backup"}
    \/ pc = "back_up" /\ InLoop /\ project[Path] # Absent
    \/ pc = "install" /\ InLoop
    \/ pc = "undo_install" /\ installed # << >>
    \/ pc = "undo_backup" /\ backed_up # << >>

CallFails   == CallsTheSystem /\ Fault("error") /\ Raise
Interrupted == Running /\ Fault("interrupt") /\ Raise
Terminated  == /\ Running /\ Fault("terminate") /\ pc' = "ended"
               /\ UNCHANGED <<trees, next, lists, status, history>>

(* The exit trap of generate_firmware.sh: the shell runs it once the        *)
(* installer has ended, for whatever reason.                                *)
Cleanup ==
    /\ pc = "ended"
    /\ staging' = Gone /\ backup' = Gone
    /\ pc' = "clean"
    /\ UNCHANGED <<project, next, lists, status, history, faults>>

--------------------------------------------------------------------------------
Installer ==
    \/ CheckStaging \/ MakeBackupDir
    \/ SkipMissing \/ BackUp \/ RecordBackup \/ AllBackedUp
    \/ Install \/ RecordInstall \/ AllInstalled \/ RemoveBackup
    \/ UndoInstall \/ AllRemoved \/ UndoBackup \/ AllRestored

Faults == CallFails \/ Interrupted \/ Terminated

Next == Generate \/ Installer \/ Cleanup \/ Faults

Spec == Init /\ [][Next]_vars

--------------------------------------------------------------------------------
Contents == -1 .. MaxRuns

TypeOK ==
    /\ {project, staging, backup, before} \subseteq [Names -> Contents]
    /\ next \in 1 .. (Len(Paths) + 1) /\ status \in {0, 1}
    /\ run \in 0 .. MaxRuns
    /\ faults \in Seq(FaultKinds) /\ Len(faults) <= MaxFaults
    /\ {backed_up, installed} \subseteq Seq(Names)
    /\ Len(backed_up) <= Len(Paths) /\ Len(installed) <= Len(Paths)

(* After a run in which at most one call failed the project holds the       *)
(* complete new output, or what it held before; an earlier run may have     *)
(* ended in any way (install_generated_output.py:25-42, with the trap of    *)
(* generate_firmware.sh:25-28).                                             *)
OnlyErrors == \A i \in 1 .. Len(faults) : faults[i] = "error"
AllOrNothing ==
    pc = "clean" /\ OnlyErrors /\ Len(faults) <= 1 => project \in {before, Replacement}

(* However many calls fail, at no moment does the project mix old and new   *)
(* output: a build may find a path missing, never one of another generation *)
(* (install_generated_output.py:26-39).                                     *)
NeverMixed ==
    OnlyErrors => \A m, n \in Names : project[m] = run => project[n] \in {run, Absent}

(* install_generated_output.py:2 "Transactionally install": the same holds  *)
(* when a signal strikes instead.                                           *)
Transactional == pc = "clean" /\ Len(faults) <= 1 => project \in {before, Replacement}

(* Until the trap runs, what the project held before is in the project or   *)
(* in the backup, unless the complete new output has replaced it.           *)
NothingLost ==
    pc # "clean" =>
        \/ project = Replacement
        \/ \A n \in Names : before[n] # Absent => before[n] \in {project[n], backup[n]}

(* Exit status 0 means that the complete new output is installed, also when *)
(* an earlier run was cut short and left paths missing                      *)
(* (install_generated_output.py:28, 42).                                    *)
StatusTrue == pc = "clean" /\ run > 0 /\ status = 0 => project = Replacement

===============================================================================
