------------------------ MODULE InstallGeneratedProofs ------------------------
(***************************************************************************)
(* The installer for any list of paths and any number of faults and runs.  *)
(*                                                                         *)
(* AnyInv holds whatever happens: it gives TypeOK, NothingLost and         *)
(* StatusTrue.  ExactInv, which needs that no interrupt falls between a    *)
(* rename and the append that records it, says of each path where its old  *)
(* and its new content are, by what the lists hold: it holds while only    *)
(* calls have failed in the run at hand, whatever struck the runs before,  *)
(* and gives AllOrNothing and NeverMixed.                                  *)
(***************************************************************************)
EXTENDS InstallGenerated, SequenceTheorems, TLAPS

Starting   == {"check", "mkdir"}
BackingUp  == {"back_up", "record_backup"}
Installing == {"install", "record_install"}
Undoing    == {"undo_install", "undo_backup"}

PCs == {"clean", "remove_backup", "ended"} \cup Starting \cup BackingUp \cup Installing
       \cup Undoing

(* The paths the loop has dealt with, but for the append.                   *)
Passed == IF pc \in {"record_backup", "record_install"} THEN 1 .. next ELSE 1 .. (next - 1)
Ahead  == (1 .. Len(Paths)) \ Passed

SavedAway(n) == before[n] # Absent => backup[n] = before[n]
Kept(n)      == before[n] # Absent => before[n] \in {project[n], backup[n]}

ListsFit ==
    /\ pc \in Starting => backed_up = << >> /\ installed = << >>
    /\ pc \in BackingUp => Len(backed_up) < next /\ installed = << >>
    /\ pc \in Installing => Len(installed) < next
    /\ pc \in {"record_backup", "record_install"} => InLoop

BackupsRight ==
    /\ pc # "clean" => \A n \in Names : backup[n] \in {Absent, before[n]}
    /\ pc \in Starting => project = before /\ backup = Gone
    /\ pc \in BackingUp =>
        /\ \A i \in Ahead : project[Paths[i]] = before[Paths[i]] /\ backup[Paths[i]] = Absent
        /\ \A i \in Passed : SavedAway(Paths[i])
    /\ pc \in Installing => \A n \in Names : SavedAway(n)
    /\ pc = "undo_install" => \A i \in 1 .. Len(installed) : SavedAway(installed[i])
    /\ pc \in BackingUp \cup Undoing => \A n \in Names : Kept(n)

NewOutputRight ==
    /\ pc \in Starting \cup BackingUp \cup Installing =>
        \A n \in Names : staging[n] \in {Absent, run}
    /\ pc \in Installing => \A i \in Passed : project[Paths[i]] = run
    /\ pc = "remove_backup" => project = Replacement

StatusRight == run > 0 /\ status = 0 => pc \in {"ended", "clean"} /\ project = Replacement

AnyInv ==
    TypeOK /\ pc \in PCs /\ ListsFit /\ BackupsRight /\ NewOutputRight /\ StatusRight
    /\ NothingLost

--------------------------------------------------------------------------------
(* Every content was generated by this run or an earlier one.               *)
Generations ==
    /\ \A n \in Names : project[n] <= run
    /\ pc # "clean" => \A n \in Names : before[n] < run

(* With errors alone: what each list, with the path just moved, stands for. *)
Unmixed == \A m, n \in Names : project[m] = run => project[n] \in {run, Absent}

Listed(list) == {list[i] : i \in 1 .. Len(list)}
BackedUp  == Listed(backed_up) \cup {Paths[i] : i \in {j \in {next} : pc = "record_backup"}}
Installed == Listed(installed) \cup {Paths[i] : i \in {j \in {next} : pc = "record_install"}}
NoneTwice(list) == \A i, j \in 1 .. Len(list) : list[i] = list[j] => i = j

Exact(n) ==
    /\ backup[n]  = IF n \in BackedUp THEN before[n] ELSE Absent
    /\ staging[n] = IF n \in Installed THEN Absent ELSE run
    /\ project[n] = IF n \in Installed THEN run ELSE IF n \in BackedUp THEN Absent ELSE before[n]
    /\ n \in BackedUp => before[n] # Absent

AllAway == \A n \in Names : before[n] # Absent => n \in BackedUp

ListsExact ==
    /\ NoneTwice(backed_up) /\ NoneTwice(installed)
    /\ pc = "record_backup" => Paths[next] \notin Listed(backed_up)
    /\ pc = "record_install" => Paths[next] \notin Listed(installed)
    /\ pc \in Installing => Listed(installed) \subseteq {Paths[i] : i \in 1 .. (next - 1)}

ContentsExact ==
    /\ pc = "mkdir" => staging = Replacement
    /\ pc \in BackingUp \cup Installing \cup Undoing => \A n \in Names : Exact(n)
    /\ pc \in Installing => AllAway
    /\ pc = "undo_install" => Installed = {} \/ AllAway
    /\ pc = "undo_backup" => Installed = {}

OutcomeExact ==
    /\ Generations
    /\ pc \in Undoing => faults # << >>
    /\ pc \in {"ended", "clean"} => Unmixed
    /\ pc \in {"ended", "clean"} /\ Len(faults) <= 1 => project \in {before, Replacement}

ExactInv == AnyInv /\ ListsExact /\ ContentsExact /\ OutcomeExact

--------------------------------------------------------------------------------
LEMMA PathsAreNames ==
    /\ Len(Paths) \in Nat /\ DOMAIN Paths = 1 .. Len(Paths)
    /\ \A i \in 1 .. Len(Paths) : Paths[i] \in Names
    /\ \A n \in Names : \E i \in 1 .. Len(Paths) : n = Paths[i]
    /\ \A i, j \in 1 .. Len(Paths) : Paths[i] = Paths[j] => i = j
BY InstallAssumption DEF Names

(* Moving a path changes its two trees at that path alone.                  *)
LEMMA Moves ==
    ASSUME NEW C, Absent \in C, NEW from \in [Names -> C], NEW to \in [Names -> C],
           NEW n \in Names
    PROVE  /\ Without(from, n) \in [Names -> C] /\ With(to, from, n) \in [Names -> C]
           /\ Without(from, n)[n] = Absent /\ With(to, from, n)[n] = from[n]
           /\ \A m \in Names \ {n} :
                Without(from, n)[m] = from[m] /\ With(to, from, n)[m] = to[m]
BY DEF Without, With

LEMMA ContentsHold == Absent \in Contents /\ run \in 0 .. MaxRuns => run \in Contents
BY InstallAssumption DEF Contents, Absent

LEMMA ContentsTyped ==
    /\ Absent \in Contents /\ Contents \subseteq Int
    /\ TypeOK => /\ project \in [Names -> Contents] /\ staging \in [Names -> Contents]
                 /\ backup \in [Names -> Contents] /\ before \in [Names -> Contents]
<1>1. Absent \in Contents /\ Contents \subseteq Int
    BY InstallAssumption DEF Contents, Absent
<1>. QED BY <1>1 DEF TypeOK

LEMMA AnyInit == Init => AnyInv
<1>. SUFFICES ASSUME Init PROVE AnyInv
    OBVIOUS
<1>1. TypeOK
    BY InstallAssumption, PathsAreNames DEF Init, TypeOK, Contents, Gone, Absent
<1>. QED BY <1>1 DEF Init, AnyInv, PCs, Starting, BackingUp, Installing, Undoing, ListsFit,
        BackupsRight, NewOutputRight, StatusRight, NothingLost

--------------------------------------------------------------------------------
LEMMA GenerateKeepsAny == ASSUME AnyInv, Generate PROVE AnyInv'
<1>1. run + 1 \in 0 .. MaxRuns /\ run \in 0 .. MaxRuns
    BY InstallAssumption DEF AnyInv, TypeOK, Generate
<1>. PICK missing \in {{}} \cup {{n} : n \in Names} :
            staging' = [n \in Names |-> IF n \in missing THEN Absent ELSE run + 1]
    BY DEF Generate
<1>2. TypeOK'
    <2>1. staging' \in [Names -> Contents]
        BY <1>1, InstallAssumption DEF Contents, Absent
    <2>2. backup' \in [Names -> Contents]
        BY InstallAssumption DEF Generate, Gone, Contents, Absent
    <2>3. faults' \in Seq(FaultKinds) /\ Len(faults') <= MaxFaults
        BY InstallAssumption DEF Generate
    <2>4. /\ next' = 1 /\ status' = 1 /\ run' = run + 1 /\ before' = project /\ project' = project
          /\ backed_up' = << >> /\ installed' = << >> /\ run < MaxRuns
        BY DEF Generate, StartLoop
    <2>5. project \in [Names -> Contents] /\ run' \in 0 .. MaxRuns
        BY <1>1, <2>4 DEF AnyInv, TypeOK
    <2>. QED BY <2>1, <2>2, <2>3, <2>4, <2>5, PathsAreNames DEF TypeOK
<1>3. NewOutputRight' /\ StatusRight'
    BY DEF Generate, NewOutputRight, StatusRight, Starting, BackingUp, Installing
<1>4. BackupsRight' /\ ListsFit'
    BY DEF Generate, BackupsRight, ListsFit, Starting, BackingUp, Installing, Undoing, Gone
<1>. QED BY <1>2, <1>3, <1>4 DEF Generate, AnyInv, PCs, Starting, NothingLost

(* An exception: nothing but the next step changes.                         *)
LEMMA RaiseKeepsAny ==
    ASSUME AnyInv, Raise, pc # "clean", faults' \in Seq(FaultKinds) /\ Len(faults') <= MaxFaults
    PROVE  AnyInv'
<1>. USE DEF Raise
<1>1. TypeOK' /\ UNCHANGED <<trees, next, lists, status, history>>
    BY DEF AnyInv, TypeOK, trees, lists, history
<1>2. CASE pc \in Guarded
    <2>1. pc' = "undo_install" /\ pc \in BackingUp \cup Installing
        BY <1>2 DEF Guarded, Rollback, BackingUp, Installing
    <2>2. pc' \in PCs /\ ListsFit' /\ NewOutputRight'
        BY <2>1 DEF PCs, Undoing, ListsFit, Starting, BackingUp, Installing, NewOutputRight
    <2>3. StatusRight'
        BY <1>1, <2>1 DEF AnyInv, StatusRight, BackingUp, Installing, history
    <2>4. BackupsRight'
        <3>1. \A n \in Names : backup[n] \in {Absent, before[n]}
            BY <2>1 DEF AnyInv, BackupsRight, BackingUp, Installing
        <3>2. \A n \in Names : Kept(n)
            BY <2>1 DEF AnyInv, BackupsRight, Kept, SavedAway
        <3>3. \A i \in 1 .. Len(installed) : SavedAway(installed[i])
            BY <2>1 DEF AnyInv, BackupsRight, ListsFit, TypeOK
        <3>. QED BY <1>1, <2>1, <3>1, <3>2, <3>3
            DEF BackupsRight, Kept, SavedAway, Starting, BackingUp, Installing,
                trees, lists, history
    <2>5. NothingLost'
        BY <2>4, <2>1 DEF BackupsRight, Undoing, NothingLost, Kept
    <2>. QED BY <1>1, <2>2, <2>3, <2>4, <2>5 DEF AnyInv
<1>3. CASE pc \notin Guarded
    <2>1. pc' = "ended"
        BY <1>3
    <2>2. pc' \in PCs /\ ListsFit' /\ NewOutputRight'
        BY <2>1 DEF PCs, ListsFit, Starting, BackingUp, Installing, NewOutputRight
    <2>3. StatusRight'
        BY <1>1, <2>1 DEF AnyInv, StatusRight, Replacement, trees, history
    <2>4. BackupsRight' /\ NothingLost'
        BY <1>1, <2>1 DEF AnyInv, BackupsRight, NothingLost, Replacement, Starting, BackingUp,
            Installing, Undoing, trees, history
    <2>. QED BY <1>1, <2>2, <2>3, <2>4 DEF AnyInv
<1>. QED BY <1>2, <1>3

(* The steps that move nothing.                                             *)
LEMMA PlainStepKeepsAny ==
    ASSUME AnyInv, MakeBackupDir \/ CheckStaging \/ AllRemoved \/ AllRestored
    PROVE  AnyInv'
<1>1. TypeOK' /\ UNCHANGED <<trees, lists, history>>
    BY PathsAreNames DEF AnyInv, TypeOK, MakeBackupDir, CheckStaging, AllRemoved, AllRestored,
        StartLoop, StatusRaised, trees, lists, history
<1>2. CASE MakeBackupDir
    <2>1. pc = "mkdir" /\ pc' = "back_up" /\ next' = 1 /\ status' = status
        BY <1>2 DEF MakeBackupDir, StartLoop
    <2>2. BackupsRight'
        BY <1>1, <2>1, PathsAreNames DEF AnyInv, BackupsRight, Starting, BackingUp, Installing,
            Undoing, Ahead, Passed, Kept, SavedAway, Gone, Absent, trees, lists, history
    <2>3. StatusRight' /\ NewOutputRight' /\ ListsFit'
        BY <1>1, <2>1 DEF AnyInv, StatusRight, NewOutputRight, ListsFit, Starting, BackingUp,
            Installing, trees, lists, history
    <2>. QED BY <1>1, <2>1, <2>2, <2>3 DEF AnyInv, PCs, BackingUp, NothingLost, BackupsRight, Kept
<1>3. CASE CheckStaging
    <2>1. pc = "check" /\ pc' \in {"mkdir", "ended"} /\ status' = status
        BY <1>3 DEF CheckStaging
    <2>2. BackupsRight' /\ StatusRight' /\ NewOutputRight' /\ ListsFit' /\ NothingLost'
        BY <1>1, <2>1 DEF AnyInv, BackupsRight, StatusRight, NewOutputRight, ListsFit, NothingLost,
            Replacement, Starting, BackingUp, Installing, Undoing, trees, lists, history
    <2>. QED BY <1>1, <2>1, <2>2 DEF AnyInv, PCs, Starting
<1>4. CASE AllRemoved
    <2>1. pc = "undo_install" /\ pc' = "undo_backup" /\ status' = status
        BY <1>4 DEF AllRemoved
    <2>2. BackupsRight' /\ StatusRight' /\ NewOutputRight' /\ ListsFit' /\ NothingLost'
        BY <1>1, <2>1 DEF AnyInv, BackupsRight, StatusRight, NewOutputRight, ListsFit, NothingLost,
            Kept, Replacement, Starting, BackingUp, Installing, Undoing, trees, lists, history
    <2>. QED BY <1>1, <2>1, <2>2 DEF AnyInv, PCs, Undoing
<1>5. CASE AllRestored
    <2>1. pc = "undo_backup" /\ pc' = "ended" /\ status' = 1
        BY <1>5 DEF AllRestored, StatusRaised
    <2>2. BackupsRight' /\ StatusRight' /\ NewOutputRight' /\ ListsFit' /\ NothingLost'
        BY <1>1, <2>1 DEF AnyInv, BackupsRight, StatusRight, NewOutputRight, ListsFit, NothingLost,
            Replacement, Starting, BackingUp, Installing, Undoing, trees, lists, history
    <2>. QED BY <1>1, <2>1, <2>2 DEF AnyInv, PCs
<1>. QED BY <1>1, <1>2, <1>3, <1>4, <1>5

(* The loop that moves the old output away.                                 *)
LEMMA BackUpKeepsAny == ASSUME AnyInv, BackUp PROVE AnyInv'
<1>0. pc = "back_up" /\ pc' = "record_backup" /\ next \in 1 .. Len(Paths)
        /\ UNCHANGED <<staging, next, lists, status, history, faults>>
    BY PathsAreNames DEF BackUp, InLoop, AnyInv, TypeOK
<1>. PICK p \in Names : p = Paths[next]
    BY <1>0, PathsAreNames
<1>1. p = Paths[next] /\ p = Path
    BY DEF Path
<1>3. /\ {project', backup'} \subseteq [Names -> Contents]
      /\ project'[p] = Absent /\ backup'[p] = project[p]
      /\ \A m \in Names \ {p} : project'[m] = project[m] /\ backup'[m] = backup[m]
    <2>1. project \in [Names -> Contents] /\ backup \in [Names -> Contents] /\ Absent \in Contents
        BY ContentsTyped DEF AnyInv
    <2>2. project' = Without(project, p) /\ backup' = With(backup, project, p)
        BY <1>1 DEF BackUp
    <2>. QED BY <2>1, <2>2, Moves
<1>4. project[p] = before[p] /\ backup[p] = Absent
    <2>1. next \in Ahead
        BY <1>0, <1>1 DEF Ahead, Passed
    <2>. QED BY <1>0, <1>1, <2>1 DEF AnyInv, BackupsRight, BackingUp
<1>5. TypeOK'
    BY <1>0, <1>1, <1>3 DEF AnyInv, TypeOK, lists, history
<1>6. BackupsRight'
    <2>1. \A n \in Names : backup'[n] \in {Absent, before[n]} /\ (SavedAway(n) => SavedAway(n)')
        BY <1>0, <1>1, <1>3, <1>4 DEF AnyInv, BackupsRight, SavedAway, history
    <2>2. Ahead' = Ahead \ {next} /\ Passed' = Passed \cup {next}
        BY <1>0, <1>1 DEF Ahead, Passed
    <2>3. SavedAway(p)' /\ \A n \in Names : Kept(n)'
        BY <1>0, <1>1, <1>3, <1>4 DEF AnyInv, BackupsRight, BackingUp, SavedAway, Kept, history
    <2>4. \A i \in Passed' : SavedAway(Paths[i])'
        <3>. SUFFICES ASSUME NEW i \in Passed' PROVE SavedAway(Paths[i])'
            OBVIOUS
        <3>1. CASE i = next
            BY <1>0, <1>1, <2>3, <3>1
        <3>2. CASE i \in Passed
            <4>1. SavedAway(Paths[i])
                BY <1>0, <1>1, <3>2 DEF AnyInv, BackupsRight, BackingUp
            <4>2. Paths[i] \in Names
                BY <1>0, <1>1, <3>2, PathsAreNames DEF Passed
            <4>. QED BY <2>1, <4>1, <4>2
        <3>. QED BY <2>2, <3>1, <3>2
    <2>5. \A i \in Ahead' : /\ project'[Paths[i]] = before[Paths[i]]
                            /\ backup'[Paths[i]] = Absent
        <3>. SUFFICES ASSUME NEW i \in Ahead, i # next
                      PROVE  project'[Paths[i]] = before[Paths[i]] /\ backup'[Paths[i]] = Absent
            BY <2>2
        <3>1. Paths[i] \in Names \ {p}
            BY <1>0, <1>1, PathsAreNames DEF Ahead
        <3>. QED BY <1>0, <1>1, <1>3, <3>1 DEF AnyInv, BackupsRight, BackingUp
    <2>. QED BY <1>0, <1>1, <2>1, <2>3, <2>4, <2>5
        DEF BackupsRight, Starting, BackingUp, Installing, Undoing, history
<1>7. NewOutputRight' /\ StatusRight' /\ ListsFit'
    BY <1>0, <1>1 DEF AnyInv, NewOutputRight, StatusRight, ListsFit, Starting, BackingUp, Installing,
        InLoop, lists, history
<1>. QED BY <1>0, <1>1, <1>5, <1>6, <1>7 DEF AnyInv, PCs, BackingUp, NothingLost, BackupsRight, Kept

(* The loop goes on: what was ahead has been dealt with.                    *)
LEMMA NextBackUpKeepsAny ==
    ASSUME AnyInv, SkipMissing \/ RecordBackup
    PROVE  AnyInv'
<1>1. /\ pc \in BackingUp /\ pc' = "back_up" /\ next' = next + 1 /\ next \in 1 .. Len(Paths)
      /\ UNCHANGED <<trees, installed, status, history, faults>>
    BY PathsAreNames DEF SkipMissing, RecordBackup, NextPath, InLoop, AnyInv, ListsFit, TypeOK, lists,
        BackingUp
<1>2. \/ pc = "back_up" /\ backed_up' = backed_up /\ project[Paths[next]] = Absent
      \/ pc = "record_backup" /\ backed_up' = Append(backed_up, Paths[next])
    BY DEF SkipMissing, RecordBackup, Path, lists
<1>3. ListsFit' /\ TypeOK'
    <2>1. Paths[next] \in Names /\ Len(backed_up) < next /\ backed_up \in Seq(Names)
            /\ Len(backed_up) \in Nat /\ next' \in 1 .. Len(Paths) + 1
            /\ Len(backed_up) <= Len(Paths)
        BY <1>1, PathsAreNames DEF AnyInv, TypeOK, ListsFit
    <2>2. backed_up' \in Seq(Names) /\ Len(backed_up') < next' /\ Len(backed_up') <= Len(Paths)
        <3>1. CASE backed_up' = backed_up
            BY <1>1, <2>1, <3>1
        <3>2. CASE backed_up' = Append(backed_up, Paths[next])
            BY <1>1, <2>1, <3>2, PathsAreNames
        <3>. QED BY <1>2, <3>1, <3>2
    <2>. QED BY <1>1, <2>1, <2>2 DEF AnyInv, TypeOK, ListsFit, Starting, BackingUp, Installing,
            trees, history
<1>4. BackupsRight'
    <2>1. Ahead' \subseteq Ahead /\ (pc = "record_backup" => Passed' = Passed)
            /\ (pc = "back_up" => next \in Ahead /\ Passed' = Passed \cup {next})
        BY <1>1 DEF Ahead, Passed
    <2>2. pc = "back_up" => SavedAway(Paths[next])
        BY <1>1, <1>2, <2>1 DEF AnyInv, BackupsRight, BackingUp, SavedAway
    <2>3. \A i \in Passed' : SavedAway(Paths[i])
        BY <1>1, <2>1, <2>2 DEF AnyInv, BackupsRight, BackingUp
    <2>. QED BY <1>1, <2>1, <2>3 DEF AnyInv, BackupsRight, Starting, BackingUp, Installing,
            Undoing, SavedAway, Kept, trees, history
<1>. QED BY <1>1, <1>3, <1>4 DEF AnyInv, PCs, BackingUp, Installing, NewOutputRight, StatusRight,
        NothingLost, BackupsRight, Kept, trees, history

LEMMA AllBackedUpKeepsAny == ASSUME AnyInv, AllBackedUp PROVE AnyInv'
<1>1. /\ pc = "back_up" /\ pc' = "install" /\ next' = 1 /\ next = Len(Paths) + 1
      /\ UNCHANGED <<trees, lists, status, history, faults>>
    BY PathsAreNames DEF AllBackedUp, InLoop, StartLoop, AnyInv, TypeOK
<1>2. \A n \in Names : SavedAway(n)
    <2>1. Passed = 1 .. Len(Paths)
        BY <1>1, PathsAreNames DEF Passed
    <2>. QED BY <1>1, <2>1, PathsAreNames DEF AnyInv, BackupsRight, BackingUp
<1>3. ListsFit' /\ TypeOK'
    BY <1>1, PathsAreNames DEF AnyInv, ListsFit, TypeOK, Starting, BackingUp, Installing, trees,
        lists, history
<1>4. BackupsRight' /\ NothingLost'
    BY <1>1, <1>2 DEF AnyInv, BackupsRight, NothingLost, Starting, BackingUp, Installing, Undoing,
        SavedAway, trees, history
<1>5. NewOutputRight' /\ StatusRight'
    BY <1>1 DEF AnyInv, NewOutputRight, StatusRight, Starting, BackingUp, Installing, Passed, trees,
        history
<1>. QED BY <1>1, <1>3, <1>4, <1>5 DEF AnyInv, PCs, Installing

(* The loop that moves the new output in.                                   *)
LEMMA InstallKeepsAny ==
    ASSUME AnyInv, Install, ~Blocked(staging, project, Path), ~Raise
    PROVE  AnyInv'
<1>1. pc = "install" /\ pc' = "record_install" /\ next \in 1 .. Len(Paths)
        /\ UNCHANGED <<backup, next, lists, status, history, faults>>
    BY PathsAreNames DEF Install, InLoop, AnyInv, TypeOK
<1>. PICK p \in Names : p = Paths[next]
    BY <1>1, PathsAreNames
<1>2. /\ {project', staging'} \subseteq [Names -> Contents]
      /\ staging'[p] = Absent /\ project'[p] = run
      /\ \A m \in Names \ {p} : project'[m] = project[m] /\ staging'[m] = staging[m]
    <2>1. project \in [Names -> Contents] /\ staging \in [Names -> Contents] /\ Absent \in Contents
        BY ContentsTyped DEF AnyInv
    <2>2. project' = With(project, staging, p) /\ staging' = Without(staging, p)
        BY DEF Install, Path
    <2>3. staging[p] = run
        BY <1>1 DEF AnyInv, NewOutputRight, Installing, Blocked, Path
    <2>. QED BY <2>1, <2>2, <2>3, Moves
<1>3. TypeOK' /\ ListsFit'
    BY <1>1, <1>2 DEF AnyInv, TypeOK, ListsFit, Starting, BackingUp, Installing, InLoop, lists,
        history
<1>4. BackupsRight' /\ NothingLost'
    BY <1>1 DEF AnyInv, BackupsRight, NothingLost, Starting, BackingUp, Installing, Undoing,
        SavedAway, history
<1>5. NewOutputRight'
    <2>1. Passed' = Passed \cup {next}
        BY <1>1 DEF Passed
    <2>2. \A i \in Passed : Paths[i] \in Names /\ project[Paths[i]] = run
        BY <1>1, PathsAreNames DEF AnyInv, NewOutputRight, Installing, Passed
    <2>3. \A i \in Passed' : project'[Paths[i]] = run
        BY <1>2, <2>1, <2>2
    <2>4. \A n \in Names : staging'[n] \in {Absent, run}
        BY <1>1, <1>2 DEF AnyInv, NewOutputRight, Installing
    <2>. QED BY <1>1, <2>3, <2>4 DEF NewOutputRight, history
<1>. QED BY <1>1, <1>3, <1>4, <1>5 DEF AnyInv, PCs, Installing, StatusRight, history

LEMMA RecordInstallKeepsAny == ASSUME AnyInv, RecordInstall PROVE AnyInv'
<1>1. /\ pc = "record_install" /\ pc' = "install" /\ next' = next + 1 /\ next \in 1 .. Len(Paths)
      /\ installed' = Append(installed, Paths[next])
      /\ UNCHANGED <<trees, backed_up, status, history, faults>>
    BY PathsAreNames DEF RecordInstall, Recorded, Path, NextPath, InLoop, AnyInv, ListsFit, TypeOK
<1>2. ListsFit' /\ TypeOK'
    <2>1. Paths[next] \in Names /\ Len(installed) < next /\ installed \in Seq(Names)
            /\ Len(installed) \in Nat /\ next' \in 1 .. Len(Paths) + 1
        <3>1. installed \in Seq(Names)
            BY DEF AnyInv, TypeOK
        <3>. QED BY <1>1, <3>1, PathsAreNames DEF AnyInv, ListsFit, Installing
    <2>2. installed' \in Seq(Names) /\ Len(installed') < next' /\ Len(installed') <= Len(Paths)
        BY <1>1, <2>1, PathsAreNames
    <2>. QED BY <1>1, <2>1, <2>2 DEF AnyInv, TypeOK, ListsFit, Starting, BackingUp, Installing,
            trees, history
<1>3. NewOutputRight' /\ StatusRight'
    <2>1. Passed' = Passed
        BY <1>1 DEF Passed
    <2>. QED BY <1>1, <2>1 DEF AnyInv, NewOutputRight, StatusRight, Installing, trees, history
<1>4. BackupsRight' /\ NothingLost'
    BY <1>1 DEF AnyInv, BackupsRight, NothingLost, Starting, BackingUp, Installing, Undoing,
        SavedAway, Replacement, trees, history
<1>. QED BY <1>1, <1>2, <1>3, <1>4 DEF AnyInv, PCs, Installing

LEMMA AllInstalledKeepsAny == ASSUME AnyInv, AllInstalled PROVE AnyInv'
<1>1. /\ pc = "install" /\ pc' = "remove_backup" /\ next = Len(Paths) + 1
      /\ UNCHANGED <<trees, next, lists, status, history, faults>>
    BY PathsAreNames DEF AllInstalled, InLoop, AnyInv, TypeOK
<1>2. project = Replacement
    <2>1. Passed = 1 .. Len(Paths)
        BY <1>1, PathsAreNames DEF Passed
    <2>2. \A n \in Names : project[n] = run
        BY <1>1, <2>1, PathsAreNames DEF AnyInv, NewOutputRight, Installing
    <2>3. project \in [Names -> Contents]
        BY DEF AnyInv, TypeOK
    <2>. QED BY <2>2, <2>3 DEF Replacement
<1>3. ListsFit' /\ TypeOK'
    BY <1>1 DEF AnyInv, ListsFit, TypeOK, Starting, BackingUp, Installing, trees, lists, history
<1>. QED BY <1>1, <1>2, <1>3 DEF AnyInv, PCs, BackupsRight, NothingLost, NewOutputRight, StatusRight,
        Starting, BackingUp, Installing, Undoing, Replacement, trees, history

LEMMA RemoveBackupKeepsAny == ASSUME AnyInv, RemoveBackup PROVE AnyInv'
<1>1. /\ pc = "remove_backup" /\ project = Replacement
      /\ UNCHANGED <<project, staging, next, lists, history, faults>>
    BY DEF RemoveBackup, AnyInv, NewOutputRight
<1>2. \/ pc' = pc /\ status' = status /\ \E n \in Names : backup' = Without(backup, n)
      \/ pc' = "ended" /\ status' = 0 /\ backup' = backup
    BY DEF RemoveBackup
<1>3. /\ backup' \in [Names -> Contents]
      /\ \A n \in Names : backup'[n] \in {Absent, before[n]}
    <2>1. backup \in [Names -> Contents] /\ Absent \in Contents
        BY ContentsTyped DEF AnyInv
    <2>. QED BY <1>1, <1>2, <2>1 DEF AnyInv, BackupsRight, Without
<1>4. ListsFit' /\ TypeOK'
    BY <1>1, <1>2, <1>3 DEF AnyInv, ListsFit, TypeOK, Starting, BackingUp, Installing, lists, history
<1>. QED BY <1>1, <1>2, <1>3, <1>4 DEF AnyInv, PCs, BackupsRight, NothingLost, NewOutputRight,
        StatusRight, Starting, BackingUp, Installing, Undoing, Replacement, history

--------------------------------------------------------------------------------
(* The handler.                                                             *)
LEMMA LastOfList ==
    ASSUME NEW S, NEW s \in Seq(S), s # << >>
    PROVE  /\ Len(s) \in Nat \ {0} /\ Last(s) = s[Len(s)] /\ Last(s) \in S
           /\ Front(s) \in Seq(S) /\ Len(Front(s)) = Len(s) - 1
           /\ \A i \in 1 .. Len(s) - 1 : Front(s)[i] = s[i]
<1>1. Len(s) \in Nat \ {0}
    OBVIOUS
<1>2. /\ SubSeq(s, 1, Len(s) - 1) \in Seq(S)
      /\ Len(SubSeq(s, 1, Len(s) - 1)) = Len(s) - 1
      /\ \A i \in 1 .. Len(s) - 1 : SubSeq(s, 1, Len(s) - 1)[i] = s[i]
    <2>. DEFINE n == Len(s) - 1
    <2>1. n \in Nat /\ n < Len(s)
        BY <1>1
    <2>2. \A i \in 1 .. n : s[i] \in S
        BY <2>1
    <2>. HIDE DEF n
    <2>3. /\ SubSeq(s, 1, n) \in Seq(S)
          /\ Len(SubSeq(s, 1, n)) = IF 1 <= n THEN n - 1 + 1 ELSE 0
          /\ \A i \in 1 .. n - 1 + 1 : SubSeq(s, 1, n)[i] = s[1 + i - 1]
        BY <2>1, <2>2, SubSeqProperties
    <2>4. /\ Len(SubSeq(s, 1, n)) = n
          /\ \A i \in 1 .. n : SubSeq(s, 1, n)[i] = s[i]
        BY <2>1, <2>3
    <2>. QED BY <2>3, <2>4 DEF n
<1>. QED BY <1>1, <1>2 DEF Last, Front

LEMMA UndoInstallKeepsAny ==
    ASSUME AnyInv, UndoInstall, ~Raise
    PROVE  AnyInv'
<1>1. /\ pc = "undo_install" /\ installed # << >> /\ installed' = Front(installed)
      /\ UNCHANGED <<backup, pc, next, backed_up, status, history, faults>>
    BY DEF UndoInstall
<1>2. installed \in Seq(Names)
    BY DEF AnyInv, TypeOK
<1>. PICK p \in Names : p = Last(installed)
    BY <1>1, <1>2, LastOfList
<1>3. /\ {project', staging'} \subseteq [Names -> Contents]
      /\ \A m \in Names \ {p} : project'[m] = project[m]
    <2>1. project \in [Names -> Contents] /\ staging \in [Names -> Contents] /\ Absent \in Contents
        BY ContentsTyped DEF AnyInv
    <2>2. project' = Without(project, p) /\ staging' = With(staging, project, p)
        BY DEF UndoInstall
    <2>. QED BY <2>1, <2>2, Moves
<1>4. SavedAway(p)
    <2>1. Len(installed) \in 1 .. Len(installed) /\ p = installed[Len(installed)]
        BY <1>1, <1>2, LastOfList
    <2>. QED BY <1>1, <2>1 DEF AnyInv, BackupsRight
<1>5. TypeOK' /\ ListsFit' /\ NewOutputRight' /\ StatusRight'
    <2>1. installed' \in Seq(Names) /\ Len(installed') <= Len(Paths)
        BY <1>1, <1>2, LastOfList, PathsAreNames DEF AnyInv, TypeOK
    <2>. QED BY <1>1, <1>3, <2>1 DEF AnyInv, TypeOK, ListsFit, NewOutputRight, StatusRight, Starting,
            BackingUp, Installing, history
<1>6. BackupsRight'
    <2>1. \A i \in 1 .. Len(installed') : SavedAway(installed'[i])
        BY <1>1, <1>2, LastOfList DEF AnyInv, BackupsRight
    <2>2. \A n \in Names : Kept(n)'
        BY <1>1, <1>3, <1>4 DEF AnyInv, BackupsRight, Undoing, Kept, SavedAway, history
    <2>. QED BY <1>1, <2>1, <2>2 DEF AnyInv, BackupsRight, Starting, BackingUp, Installing, Undoing,
            SavedAway, history
<1>. QED BY <1>1, <1>5, <1>6 DEF AnyInv, NothingLost, BackupsRight, Undoing, Kept

LEMMA UndoBackupKeepsAny ==
    ASSUME AnyInv, UndoBackup, ~Raise
    PROVE  AnyInv'
<1>1. /\ pc = "undo_backup" /\ backed_up # << >> /\ backed_up' = Front(backed_up)
      /\ UNCHANGED <<staging, pc, next, installed, status, history, faults>>
    BY DEF UndoBackup
<1>2. backed_up \in Seq(Names)
    BY DEF AnyInv, TypeOK
<1>. PICK p \in Names : p = Last(backed_up)
    BY <1>1, <1>2, LastOfList
<1>3. /\ {project', backup'} \subseteq [Names -> Contents]
      /\ project'[p] = before[p] /\ backup'[p] = Absent
      /\ \A m \in Names \ {p} : project'[m] = project[m] /\ backup'[m] = backup[m]
    <2>1. project \in [Names -> Contents] /\ backup \in [Names -> Contents] /\ Absent \in Contents
        BY ContentsTyped DEF AnyInv
    <2>2. project' = With(project, backup, p) /\ backup' = Without(backup, p)
        BY DEF UndoBackup
    <2>3. backup[p] = before[p]
        BY <1>1 DEF UndoBackup, Blocked, AnyInv, BackupsRight
    <2>. QED BY <2>1, <2>2, <2>3, Moves
<1>4. TypeOK' /\ ListsFit' /\ NewOutputRight' /\ StatusRight'
    <2>1. backed_up' \in Seq(Names) /\ Len(backed_up') <= Len(Paths)
        BY <1>1, <1>2, LastOfList, PathsAreNames DEF AnyInv, TypeOK
    <2>. QED BY <1>1, <1>3, <2>1 DEF AnyInv, TypeOK, ListsFit, NewOutputRight, StatusRight, Starting,
            BackingUp, Installing, history
<1>5. BackupsRight'
    BY <1>1, <1>3 DEF AnyInv, BackupsRight, Starting, BackingUp, Installing, Undoing, Kept, history
<1>. QED BY <1>1, <1>4, <1>5 DEF AnyInv, NothingLost, BackupsRight, Undoing, Kept

LEMMA EndKeepsAny ==
    ASSUME AnyInv, Terminated \/ Cleanup
    PROVE  AnyInv'
<1>1. CASE Terminated
    <2>1. /\ pc \notin {"clean", "ended"} /\ pc' = "ended"
          /\ UNCHANGED <<trees, next, lists, status, history>> /\ faults' \in Seq(FaultKinds) /\ Len(faults') <= MaxFaults
        BY <1>1, InstallAssumption DEF Terminated, Running, Fault, AnyInv, TypeOK
    <2>. QED BY <2>1 DEF AnyInv, TypeOK, PCs, ListsFit, BackupsRight, NothingLost, NewOutputRight,
            StatusRight, Starting, BackingUp, Installing, Undoing, Replacement, trees, lists, history
<1>2. CASE Cleanup
    <2>1. TypeOK'
        BY <1>2, InstallAssumption DEF Cleanup, AnyInv, TypeOK, Gone, Contents, Absent, lists, history
    <2>. QED BY <1>2, <2>1 DEF Cleanup, AnyInv, PCs, ListsFit, BackupsRight, NothingLost,
            NewOutputRight, StatusRight, Starting, BackingUp, Installing, Undoing, Replacement,
            lists, history
<1>. QED BY <1>1, <1>2

LEMMA StepKeepsAny == AnyInv /\ [Next]_vars => AnyInv'
<1>. SUFFICES ASSUME AnyInv, [Next]_vars PROVE AnyInv'
    OBVIOUS
<1>1. ASSUME Raise, pc # "clean", faults' = faults PROVE AnyInv'
    BY <1>1, RaiseKeepsAny DEF AnyInv, TypeOK
<1>2. CASE Generate
    BY <1>2, GenerateKeepsAny
<1>3. CASE CheckStaging \/ MakeBackupDir \/ AllRemoved \/ AllRestored
    BY <1>3, PlainStepKeepsAny
<1>4. CASE BackUp \/ SkipMissing \/ RecordBackup \/ AllBackedUp
    BY <1>4, BackUpKeepsAny, NextBackUpKeepsAny, AllBackedUpKeepsAny
<1>5. CASE Install
    BY <1>1, <1>5, InstallKeepsAny DEF Install
<1>6. CASE RecordInstall \/ AllInstalled \/ RemoveBackup
    BY <1>6, RecordInstallKeepsAny, AllInstalledKeepsAny, RemoveBackupKeepsAny
<1>7. CASE UndoInstall
    BY <1>1, <1>7, UndoInstallKeepsAny DEF UndoInstall
<1>8. CASE UndoBackup
    BY <1>1, <1>8, UndoBackupKeepsAny DEF UndoBackup
<1>9. CASE CallFails \/ Interrupted
    <2>1. Raise /\ pc # "clean" /\ faults' \in Seq(FaultKinds) /\ Len(faults') <= MaxFaults
        <3>1. Raise /\ pc # "clean"
            BY <1>9 DEF CallFails, Interrupted, CallsTheSystem, Running
        <3>2. PICK kind \in FaultKinds : Len(faults) < MaxFaults /\ faults' = Append(faults, kind)
            BY <1>9 DEF CallFails, Interrupted, Fault
        <3>3. faults \in Seq(FaultKinds)
            BY DEF AnyInv, TypeOK
        <3>. QED BY <3>1, <3>2, <3>3, InstallAssumption
    <2>. QED BY <2>1, RaiseKeepsAny
<1>10. CASE Terminated \/ Cleanup
    BY <1>10, EndKeepsAny
<1>11. CASE UNCHANGED vars
    BY <1>11 DEF vars, trees, lists, history, AnyInv, TypeOK, PCs, ListsFit, BackupsRight, NothingLost,
        NewOutputRight, StatusRight, Ahead, Passed, InLoop, SavedAway, Kept, Replacement
<1>. QED BY <1>2, <1>3, <1>4, <1>5, <1>6, <1>7, <1>8, <1>9, <1>10, <1>11
        DEF Next, Installer, Faults

--------------------------------------------------------------------------------
(* With errors alone.                                                       *)
LEMMA ListedAppend ==
    ASSUME NEW S, NEW s \in Seq(S), NEW e \in S
    PROVE  /\ Listed(Append(s, e)) = Listed(s) \cup {e}
           /\ NoneTwice(s) /\ e \notin Listed(s) => NoneTwice(Append(s, e))
BY DEF Listed, NoneTwice

LEMMA ListedFront ==
    ASSUME NEW S, NEW s \in Seq(S), s # << >>, NoneTwice(s)
    PROVE  /\ Listed(Front(s)) = Listed(s) \ {Last(s)} /\ NoneTwice(Front(s))
           /\ Last(s) \in Listed(s)
BY LastOfList DEF Listed, NoneTwice

LEMMA ListsTyped ==
    ASSUME AnyInv
    PROVE  /\ Listed(backed_up) \subseteq Names /\ Listed(installed) \subseteq Names
           /\ backed_up \in Seq(Names) /\ installed \in Seq(Names)
           /\ BackedUp = IF pc = "record_backup" THEN Listed(backed_up) \cup {Path}
                         ELSE Listed(backed_up)
           /\ Installed = IF pc = "record_install" THEN Listed(installed) \cup {Path}
                          ELSE Listed(installed)
<1>1. backed_up \in Seq(Names) /\ installed \in Seq(Names)
    BY DEF AnyInv, TypeOK
<1>2. Listed(backed_up) \subseteq Names /\ Listed(installed) \subseteq Names
    BY <1>1 DEF Listed
<1>. QED BY <1>1, <1>2 DEF BackedUp, Installed, Path

LEMMA TreesTyped ==
    ASSUME AnyInv
    PROVE  /\ {project, staging, backup, before} \subseteq [Names -> Contents]
           /\ Absent \in Contents /\ Contents \subseteq Int /\ run \in Nat
BY InstallAssumption DEF AnyInv, TypeOK, Contents, Absent

LEMMA EmptyLists == Listed(<< >>) = {} /\ NoneTwice(<< >>)
BY DEF Listed, NoneTwice

LEMMA ExactUnmixed == ExactInv => Unmixed
<1>. SUFFICES ASSUME ExactInv, pc \notin {"ended", "clean"} PROVE Unmixed
    BY DEF ExactInv, OutcomeExact, Generations
<1>1. run # Absent /\ \A n \in Names : before[n] # run
    BY TreesTyped DEF ExactInv, OutcomeExact, Generations, AnyInv, PCs, Starting, Absent
<1>2. CASE pc \in Starting
    BY <1>1, <1>2 DEF ExactInv, AnyInv, BackupsRight, Unmixed
<1>3. CASE pc = "remove_backup"
    BY <1>3 DEF ExactInv, AnyInv, NewOutputRight, Replacement, Unmixed
<1>4. CASE pc \in BackingUp \cup Installing \cup Undoing
    <2>1. \A n \in Names : Exact(n)
        BY <1>4 DEF ExactInv, ContentsExact
    <2>2. Installed = {} \/ AllAway
        <3>1. pc \in BackingUp => Installed = {}
            BY ListsTyped, EmptyLists DEF ExactInv, AnyInv, ListsFit, BackingUp
        <3>. QED BY <1>4, <3>1 DEF ExactInv, ContentsExact, Undoing
    <2>3. CASE Installed = {}
        BY <1>1, <2>1, <2>3 DEF Exact, Unmixed
    <2>4. CASE AllAway
        <3>1. \A n \in Names : project[n] \in {run, Absent}
            BY <2>1, <2>4 DEF Exact, AllAway
        <3>. QED BY <3>1 DEF Unmixed
    <2>. QED BY <2>2, <2>3, <2>4
<1>. QED BY <1>2, <1>3, <1>4 DEF ExactInv, AnyInv, PCs

LEMMA ExactInit == Init => ExactInv
<1>. SUFFICES ASSUME Init PROVE ExactInv
    OBVIOUS
<1>1. ListsExact
    BY EmptyLists DEF Init, ListsExact, Installing
<1>. QED BY <1>1, AnyInit DEF Init, ExactInv, ContentsExact, OutcomeExact, Generations, Unmixed, BackingUp,
        Installing, Undoing

LEMMA GenerateStartsExact ==
    ASSUME AnyInv, Generations, AnyInv', Generate
    PROVE  ExactInv'
<1>1. /\ pc' = "check" /\ run' = run + 1 /\ before' = project /\ project' = project
      /\ backed_up' = << >> /\ installed' = << >> /\ faults' = << >>
    BY DEF Generate
<1>2. \A n \in Names : project[n] <= run /\ project[n] \in Int /\ run \in Int
    BY InstallAssumption DEF Generations, AnyInv, TypeOK, Contents
<1>. QED BY <1>1, <1>2, EmptyLists DEF ExactInv, ListsExact, ContentsExact, OutcomeExact, Generations,
        BackingUp, Installing, Undoing

LEMMA StartKeepsExact ==
    ASSUME ExactInv, AnyInv', CheckStaging \/ MakeBackupDir
    PROVE  ExactInv'
<1>2. CASE CheckStaging
    <2>1. /\ pc = "check" /\ pc' \in {"mkdir", "ended"}
          /\ UNCHANGED <<trees, next, lists, status, history, faults>>
          /\ project = before
        BY <1>2 DEF CheckStaging, ExactInv, AnyInv, BackupsRight, Starting
    <2>2. pc' = "mkdir" => staging = Replacement
        <3>. SUFFICES ASSUME pc' = "mkdir" PROVE staging = Replacement
            OBVIOUS
        <3>1. \A n \in Names : staging[n] = run
            BY <1>2 DEF CheckStaging, ExactInv, AnyInv, NewOutputRight, Starting
        <3>. QED BY <3>1 DEF Replacement, ExactInv, AnyInv, TypeOK
    <2>. QED BY <2>1, <2>2, ExactUnmixed DEF ExactInv, ListsExact, ContentsExact, OutcomeExact, Generations,
            BackingUp, Installing, Undoing, Replacement, Unmixed, trees, lists, history
<1>3. CASE MakeBackupDir
    <2>1. /\ pc = "mkdir" /\ pc' = "back_up" /\ UNCHANGED <<trees, lists, status, history, faults>>
          /\ backed_up = << >> /\ installed = << >> /\ staging = Replacement
          /\ project = before /\ backup = Gone
        BY <1>3 DEF MakeBackupDir, ExactInv, AnyInv, ListsFit, BackupsRight, Starting, ContentsExact
    <2>2. BackedUp' = {} /\ Installed' = {}
        BY <2>1, EmptyLists DEF BackedUp, Installed, lists
    <2>3. \A n \in Names : Exact(n)'
        BY <2>1, <2>2 DEF Exact, Gone, Replacement, trees, history
    <2>. QED BY <2>1, <2>2, <2>3 DEF ExactInv, ListsExact, ContentsExact, OutcomeExact, Generations, BackingUp,
            Installing, Undoing, trees, lists, history
<1>. QED BY <1>2, <1>3

LEMMA BackUpKeepsExact ==
    ASSUME ExactInv, AnyInv', SkipMissing \/ BackUp \/ RecordBackup \/ AllBackedUp
    PROVE  ExactInv'
<1>1. /\ pc \in BackingUp /\ installed = << >> /\ installed' = << >> /\ next \in Nat
      /\ UNCHANGED <<staging, installed, status, history, faults>>
      /\ pc' \in {"back_up", "record_backup", "install"}
    BY DEF SkipMissing, BackUp, RecordBackup, AllBackedUp, ExactInv, AnyInv, ListsFit, TypeOK, BackingUp,
        trees, lists
<1>2. Installed = {} /\ Installed' = {} /\ \A n \in Names : Exact(n)
    BY <1>1, EmptyLists DEF Installed, BackingUp, ExactInv, ContentsExact
<1>3. /\ NoneTwice(backed_up)' /\ (pc' = "record_backup" => Paths[next'] \notin Listed(backed_up)')
      /\ (\A n \in Names : Exact(n)') /\ (\A n \in Names : project'[n] <= run)
    <2>1. CASE BackUp
        <3>1. /\ pc = "back_up" /\ pc' = "record_backup" /\ InLoop /\ project[Path] # Absent
              /\ UNCHANGED <<staging, next, lists, status, history, faults>>
            BY <2>1 DEF BackUp
        <3>. PICK p \in Names : p = Paths[next]
            BY <3>1, PathsAreNames DEF InLoop, ExactInv, AnyInv, TypeOK
        <3>2. p \notin Listed(backed_up)
            BY <1>2, <3>1, ListsTyped DEF Exact, Path, ExactInv
        <3>3. BackedUp = Listed(backed_up) /\ BackedUp' = Listed(backed_up) \cup {p}
            BY <3>1, ListsTyped DEF BackedUp, lists, ExactInv
        <3>4. /\ project'[p] = Absent /\ backup'[p] = project[p]
              /\ \A m \in Names \ {p} : project'[m] = project[m] /\ backup'[m] = backup[m]
            <4>1. project' = Without(project, p) /\ backup' = With(backup, project, p)
                BY <2>1 DEF BackUp, Path
            <4>. QED BY <4>1, TreesTyped, Moves DEF ExactInv
        <3>5. \A n \in Names : Exact(n)'
            BY <1>1, <1>2, <3>1, <3>2, <3>3, <3>4 DEF Exact, Path, history
        <3>6. \A n \in Names : project'[n] <= run
            <4>1. Absent <= run
                BY TreesTyped DEF ExactInv, Absent
            <4>. QED BY <3>4, <4>1 DEF ExactInv, OutcomeExact, Generations
        <3>. QED BY <3>1, <3>2, <3>5, <3>6 DEF ExactInv, ListsExact, lists
    <2>2. CASE RecordBackup
        <3>1. /\ pc = "record_backup" /\ pc' = "back_up" /\ backed_up' = Append(backed_up, Path)
              /\ UNCHANGED <<trees, installed, status, history, faults>> /\ Path \in Names
              /\ Path \notin Listed(backed_up)
            BY <2>2, PathsAreNames DEF RecordBackup, ExactInv, AnyInv, ListsFit, InLoop, TypeOK, ListsExact,
                Path
        <3>2. BackedUp' = BackedUp /\ NoneTwice(backed_up)'
            BY <3>1, ListsTyped, ListedAppend DEF BackedUp, Path, ExactInv, ListsExact
        <3>. QED BY <1>2, <3>1, <3>2 DEF Exact, ExactInv, OutcomeExact, Generations, trees, history
    <2>3. CASE SkipMissing \/ AllBackedUp
        <3>1. pc = "back_up" /\ pc' \in {"back_up", "install"}
                /\ UNCHANGED <<trees, lists, status, history, faults>>
            BY <2>3 DEF SkipMissing, AllBackedUp
        <3>2. BackedUp' = BackedUp
            BY <3>1 DEF BackedUp, lists
        <3>. QED BY <1>2, <3>1, <3>2 DEF Exact, ExactInv, ListsExact, OutcomeExact, Generations, trees, lists, history
    <2>. QED BY <2>1, <2>2, <2>3
<1>4. pc' = "install" => AllAway'
    BY <1>3 DEF AnyInv, BackupsRight, Installing, SavedAway, AllAway, Exact
<1>. QED BY <1>1, <1>2, <1>3, <1>4, EmptyLists DEF ExactInv, ListsExact, ContentsExact, OutcomeExact, Generations,
        BackingUp, Installing, Undoing, history

(* Nothing is in the way of a new path.                                     *)
LEMMA InstallNotBlocked ==
    ASSUME ExactInv, pc = "install", InLoop
    PROVE  /\ Path \in Names /\ Path \notin Installed /\ project[Path] = Absent
           /\ ~Blocked(staging, project, Path)
<1>1. next \in 1 .. Len(Paths) /\ Path \in Names /\ Path = Paths[next]
    BY PathsAreNames DEF InLoop, Path, ExactInv, AnyInv, TypeOK
<1>2. Path \notin Installed
    <2>1. Installed \subseteq {Paths[i] : i \in 1 .. (next - 1)}
        BY ListsTyped DEF ExactInv, ListsExact, Installing
    <2>. QED BY <1>1, <2>1, PathsAreNames
<1>3. Exact(Path) /\ AllAway
    BY <1>1 DEF ExactInv, ContentsExact, Installing
<1>. QED BY <1>1, <1>2, <1>3, TreesTyped DEF Exact, AllAway, Blocked, ExactInv, Absent

LEMMA InstallKeepsExact ==
    ASSUME ExactInv, AnyInv', Install
    PROVE  ExactInv'
<1>1. ~Blocked(staging, project, Path) /\ Path \notin Installed
    BY InstallNotBlocked DEF Install
<1>2. /\ pc = "install" /\ pc' = "record_install" /\ InLoop
      /\ UNCHANGED <<backup, next, lists, status, history, faults>>
    BY <1>1 DEF Install
<1>. PICK p \in Names : p = Paths[next]
    BY <1>2, PathsAreNames DEF InLoop, ExactInv, AnyInv, TypeOK
<1>3. /\ project'[p] = run /\ staging'[p] = Absent
      /\ \A m \in Names \ {p} : project'[m] = project[m] /\ staging'[m] = staging[m]
    <2>1. project' = With(project, staging, p) /\ staging' = Without(staging, p)
        BY <1>1 DEF Install, Path
    <2>2. staging[p] = run
        BY <1>1, <1>2 DEF ExactInv, ContentsExact, Installing, Exact, Path
    <2>. QED BY <2>1, <2>2, TreesTyped, Moves DEF ExactInv
<1>4. Installed = Listed(installed) /\ Installed' = Listed(installed) \cup {p}
        /\ BackedUp' = BackedUp /\ p \notin Listed(installed)
    BY <1>1, <1>2, ListsTyped DEF Installed, BackedUp, lists, Path, ExactInv
<1>5. \A n \in Names : Exact(n)'
    BY <1>2, <1>3, <1>4 DEF Exact, ExactInv, ContentsExact, Installing, history
<1>6. ListsExact'
    BY <1>2, <1>4 DEF ExactInv, ListsExact, Installing, lists
<1>7. ContentsExact'
    BY <1>2, <1>4, <1>5 DEF ExactInv, ContentsExact, AllAway, Installing, Undoing, history
<1>8. OutcomeExact'
    BY <1>2, <1>3, TreesTyped DEF ExactInv, OutcomeExact, Generations, Undoing, history
<1>. QED BY <1>6, <1>7, <1>8 DEF ExactInv

LEMMA RecordInstallKeepsExact ==
    ASSUME ExactInv, AnyInv', RecordInstall
    PROVE  ExactInv'
<1>1. /\ pc = "record_install" /\ pc' = "install" /\ installed' = Append(installed, Path)
      /\ next' = next + 1 /\ next \in 1 .. Len(Paths) /\ Path = Paths[next] /\ Path \in Names
      /\ UNCHANGED <<trees, backed_up, status, history, faults>>
      /\ Path \notin Listed(installed)
    BY PathsAreNames DEF RecordInstall, Recorded, NextPath, Path, ExactInv, AnyInv, ListsFit, InLoop,
        TypeOK, ListsExact
<1>2. /\ Listed(installed)' = Listed(installed) \cup {Path} /\ NoneTwice(installed)'
      /\ Installed' = Installed /\ BackedUp' = BackedUp
    BY <1>1, ListsTyped, ListedAppend DEF Installed, BackedUp, ExactInv, ListsExact
<1>3. ListsExact'
    <2>1. Listed(installed)' \subseteq {Paths[i] : i \in 1 .. (next' - 1)}
        BY <1>1, <1>2 DEF ExactInv, ListsExact, Installing
    <2>. QED BY <1>1, <1>2, <2>1 DEF ExactInv, ListsExact
<1>4. ContentsExact'
    BY <1>1, <1>2 DEF ExactInv, ContentsExact, Exact, AllAway, Installing, Undoing, trees, history
<1>. QED BY <1>1, <1>3, <1>4 DEF ExactInv, OutcomeExact, Generations, Undoing, trees, history

LEMMA FinishKeepsExact ==
    ASSUME ExactInv, AnyInv', AllInstalled \/ RemoveBackup \/ Cleanup
    PROVE  ExactInv'
<1>1. /\ pc \in {"install", "remove_backup", "ended"} /\ pc' \in {"remove_backup", "ended", "clean"}
      /\ UNCHANGED <<project, lists, history, faults>>
      /\ pc = "remove_backup" => project = Replacement
      /\ pc' = "clean" => pc = "ended"
      /\ pc' = "ended" => pc = "remove_backup"
    BY DEF AllInstalled, RemoveBackup, Cleanup, ExactInv, AnyInv, NewOutputRight, trees
<1>2. ListsExact' /\ ContentsExact'
    BY <1>1 DEF ExactInv, ListsExact, ContentsExact, BackingUp, Installing, Undoing, lists
<1>. QED BY <1>1, <1>2, ExactUnmixed DEF ExactInv, OutcomeExact, Generations, Undoing, Unmixed, Replacement,
        history

LEMMA UndoInstallKeepsExact ==
    ASSUME ExactInv, AnyInv', UndoInstall
    PROVE  ExactInv'
<1>1. pc = "undo_install" /\ installed # << >> /\ installed \in Seq(Names)
        /\ NoneTwice(installed) /\ Installed = Listed(installed)
    BY ListsTyped DEF UndoInstall, ExactInv, ListsExact
<1>. PICK p \in Names : p = Last(installed)
    BY <1>1, LastOfList
<1>2. p \in Installed /\ Exact(p) /\ project[p] = run /\ staging[p] = Absent
    BY <1>1, ListedFront DEF ExactInv, ContentsExact, Undoing, Exact
<1>3. ~Blocked(project, staging, p)
    BY <1>2, TreesTyped DEF Blocked, Absent, ExactInv
<1>4. /\ installed' = Front(installed) /\ project' = Without(project, p)
      /\ staging' = With(staging, project, p)
      /\ UNCHANGED <<backup, pc, next, backed_up, status, history, faults>>
    BY <1>3 DEF UndoInstall
<1>5. Installed' = Installed \ {p} /\ NoneTwice(installed)' /\ BackedUp' = BackedUp
    BY <1>1, <1>4, ListedFront DEF Installed, BackedUp
<1>6. /\ project'[p] = Absent /\ staging'[p] = run
      /\ \A m \in Names \ {p} : project'[m] = project[m] /\ staging'[m] = staging[m]
    <2>1. project \in [Names -> Contents] /\ staging \in [Names -> Contents] /\ Absent \in Contents
        BY TreesTyped DEF ExactInv
    <2>. QED BY <1>2, <1>4, <2>1, Moves
<1>7. AllAway
    BY <1>1, <1>2 DEF ExactInv, ContentsExact
<1>8. \A n \in Names : Exact(n)'
    BY <1>1, <1>4, <1>5, <1>6, <1>7 DEF Exact, AllAway, ExactInv, ContentsExact, Undoing, history
<1>9. ListsExact' /\ ContentsExact'
    BY <1>1, <1>4, <1>5, <1>7, <1>8 DEF ExactInv, ListsExact, ContentsExact, AllAway, BackingUp, Installing, Undoing,
        history
<1>10. OutcomeExact'
    <2>1. Absent <= run
        BY TreesTyped DEF ExactInv, Absent
    <2>. QED BY <1>1, <1>4, <1>6, <2>1 DEF ExactInv, OutcomeExact, Generations, Undoing, history
<1>. QED BY <1>9, <1>10 DEF ExactInv

LEMMA UndoBackupKeepsExact ==
    ASSUME ExactInv, AnyInv', UndoBackup
    PROVE  ExactInv'
<1>1. pc = "undo_backup" /\ backed_up # << >> /\ backed_up \in Seq(Names)
        /\ NoneTwice(backed_up) /\ BackedUp = Listed(backed_up) /\ Installed = {}
    BY ListsTyped DEF UndoBackup, ExactInv, ListsExact, ContentsExact
<1>. PICK p \in Names : p = Last(backed_up)
    BY <1>1, LastOfList
<1>2. p \in BackedUp /\ Exact(p) /\ project[p] = Absent /\ backup[p] = before[p] /\ before[p] # Absent
    BY <1>1, ListedFront DEF ExactInv, ContentsExact, Undoing, Exact
<1>3. ~Blocked(backup, project, p)
    BY <1>2 DEF Blocked
<1>4. /\ backed_up' = Front(backed_up) /\ backup' = Without(backup, p)
      /\ project' = With(project, backup, p)
      /\ UNCHANGED <<staging, pc, next, installed, status, history, faults>>
    BY <1>3 DEF UndoBackup
<1>5. BackedUp' = BackedUp \ {p} /\ NoneTwice(backed_up)' /\ Installed' = {}
    BY <1>1, <1>4, ListedFront DEF Installed, BackedUp
<1>6. /\ project'[p] = before[p] /\ backup'[p] = Absent
      /\ \A m \in Names \ {p} : project'[m] = project[m] /\ backup'[m] = backup[m]
    BY <1>2, <1>4, TreesTyped, Moves DEF ExactInv
<1>8. \A n \in Names : Exact(n)'
    BY <1>1, <1>4, <1>5, <1>6 DEF Exact, ExactInv, ContentsExact, Undoing, history
<1>9. ListsExact' /\ ContentsExact'
    BY <1>1, <1>4, <1>5, <1>8 DEF ExactInv, ListsExact, ContentsExact, BackingUp, Installing, Undoing,
        history
<1>10. OutcomeExact'
    <2>1. before[p] <= run
        BY <1>1, TreesTyped DEF ExactInv, OutcomeExact, Generations
    <2>. QED BY <1>1, <1>4, <1>6, <2>1 DEF ExactInv, OutcomeExact, Generations, Undoing, history
<1>. QED BY <1>9, <1>10 DEF ExactInv

LEMMA HandlerKeepsExact ==
    ASSUME ExactInv, AnyInv', AllRemoved \/ AllRestored
    PROVE  ExactInv'
<1>1. CASE AllRemoved
    <2>1. /\ pc = "undo_install" /\ pc' = "undo_backup" /\ installed = << >>
          /\ UNCHANGED <<trees, next, lists, status, history, faults>>
        BY <1>1 DEF AllRemoved
    <2>2. Installed' = {} /\ Installed = {} /\ BackedUp' = BackedUp
        BY <2>1, EmptyLists DEF Installed, BackedUp, lists
    <2>3. ListsExact' /\ ContentsExact'
        BY <2>1, <2>2 DEF ExactInv, ListsExact, ContentsExact, Exact, BackingUp, Installing, Undoing,
            trees, lists, history
    <2>. QED BY <2>1, <2>3 DEF ExactInv, OutcomeExact, Generations, Undoing, trees, history
<1>2. CASE AllRestored
    <2>1. /\ pc = "undo_backup" /\ pc' = "ended" /\ backed_up = << >>
          /\ UNCHANGED <<trees, next, lists, history, faults>>
        BY <1>2 DEF AllRestored
    <2>2. project = before
        <3>1. Installed = {} /\ BackedUp = {}
            BY <2>1, EmptyLists, ListsTyped DEF ExactInv, ContentsExact
        <3>2. \A n \in Names : project[n] = before[n]
            BY <2>1, <3>1 DEF ExactInv, ContentsExact, Exact, Undoing
        <3>. QED BY <3>2, TreesTyped DEF ExactInv
    <2>3. ListsExact' /\ ContentsExact'
        BY <2>1 DEF ExactInv, ListsExact, ContentsExact, BackingUp, Installing, Undoing, lists
    <2>. QED BY <2>1, <2>2, <2>3, ExactUnmixed DEF ExactInv, OutcomeExact, Generations, Undoing, Unmixed,
            trees, history
<1>. QED BY <1>1, <1>2

(* A call that fails: the handler begins, or the installer ends with what   *)
(* it has.                                                                  *)
LEMMA FailureKeepsExact ==
    ASSUME ExactInv, AnyInv', CallFails
    PROVE  ExactInv'
<1>1. /\ pc \in {"mkdir", "remove_backup", "back_up", "install", "undo_install", "undo_backup"}
      /\ UNCHANGED <<trees, next, lists, status, history>>
      /\ faults' = Append(faults, "error") /\ faults \in Seq(FaultKinds)
      /\ Len(faults') = Len(faults) + 1
      /\ pc' = IF pc \in {"back_up", "install"} THEN "undo_install" ELSE "ended"
    BY InstallAssumption DEF CallFails, CallsTheSystem, Fault, Raise, Guarded, Rollback, ExactInv, AnyInv,
        TypeOK
<1>2. ListsExact'
    BY <1>1 DEF ExactInv, ListsExact, Installing, lists
<1>3. BackedUp' = BackedUp /\ Installed' = Installed
    BY <1>1 DEF BackedUp, Installed, lists
<1>4. pc = "back_up" => Installed = {}
    BY EmptyLists, ListsTyped DEF ExactInv, AnyInv, ListsFit, BackingUp
<1>5. ContentsExact'
    BY <1>1, <1>3, <1>4 DEF ExactInv, ContentsExact, Exact, AllAway, BackingUp, Installing, Undoing, trees,
        history
<1>6. OutcomeExact'
    <2>1. Len(faults') <= 1 /\ pc' = "ended" => project \in {before, Replacement}
        BY <1>1 DEF ExactInv, AnyInv, OutcomeExact, Generations, BackupsRight, NewOutputRight, Starting, Undoing
    <2>. QED BY <1>1, <2>1, ExactUnmixed DEF ExactInv, OutcomeExact, Generations, Unmixed, Replacement, trees,
            history
<1>. QED BY <1>2, <1>5, <1>6 DEF ExactInv

LEMMA StepKeepsExact ==
    ASSUME ExactInv, AnyInv', [Next]_vars, ~Generate, ~Interrupted, ~Terminated
    PROVE  ExactInv'
<1>1. CASE UNCHANGED vars
    <2>1. ListsExact' /\ OutcomeExact'
        BY <1>1 DEF vars, trees, lists, history, ExactInv, ListsExact, OutcomeExact, Generations, Unmixed,
            Replacement
    <2>2. ContentsExact'
        BY <1>1 DEF vars, trees, lists, history, ExactInv, ContentsExact, Replacement, Exact, AllAway,
            BackedUp, Installed
    <2>. QED BY <2>1, <2>2 DEF ExactInv
<1>. QED BY <1>1, StartKeepsExact, BackUpKeepsExact, InstallKeepsExact, RecordInstallKeepsExact,
        FinishKeepsExact, UndoInstallKeepsExact, UndoBackupKeepsExact, HandlerKeepsExact, FailureKeepsExact
        DEF Next, Installer, Faults

(* Whatever strikes: no step brings in content of a later run.              *)
LEMMA StepKeepsGenerations ==
    ASSUME AnyInv, Generations, [Next]_vars
    PROVE  Generations'
<1>. USE TreesTyped DEF Generations
<1>1. CASE Generate
    BY <1>1 DEF Generate
<1>2. CASE Install /\ ~Raise
    <2>1. pc = "install" /\ project' = With(project, staging, Path) /\ UNCHANGED history
        BY <1>2 DEF Install
    <2>2. pc' = "record_install" /\ \A n \in Names : staging[n] \in {Absent, run}
        BY <1>2, <2>1 DEF Install, AnyInv, NewOutputRight, Installing
    <2>3. \A n \in Names : project'[n] \in {project[n], staging[n]}
        BY <2>1 DEF With
    <2>. QED BY <2>1, <2>2, <2>3 DEF history, Absent
<1>3. CASE UndoBackup /\ ~Raise
    <2>1. pc = "undo_backup" /\ pc' = pc /\ UNCHANGED history
            /\ project' = With(project, backup, Last(backed_up))
        BY <1>3 DEF UndoBackup
    <2>2. \A n \in Names : backup[n] \in {Absent, before[n]} /\ before[n] < run
        BY <2>1 DEF AnyInv, BackupsRight
    <2>3. \A n \in Names : project'[n] \in {project[n], backup[n]}
        BY <2>1 DEF With
    <2>. QED BY <2>1, <2>2, <2>3 DEF history, Absent
<1>4. CASE BackUp \/ (UndoInstall /\ ~Raise)
    <2>1. \E n : project' = Without(project, n)
        BY <1>4 DEF BackUp, UndoInstall
    <2>2. \A n \in Names : project'[n] \in {project[n], Absent}
        BY <2>1 DEF Without
    <2>3. pc # "clean" /\ UNCHANGED history
        BY <1>4 DEF BackUp, UndoInstall
    <2>. QED BY <2>2, <2>3 DEF history, Absent
<1>5. ASSUME UNCHANGED <<project, history>>, pc # "clean" \/ pc' = pc PROVE Generations'
    BY <1>5 DEF history
<1>6. CASE Raise /\ (Install \/ UndoInstall \/ UndoBackup \/ CallFails \/ Interrupted)
    BY <1>5, <1>6 DEF Raise, trees, Install, UndoInstall, UndoBackup, CallFails, CallsTheSystem,
        Interrupted, Running
<1>7. CASE \/ CheckStaging \/ MakeBackupDir \/ SkipMissing \/ RecordBackup \/ AllBackedUp
           \/ RecordInstall \/ AllInstalled \/ RemoveBackup \/ AllRemoved \/ AllRestored
           \/ Terminated \/ Cleanup
    BY <1>5, <1>7 DEF CheckStaging, MakeBackupDir, SkipMissing, RecordBackup, AllBackedUp, RecordInstall,
        AllInstalled, RemoveBackup, AllRemoved, AllRestored, Terminated, Running, Cleanup, trees
<1>8. CASE UNCHANGED vars
    BY <1>5, <1>8 DEF vars, trees
<1>. QED BY <1>1, <1>2, <1>3, <1>4, <1>6, <1>7, <1>8
        DEF Next, Installer, Faults, CallFails, Interrupted

(* While only calls have failed in a run, ExactInv holds; it begins anew    *)
(* with every run.                                                          *)
InstallInv == AnyInv /\ Generations /\ (OnlyErrors => ExactInv)

LEMMA FaultsGrow ==
    ASSUME AnyInv, [Next]_vars, ~Generate
    PROVE  /\ OnlyErrors' => OnlyErrors
           /\ OnlyErrors' => ~Interrupted /\ ~Terminated
<1>1. faults \in Seq(FaultKinds)
    BY DEF AnyInv, TypeOK
<1>2. ASSUME NEW kind \in FaultKinds, faults' = Append(faults, kind)
      PROVE  OnlyErrors' => OnlyErrors /\ kind = "error"
    <2>1. /\ Len(faults') = Len(faults) + 1 /\ faults'[Len(faults) + 1] = kind
          /\ \A i \in 1 .. Len(faults) : faults'[i] = faults[i]
        BY <1>1, <1>2
    <2>. QED BY <1>1, <2>1 DEF OnlyErrors
<1>3. CASE CallFails \/ Interrupted \/ Terminated
    <2>1. \A kind : Fault(kind) => (OnlyErrors' => OnlyErrors /\ kind = "error")
        BY <1>2 DEF Fault
    <2>2. Interrupted => Fault("interrupt")
        BY DEF Interrupted
    <2>3. Terminated => Fault("terminate")
        BY DEF Terminated
    <2>4. CallFails => Fault("error")
        BY DEF CallFails
    <2>. QED BY <1>3, <2>1, <2>2, <2>3, <2>4
<1>4. CASE UNCHANGED faults
    <2>1. ~Interrupted /\ ~Terminated
        BY <1>1, <1>4 DEF Interrupted, Terminated, Fault
    <2>. QED BY <1>4, <2>1 DEF OnlyErrors
<1>5. \/ UNCHANGED faults
      \/ CallFails \/ Interrupted \/ Terminated
    BY DEF Next, Installer, Faults, vars, CheckStaging, MakeBackupDir, SkipMissing, BackUp, RecordBackup,
        AllBackedUp, Install, RecordInstall, AllInstalled, RemoveBackup, UndoInstall, AllRemoved,
        UndoBackup, AllRestored, Cleanup
<1>. QED BY <1>3, <1>4, <1>5

LEMMA StepKeepsInv == InstallInv /\ [Next]_vars => InstallInv'
<1>. SUFFICES ASSUME InstallInv, [Next]_vars PROVE InstallInv'
    OBVIOUS
<1>1. AnyInv' /\ Generations'
    BY StepKeepsAny, StepKeepsGenerations DEF InstallInv
<1>2. CASE Generate
    BY <1>1, <1>2, GenerateStartsExact DEF InstallInv
<1>3. CASE ~Generate
    <2>1. ASSUME OnlyErrors' PROVE ExactInv'
        <3>1. OnlyErrors /\ ~Interrupted /\ ~Terminated
            BY <1>3, <2>1, FaultsGrow DEF InstallInv
        <3>. QED BY <1>1, <1>3, <3>1, StepKeepsExact DEF InstallInv
    <2>. QED BY <1>1, <2>1 DEF InstallInv
<1>. QED BY <1>2, <1>3

--------------------------------------------------------------------------------
LEMMA AnyInvariant == Spec => []AnyInv
BY AnyInit, StepKeepsAny, PTL DEF Spec

(* The lists never outgrow the paths, and every tree holds what some run    *)
(* generated (install_generated_output.py:20-42).                           *)
THEOREM InstallTypeCorrect == Spec => []TypeOK
BY AnyInvariant, PTL DEF AnyInv

(* Whatever fails, interrupts or terminates the installer: until the trap   *)
(* runs, what the project held is in the project or in the backup           *)
(* (install_generated_output.py:25-42).                                     *)
THEOREM NothingIsLost == Spec => []NothingLost
BY AnyInvariant, PTL DEF AnyInv

(* Exit status 0 means that the complete new output is installed            *)
(* (install_generated_output.py:35-42).                                     *)
THEOREM StatusIsTrue == Spec => []StatusTrue
<1>1. AnyInv => StatusTrue
    BY DEF AnyInv, StatusRight, StatusTrue
<1>. QED BY <1>1, AnyInvariant, PTL

LEMMA InstallInvariant == Spec => []InstallInv
<1>1. Init => InstallInv
    BY ExactInit DEF InstallInv, ExactInv, OutcomeExact
<1>. QED BY <1>1, StepKeepsInv, PTL DEF Spec

(* While only calls fail, however many: old and new output never mix, even  *)
(* after earlier runs that a signal cut short                               *)
(* (install_generated_output.py:26-39).                                     *)
THEOREM OutputIsNeverMixed == Spec => []NeverMixed
<1>1. InstallInv => NeverMixed
    BY ExactUnmixed DEF InstallInv, NeverMixed, Unmixed
<1>. QED BY <1>1, InstallInvariant, PTL

(* One failing call leaves all or nothing: the rollback cannot fail by      *)
(* itself (install_generated_output.py:25-42).                              *)
THEOREM AllOrNothingHolds == Spec => []AllOrNothing
<1>1. InstallInv => AllOrNothing
    BY DEF InstallInv, ExactInv, OutcomeExact, AllOrNothing
<1>. QED BY <1>1, InstallInvariant, PTL
===============================================================================
