-------------------------- MODULE SdkPreparationProofs --------------------------
(***************************************************************************)
(* What a success of the SDK's commands is worth, for any archives and     *)
(* however many steps fail, commands are retried and projects are          *)
(* regenerated.                                                            *)
(*                                                                         *)
(* ReadyTrue is not inductive alone.  The invariant also says what a       *)
(* command half-way knows: that the CI preparation has verified its commit *)
(* by the time it reads the inventory, that only a build links, that what  *)
(* was looked at is there and is no pointer or is on the list, and that    *)
(* without a fault only the files being written are cut.                   *)
(***************************************************************************)
EXTENDS SdkPreparation, TLAPS

Verified ==
    cmd = "ci" /\ pc \in {"read", "scan", "pull", "reread", "rescan"} => head = "pinned"
OnlyBuildLinks == pc = "link" => cmd = "build"
LookedAt ==
    pc \in {"scan", "rescan"} =>
        \A a \in selected \ todo : tree[a] \in {"cut", "object"} \/ a \in missing
BeingWritten == IF pc = "checkout" THEN InCommit ELSE IF pc = "pull" THEN missing ELSE {}
CutByFault   == faults = 0 => \A a \in Archives : tree[a] = "cut" => a \in BeingWritten

SdkInv == /\ TypeOK /\ faults \in Nat
          /\ Verified /\ OnlyBuildLinks /\ LookedAt /\ CutByFault /\ ReadyTrue

LEMMA SdkInit == Init => SdkInv
<1> SUFFICES ASSUME Init PROVE SdkInv
  OBVIOUS
<1>1. TypeOK /\ faults \in Nat
  BY DEF Init, NoFiles, TypeOK
<1>2. CutByFault
  BY DEF Init, NoFiles, CutByFault
<1>3. Verified /\ OnlyBuildLinks /\ LookedAt /\ ReadyTrue
  BY DEF Init, Verified, OnlyBuildLinks, LookedAt, ReadyTrue
<1> QED BY <1>1, <1>2, <1>3 DEF SdkInv

(* A look that has come to its end and found no pointer.                    *)
LEMMA NothingMissing ==
    ASSUME SdkInv, pc \in {"scan", "rescan"}, todo = {}, missing = {}
    PROVE  /\ Replaced(selected)
           /\ faults = 0 => \A a \in selected : tree[a] = "object"
<1>1. Replaced(selected)
  BY DEF SdkInv, LookedAt, Replaced
<1>2. faults = 0 => \A a \in Archives : tree[a] # "cut"
  BY DEF SdkInv, CutByFault, BeingWritten
<1> QED BY <1>1, <1>2 DEF SdkInv, TypeOK, Replaced

(* Writing a file in place leaves the others as they are.                   *)
LEMMA WriteOne ==
    ASSUME TypeOK, NEW a \in Archives, NEW from, NEW to \in {"pointer", "object"},
           Write(a, from, to)
    PROVE  /\ tree' \in [Archives -> {"absent", "pointer", "cut", "object"}]
           /\ \A b \in Archives : b # a => tree'[b] = tree[b]
BY DEF TypeOK, Write

--------------------------------------------------------------------------------
LEMMA SdkStep == SdkInv /\ [Next]_vars => SdkInv'
<1> SUFFICES ASSUME SdkInv, [Next]_vars PROVE SdkInv'
  OBVIOUS
<1> USE SdkAssumption
    DEF SdkInv, TypeOK, Verified, OnlyBuildLinks, LookedAt, CutByFault, BeingWritten,
        ReadyTrue, Goto, End
<1>1. CASE StartCi \/ StartPrepare \/ StartBuild
  BY <1>1 DEF StartCi, StartPrepare, StartBuild, Start, sdk, look, bounds
<1>2. CASE RefuseCi
  BY <1>2 DEF RefuseCi, sdk, look, bounds
<1>3. CASE GitInit
  BY <1>3 DEF GitInit, look, bounds
<1>4. CASE Fetch
  BY <1>4 DEF Fetch, sdk, look, bounds
<1>5. CASE CheckoutFile
  <2>1. PICK a \in InCommit : Write(a, "absent", "pointer")
    BY <1>5 DEF CheckoutFile
  <2>2. /\ tree' \in [Archives -> {"absent", "pointer", "cut", "object"}]
        /\ \A b \in Archives : b # a => tree'[b] = tree[b]
    BY <2>1, WriteOne
  <2> QED BY <1>5, <2>2 DEF CheckoutFile, command, look, bounds
<1>6. CASE Checkout
  BY <1>6 DEF Checkout, look, bounds
<1>7. CASE Verify
  BY <1>7 DEF Verify, sdk, look, bounds
<1>8. CASE ReadInventory
  BY <1>8 DEF ReadInventory, sdk, bounds
<1>9. CASE LookAtArchive
  BY <1>9 DEF LookAtArchive, IsLost, HasLfsHeader, sdk, bounds
<1>10. CASE CheckEnds
  BY <1>10, NothingMissing DEF CheckEnds, Replaced, sdk, look, bounds
<1>11. CASE ScanEnds
  BY <1>11, NothingMissing DEF ScanEnds, Replaced, sdk, look, bounds
<1>12. CASE PullFile
  <2>1. PICK a \in missing : Write(a, "pointer", "object")
    BY <1>12 DEF PullFile
  <2>2. /\ tree' \in [Archives -> {"absent", "pointer", "cut", "object"}]
        /\ \A b \in Archives : b # a => tree'[b] = tree[b]
    BY <2>1, WriteOne
  <2> QED BY <1>12, <2>2 DEF PullFile, command, look, bounds
<1>13. CASE PullEnds
  BY <1>13 DEF PullEnds, sdk, look, bounds
<1>14. CASE RescanEnds
  BY <1>14, NothingMissing DEF RescanEnds, Replaced, sdk, bounds
<1>15. CASE Link
  BY <1>15 DEF Link, Replaced, sdk, bounds
<1>16. CASE StepFails \/ PullLeavesPointers
  BY <1>16 DEF StepFails, PullLeavesPointers, Fault, sdk, look
<1>17. CASE RemoveDirectory
  BY <1>17 DEF RemoveDirectory, HalfWay, NoFiles, look, bounds
<1>18. CASE Regenerate
  BY <1>18 DEF Regenerate, Replaced, sdk, command, look
<1>19. CASE UNCHANGED vars
  BY <1>19 DEF vars, Replaced, sdk, command, look, bounds
<1> QED BY <1>1, <1>2, <1>3, <1>4, <1>5, <1>6, <1>7, <1>8, <1>9, <1>10, <1>11, <1>12, <1>13,
           <1>14, <1>15, <1>16, <1>17, <1>18, <1>19 DEF Next, Step

LEMMA SdkInvariant == Spec => []SdkInv
BY SdkInit, SdkStep, PTL DEF Spec

--------------------------------------------------------------------------------
(* Archives stay absent, pointers, cut or objects, and a build never comes  *)
(* to a step that writes (build_firmware.sh:22-28, prepare_sdk.py:40-48).   *)
THEOREM SdkTypeCorrect == Spec => []TypeOK
BY SdkInvariant, PTL DEF SdkInv

(* When a command has ended with success, and while a build links, every    *)
(* archive of the inventory it read last is there and is not a pointer,     *)
(* whatever failed before and although the project may be regenerated       *)
(* between any two steps; it is an object where nothing failed; the CI      *)
(* preparation left the pinned commit                                       *)
(* (prepare_sdk.py:21-66, prepare_ci_sdk.sh:20-41, build_firmware.sh:22-28).*)
THEOREM SuccessIsTrue == Spec => []ReadyTrue
BY SdkInvariant, PTL DEF SdkInv

===============================================================================
