---------------------------- MODULE SdkPreparation ----------------------------
(***************************************************************************)
(* The SDK the firmware is built with: prepare_ci_sdk.sh clones it without *)
(* its large files, prepare_sdk.py replaces the Git LFS pointers among the *)
(* archives the generated project selects, build_firmware.sh checks them   *)
(* and builds.  Each command may fail or be killed at every step; the user *)
(* may run any of them again, and may regenerate the project, which        *)
(* selects other archives, while one runs.                                 *)
(***************************************************************************)
EXTENDS Naturals

CONSTANTS
    Archives,           \* every archive a generated project may select
    InCommit,           \* those the pinned commit of the SDK has
    MaxFaults,          \* bound on failing steps
    MaxRegenerations    \* bound on changes of the inventory

ASSUME SdkAssumption ==
    /\ InCommit \subseteq Archives
    /\ MaxFaults \in Nat /\ MaxRegenerations \in Nat

VARIABLES
    dir,            \* the SDK's directory exists
    head,           \* what its HEAD resolves to: "none" or "pinned"
    tree,           \* each archive in it: "absent", "pointer", "object", or
                    \* "cut": being written, or left so by a command killed
    inventory,      \* the archives ble_scanner.cmake names
    cmd,            \* the command run last: "none", "ci", "prepare" or "build"
    pc,             \* its next step, or "idle"
    selected,       \* the inventory as it read it last
    todo, missing,  \* of those, the ones to look at, and the pointers found
    status,         \* its exit: "none" (running), "ok", "failed" or "refused"
    faults, regenerations

sdk     == <<dir, head, tree>>
look    == <<selected, todo, missing>>
command == <<cmd, pc, look, status>>
bounds  == <<faults, regenerations>>
vars    == <<sdk, inventory, command, bounds>>

NoFiles == [a \in Archives |-> "absent"]

Init ==
    /\ dir = FALSE /\ head = "none" /\ tree = NoFiles
    /\ inventory \in SUBSET Archives
    /\ cmd = "none" /\ pc = "idle" /\ status = "none"
    /\ selected = {} /\ todo = {} /\ missing = {}
    /\ faults = 0 /\ regenerations = 0

Goto(step) == pc' = step /\ UNCHANGED <<cmd, status>>
End(exit) ==
    /\ pc' = "idle" /\ status' = exit /\ UNCHANGED <<cmd, selected>>
    /\ todo' = {} /\ missing' = {}
Start(c, step) ==
    /\ pc = "idle"
    /\ cmd' = c /\ pc' = step /\ status' = "none"
    /\ UNCHANGED <<sdk, inventory, look, bounds>>

(* A file is replaced in place: it is there cut short before it is whole.   *)
Write(a, from, to) ==
    /\ tree[a] \in {from, "cut"}
    /\ tree' = [tree EXCEPT ![a] = IF tree[a] = from THEN "cut" ELSE to]

--------------------------------------------------------------------------------
(* prepare_ci_sdk.sh *)

DestinationTaken == dir

StartCi == ~DestinationTaken /\ Start("ci", "init")
RefuseCi ==
    /\ pc = "idle" /\ DestinationTaken
    /\ cmd' = "ci" /\ status' = "refused"
    /\ UNCHANGED <<sdk, inventory, pc, look, bounds>>

GitInit ==
    /\ pc = "init" /\ dir' = TRUE /\ Goto("fetch")
    /\ UNCHANGED <<head, tree, inventory, look, bounds>>
Fetch ==
    /\ pc = "fetch" /\ Goto("checkout")
    /\ UNCHANGED <<sdk, inventory, look, bounds>>
(* git writes the files one by one, HEAD at last; no large file is fetched. *)
CheckoutFile ==
    /\ pc = "checkout" /\ \E a \in InCommit : Write(a, "absent", "pointer")
    /\ UNCHANGED <<dir, head, inventory, command, bounds>>
Checkout ==
    /\ pc = "checkout" /\ \A a \in InCommit : tree[a] = "pointer"
    /\ head' = "pinned" /\ Goto("verify")
    /\ UNCHANGED <<dir, tree, inventory, look, bounds>>
Verify ==
    /\ pc = "verify"
    /\ IF head = "pinned" THEN Goto("read") /\ UNCHANGED look ELSE End("failed")
    /\ UNCHANGED <<sdk, inventory, bounds>>

--------------------------------------------------------------------------------
(* prepare_sdk.py, in mode "check" for the build and "fetch" otherwise *)
StartPrepare == Start("prepare", "read")

(* missing_lfs_objects: the inventory is read once, then each archive is    *)
(* opened.                                                                  *)
ReadInventory ==
    /\ pc \in {"read", "reread"}
    /\ selected' = inventory /\ todo' = inventory /\ missing' = {}
    /\ Goto(IF pc = "read" THEN "scan" ELSE "rescan")
    /\ UNCHANGED <<sdk, inventory, bounds>>

(* Faulty: an archive that is not there is passed over.                     *)
NeverLost(a) == FALSE
IsLost(a)    == tree[a] = "absent"
(* Faulty: the header is compared the wrong way round.                      *)
NoLfsHeader(a)  == tree[a] # "pointer"
HasLfsHeader(a) == tree[a] = "pointer"

LookAtArchive ==
    /\ pc \in {"scan", "rescan"}
    /\ \E a \in todo :
           \/ IsLost(a) /\ End("failed")
           \/ /\ ~IsLost(a) /\ todo' = todo \ {a}
              /\ missing' = missing \union (IF HasLfsHeader(a) THEN {a} ELSE {})
              /\ UNCHANGED <<cmd, pc, selected, status>>
    /\ UNCHANGED <<sdk, inventory, bounds>>

(* Faulty: the build fetches what is missing, or only warns of it.          *)
CheckEndsFetching ==
    /\ pc = "scan" /\ cmd = "build" /\ todo = {}
    /\ Goto(IF missing = {} THEN "link" ELSE "pull")
    /\ UNCHANGED <<sdk, inventory, look, bounds>>
CheckEndsWarning ==
    /\ pc = "scan" /\ cmd = "build" /\ todo = {} /\ Goto("link")
    /\ UNCHANGED <<sdk, inventory, look, bounds>>
CheckEnds ==
    /\ pc = "scan" /\ cmd = "build" /\ todo = {}
    /\ IF missing = {} THEN Goto("link") /\ UNCHANGED look ELSE End("failed")
    /\ UNCHANGED <<sdk, inventory, bounds>>
ScanEnds ==
    /\ pc = "scan" /\ cmd # "build" /\ todo = {}
    /\ IF missing = {} THEN End("ok") ELSE Goto("pull") /\ UNCHANGED look
    /\ UNCHANGED <<sdk, inventory, bounds>>

PullFile ==
    /\ pc = "pull" /\ \E a \in missing : Write(a, "pointer", "object")
    /\ UNCHANGED <<dir, head, inventory, command, bounds>>
PullEnds ==
    /\ pc = "pull" /\ \A a \in missing : tree[a] = "object"
    /\ Goto("reread")
    /\ UNCHANGED <<sdk, inventory, look, bounds>>

(* Faulty: Git's exit status is taken for the result.                       *)
RescanEndsTrusting ==
    /\ pc = "rescan" /\ End("ok")
    /\ UNCHANGED <<sdk, inventory, bounds>>
RescanEnds ==
    /\ pc = "rescan" /\ todo = {}
    /\ End(IF missing = {} THEN "ok" ELSE "failed")
    /\ UNCHANGED <<sdk, inventory, bounds>>

--------------------------------------------------------------------------------
(* build_firmware.sh *)
StartBuild == Start("build", "read")
Link ==
    /\ pc = "link" /\ End("ok")
    /\ UNCHANGED <<sdk, inventory, bounds>>

--------------------------------------------------------------------------------
(* A step fails, or the command is killed: what it did so far stays.        *)
Fault == faults < MaxFaults /\ faults' = faults + 1
StepFails ==
    /\ pc # "idle" /\ Fault /\ End("failed")
    /\ UNCHANGED <<sdk, inventory, regenerations>>
(* git lfs pull ends with success and leaves pointers (an exclude pattern). *)
PullLeavesPointers ==
    /\ pc = "pull" /\ \A a \in missing : tree[a] # "cut"
    /\ Fault /\ Goto("reread")
    /\ UNCHANGED <<sdk, inventory, look, regenerations>>

(* Only the user removes a directory that a preparation left behind.        *)
HalfWay == dir /\ head = "none"
RemoveDirectory ==
    /\ pc = "idle" /\ HalfWay
    /\ dir' = FALSE /\ head' = "none" /\ tree' = NoFiles /\ status' = "none"
    /\ UNCHANGED <<inventory, cmd, pc, look, bounds>>

(* make generate-firmware installs another inventory, whatever runs.        *)
Regenerate ==
    /\ regenerations < MaxRegenerations /\ regenerations' = regenerations + 1
    /\ inventory' \in SUBSET Archives
    /\ UNCHANGED <<sdk, command, faults>>

Step == \/ GitInit \/ Fetch \/ CheckoutFile \/ Checkout \/ Verify
        \/ ReadInventory \/ LookAtArchive \/ CheckEnds \/ ScanEnds
        \/ PullFile \/ PullEnds \/ RescanEnds \/ Link
(* What a user does until the SDK is ready.                                 *)
Retry == (~dir /\ StartCi) \/ RemoveDirectory \/ (head = "pinned" /\ StartPrepare)

Next == \/ Step \/ StartCi \/ RefuseCi \/ StartPrepare \/ StartBuild
        \/ StepFails \/ PullLeavesPointers \/ RemoveDirectory \/ Regenerate

Spec     == Init /\ [][Next]_vars
FairSpec == Spec /\ WF_vars(Step) /\ SF_vars(Retry)

--------------------------------------------------------------------------------
(* A build never comes to a step that writes: it runs with a read-only SDK, *)
(* too (docker.sh).                                                         *)
TypeOK ==
    /\ cmd = "build" => pc \in {"idle", "read", "scan", "link"}
    /\ dir \in BOOLEAN /\ head \in {"none", "pinned"}
    /\ tree \in [Archives -> {"absent", "pointer", "cut", "object"}]
    /\ inventory \subseteq Archives /\ selected \subseteq Archives
    /\ todo \subseteq selected /\ missing \subseteq selected
    /\ cmd \in {"none", "ci", "prepare", "build"}
    /\ status \in {"none", "ok", "failed", "refused"}

(* Neither absent nor a pointer.  That says as much as the header test can: *)
(* an archive whose writing was killed passes it.                           *)
Replaced(S) == \A a \in S : tree[a] \in {"cut", "object"}

(* When a command has ended with success, and while a build links, every    *)
(* archive that the inventory named when the command last read it is there  *)
(* and is not a pointer, whatever failed or was killed before, whatever git *)
(* lfs reported, and although the project may be regenerated between any    *)
(* two steps; where nothing failed or was killed it is an object; the CI    *)
(* preparation left the pinned commit                                       *)
(* (prepare_sdk.py:21-66, prepare_ci_sdk.sh:20-41, build_firmware.sh:22-28).*)
ReadyTrue ==
    (pc = "idle" /\ status = "ok") \/ pc = "link" =>
        /\ Replaced(selected)
        /\ faults = 0 => \A a \in selected : tree[a] = "object"
        /\ cmd = "ci" => head = "pinned"

(* Once failures and regenerations are over, a user who removes what a      *)
(* failed clone left, clones and runs make prepare-sdk again and again gets *)
(* an SDK with no archive absent and none a pointer, provided that the      *)
(* commit has the archives (prepare_ci_sdk.sh, prepare_sdk.py:33-66).       *)
RetryConverges == <>[](inventory \subseteq InCommit) => <>[]Replaced(inventory)

===============================================================================
