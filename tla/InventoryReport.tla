-------------------------- MODULE InventoryReport --------------------------
(***************************************************************************)
(* The inventory report: the agent lists what is installed, then what is   *)
(* available, sends the checksum of it, and the inventory itself if the    *)
(* service asks for it. The API for VM inventories is tried first in every *)
(* attempt; a failed precondition makes the attempt fall back to the       *)
(* legacy API, which knows fewer kinds of packages. Each API has a record  *)
(* of its own.                                                             *)
(***************************************************************************)
EXTENDS Integers

CONSTANTS
    Entries,     \* packages, patches and updates, with their versions
    Kind,        \* Kind[e]: the package manager of e
    OldMachines  \* what may be on the machine at first

APIs == {"vm", "legacy"}
Lists == {"none", "installed", "available"}

ASSUME InventoryAssumption ==
    OldMachines \subseteq [Entries -> Lists] /\ DOMAIN Kind = Entries

VARIABLES
    machine,   \* machine[e]: the list that e belongs on
    ipc,       \* where the report is
    snapshot,  \* the inventory it reports
    record,    \* record[a]: the inventory the service has under API a
    vmEnabled, \* whether the service takes VM inventories of this machine
    answered   \* the API that answered last in this report

inventoryVars == <<machine, ipc, snapshot, record, vmEnabled, answered>>

Inventory(in, av) == [known |-> TRUE, installed |-> in, available |-> av]
NoInventory == [known |-> FALSE, installed |-> {}, available |-> {}]

InventoryInit ==
    /\ machine \in OldMachines
    /\ ipc = "idle" /\ snapshot = NoInventory
    /\ record = [a \in APIs |-> NoInventory]
    /\ vmEnabled = TRUE /\ answered = "vm"

-----------------------------------------------------------------------------
(* Get: each listing that fails leaves the packages of its manager out. *)

getInstalledPackages(failed) ==
    {e \in Entries : machine[e] = "installed" /\ Kind[e] \notin failed}

getPackageUpdates(failed) ==
    {e \in Entries : machine[e] = "available" /\ Kind[e] \notin failed}

Kinds == {Kind[e] : e \in Entries}

ReportInventory ==
    /\ ipc = "idle"
    /\ \E failed \in SUBSET Kinds : snapshot' = Inventory(getInstalledPackages(failed), {})
    /\ ipc' = "updates"
    /\ UNCHANGED <<machine, record, vmEnabled, answered>>

GetUpdates ==
    /\ ipc = "updates"
    /\ \E failed \in SUBSET Kinds :
          snapshot' = [snapshot EXCEPT !.available = getPackageUpdates(failed)]
    /\ ipc' = "checksum"
    /\ UNCHANGED <<machine, record, vmEnabled, answered>>

-----------------------------------------------------------------------------
(* The formats of the two APIs. An item tells what it is, not its list. *)

formatPkgsToInventoryItems(pkgs) == {e \in pkgs : Kind[e] \notin {"gem", "pip"}}

formatPackages(pkgs) ==
    {e \in pkgs : Kind[e] \notin {"gem", "pip", "snap", "chocolatey", "winget"}}

formatVMInventory(inv) ==
    Inventory(formatPkgsToInventoryItems(inv.installed), formatPkgsToInventoryItems(inv.available))

formatInventory(inv) == Inventory(formatPackages(inv.installed), formatPackages(inv.available))

Format(a, inv) == IF a = "vm" THEN formatVMInventory(inv) ELSE formatInventory(inv)

\* The checksum is over the sorted items of both lists together.
computeStableFingerprint(inv) == inv.installed \cup inv.available

-----------------------------------------------------------------------------
(* report *)

\* What the service answers to a checksum.
WantsFull(a) ==
    \/ ~record[a].known
    \/ computeStableFingerprint(record[a]) # computeStableFingerprint(Format(a, snapshot))

\* Variant of shouldReportFullInventory that forgets the legacy API's answer.
shouldReportFullVM(a) == a = "vm" /\ WantsFull(a)

shouldReportFullInventory(a) == a \in APIs /\ WantsFull(a)

\* shouldFallbackToLegacyAPI: the API that an attempt reaches.
Reached == IF vmEnabled THEN "vm" ELSE "legacy"

IEnds == ipc' = "idle" /\ snapshot' = NoInventory /\ answered' = "vm"

reportChecksum ==
    /\ ipc = "checksum"
    /\ answered' = Reached
    /\ ipc' = IF shouldReportFullInventory(Reached) THEN "full" ELSE "reported"
    /\ UNCHANGED <<machine, snapshot, record, vmEnabled>>

\* One attempt of the full report; its answer may be lost, and it is made again.
reportFull ==
    /\ ipc = "full"
    /\ record' = [record EXCEPT ![Reached] = Format(Reached, snapshot)]
    /\ \/ ipc' = "reported" /\ answered' = Reached
       \/ UNCHANGED <<ipc, answered>>
    /\ UNCHANGED <<machine, snapshot, vmEnabled>>

\* An error that is not retried, or the time for retries is over.
ReportError ==
    /\ ipc \in {"checksum", "full"}
    /\ IEnds
    /\ UNCHANGED <<machine, record, vmEnabled>>

ReportDone ==
    /\ ipc = "reported"
    /\ IEnds
    /\ UNCHANGED <<machine, record, vmEnabled>>

InventoryNext == GetUpdates \/ reportChecksum \/ reportFull \/ ReportError \/ ReportDone

InventoryCrash ==
    /\ ipc # "idle"
    /\ IEnds
    /\ UNCHANGED <<machine, record, vmEnabled>>

\* Packages come and go, patches that were available are installed.
MachineChanges ==
    /\ machine' \in {[machine EXCEPT ![e] = l] : e \in Entries, l \in Lists}
    /\ UNCHANGED <<ipc, snapshot, record, vmEnabled, answered>>

\* The service begins, or ceases, to take VM inventories.
ServiceSwitches ==
    /\ vmEnabled' = ~vmEnabled
    /\ UNCHANGED <<machine, ipc, snapshot, record, answered>>

-----------------------------------------------------------------------------
(***************************************************************************)
(* A report that met no error has told the service: under the API that     *)
(* answered last, the service's record has every item that this API knows  *)
(* of the listed packages, no more and no less, even if attempts were lost *)
(* and the service changed APIs between the checksum and the inventory. It *)
(* says nothing of the list an item is on: the checksum does not tell an   *)
(* available update from an installed one.                                 *)
(***************************************************************************)
InventoryKnown ==
    ipc = "reported" =>
        /\ record[answered].known
        /\ computeStableFingerprint(record[answered])
              = computeStableFingerprint(Format(answered, snapshot))
=============================================================================
