------------------------------- MODULE PciPnp -------------------------------
(***************************************************************************)
(* Plug and play in the PCI bus driver (tiamoPCI/source: pci.state.cpp,    *)
(* pci.fdo.cpp, pci.pdo.cpp, pci.enum.cpp).  A bus has a functional device *)
(* object (FDO); each function found on it gets a physical device object   *)
(* (PDO) in the bus's list of children.  The plug-and-play manager starts, *)
(* stops, queries and removes them, and asks the bus to look again for its *)
(* devices, which come and go at any time, also while the bus is scanned.  *)
(* The driver keeps a state per device object and a table says which       *)
(* transitions may happen: the others end in an ASSERT or a breakpoint.    *)
(*                                                                         *)
(* The manager is modelled as the order in which it sends its requests: it *)
(* finishes one before it sends the next, asks before it stops or removes  *)
(* and cancels what was refused, removes children before their bus, and    *)
(* tells a started device that has gone so before it removes it.           *)
(***************************************************************************)
EXTENDS Naturals, FiniteSets

CONSTANTS
  Slot,    \* the functions of the bus
  Device,  \* what may sit there: vendor, device and revision
  Pdo,     \* the identities of device objects, which may be used again
  none     \* an empty slot

ASSUME PnpAssumption == none \notin Device /\ IsFiniteSet(Pdo) /\ IsFiniteSet(Slot)

VARIABLES
  bus,            \* what sits in each slot
  fdo,            \* DeviceState and TentativeNextState of the bus, and whether
  pdo,            \*   no check of theirs has failed; and those of each PDO
  children,       \* ChildPdoList
  function,       \* the slot of each PDO, and the device it was created for
  NotPresent,
  ReportedMissing,
  busNode,        \* what the manager last did with the bus,
  node,           \*   and with each of the PDOs it knows
  reported,       \* the children in the last answer to a query for relations
  unscanned,      \* the slots that PciScanBus has still to look at
  scanning,       \* whether a query for relations is under way
  changed         \* whether the slots have changed since the last query began, if any did

bookVars == <<function, NotPresent, ReportedMissing>>
managerVars == <<busNode, node, reported>>
scanVars == <<unscanned, scanning, changed>>
pnpVars == <<bus, fdo, pdo, children, bookVars, managerVars, scanVars>>

DeviceState ==
  {"NotStarted", "Started", "Deleted", "Stopped", "SurpriseRemoved", "SynchronizedOperation"}

-----------------------------------------------------------------------------
(* Transitions of a device object.                                         *)

Initialized == [state |-> "NotStarted", next |-> "NotStarted", ok |-> TRUE]

\* PnpStateTransitionArray: the states each state may be entered from, ...
EnteredFrom ==
  [NotStarted |-> {"Started", "Stopped"},
   Started |-> {"NotStarted", "Stopped"},
   Deleted |-> {"NotStarted", "Started", "SurpriseRemoved"},
   Stopped |-> {"Started"},
   SurpriseRemoved |-> {"Started", "Stopped"},
   SynchronizedOperation |-> {"NotStarted", "Started", "Stopped"}]

\* ... and those it is refused to without STATUS_FAIL_CHECK.
RefusedFrom(new) ==
  CASE new \in {"Stopped", "SurpriseRemoved"} -> {"NotStarted"}
    [] new = "SynchronizedOperation" -> {"Deleted", "SurpriseRemoved"}
    [] OTHER -> {}

Begins(x, new) == x.state \in EnteredFrom[new]

Begin(x, new) ==
  [state |-> x.state,
   next |-> IF Begins(x, new) THEN new ELSE x.next,
   ok |-> x.ok /\ x.next = x.state /\ x.state \in EnteredFrom[new] \union RefusedFrom(new)]

Commit(x, new) ==
  [state |-> new, next |-> x.next, ok |-> x.ok /\ x.next = new /\ new # "SynchronizedOperation"]

\* PnpStateCancelArray says which states there may be no transition to.
Cancel(x, new) ==
  [state |-> x.state, next |-> x.state,
   ok |-> x.ok /\ IF x.next = x.state THEN new \in {"NotStarted", "Deleted", "Stopped"} ELSE x.next = new]

IsInTransitionTo(x, new) == x.next # x.state /\ x.next = new

-----------------------------------------------------------------------------
PnpInit ==
  /\ bus = [s \in Slot |-> none]
  /\ fdo = Initialized
  /\ pdo = [p \in Pdo |-> Initialized]
  /\ children = {}
  /\ function = [p \in Pdo |-> none]
  /\ NotPresent = [p \in Pdo |-> FALSE]
  /\ ReportedMissing = [p \in Pdo |-> FALSE]
  /\ busNode = "none"
  /\ node = [p \in Pdo |-> "none"]
  /\ reported = {}
  /\ unscanned = {}
  /\ scanning = FALSE
  /\ changed = TRUE

\* A card is plugged in or pulled out.
HardwareChanges(s) ==
  /\ \E d \in Device \union {none} : d # bus[s] /\ bus' = [bus EXCEPT ![s] = d]
  /\ changed' = TRUE
  /\ UNCHANGED <<fdo, pdo, children, bookVars, managerVars, unscanned, scanning>>

-----------------------------------------------------------------------------
(* Requests to the bus.                                                    *)

Busy == {"queried", "refused", "stopQueried", "stopRefused", "stopped"}

BusGoes(from, to) ==
  /\ ~scanning /\ busNode \in from /\ busNode' = to
  /\ UNCHANGED <<bus, bookVars, node, reported, scanVars>>

\* The manager finds the bus; its FDO is created.
AddDevice ==
  /\ BusGoes({"none"}, "added")
  /\ fdo' = Initialized
  /\ UNCHANGED <<pdo, children>>

FdoStart ==
  /\ BusGoes({"added"}, "started")
  /\ fdo' = Commit(Begin(fdo, "Started"), "Started")
  /\ UNCHANGED <<pdo, children>>

\* The lower driver has failed, or the arbiters could not be initialised.
FdoStartFails ==
  /\ BusGoes({"added"}, "failed")
  /\ fdo' \in {fdo, Cancel(Begin(fdo, "Started"), "Started")}
  /\ UNCHANGED <<pdo, children>>

\* The children have been asked before; one that a legacy driver uses is in the way.
FdoQueryRemove ==
  /\ \A p \in children : node[p] \in {"idle", "queried"}
  /\ \/ BusGoes({"added", "started"}, "queried") /\ fdo' = Begin(fdo, "Deleted")
     \/ BusGoes({"added", "started"}, "refused") /\ UNCHANGED fdo
  /\ UNCHANGED <<pdo, children>>

FdoCancelRemove ==
  /\ BusGoes({"queried", "refused"}, IF fdo.state = "Started" THEN "started" ELSE "added")
  /\ fdo' = Cancel(fdo, "Deleted")
  /\ UNCHANGED <<pdo, children>>

\* A bus never agrees to stop, but begins the transition.
FdoQueryStop ==
  /\ BusGoes({"started"}, "stopRefused")
  /\ fdo' = Begin(fdo, "Stopped")
  /\ UNCHANGED <<pdo, children>>

FdoCancelStop ==
  /\ BusGoes({"stopRefused"}, "started")
  /\ fdo' = Cancel(fdo, "Stopped")
  /\ UNCHANGED <<pdo, children>>

\* The bus itself has gone; the manager begins with its children.
BusVanishes ==
  /\ BusGoes({"started"}, "vanishing")
  /\ \A p \in children : node[p] \notin Busy
  /\ UNCHANGED <<fdo, pdo, children>>

FdoSurpriseRemoval ==
  /\ \A p \in children : node[p] \in {"idle", "surprised"}
  /\ BusGoes({"vanishing"}, "surprised")
  /\ fdo' = Begin(Commit(Begin(fdo, "SurpriseRemoved"), "SurpriseRemoved"), "Deleted")
  /\ UNCHANGED <<pdo, children>>

\* PciPdoDestroy: what is left of the extensions does not matter.
Destroy(gone) ==
  LET Freed(f, value) == [p \in Pdo |-> IF p \in gone THEN value ELSE f[p]]
  IN  /\ children' = children \ gone
      /\ function' = Freed(function, none)
      /\ NotPresent' = Freed(NotPresent, FALSE)
      /\ ReportedMissing' = Freed(ReportedMissing, FALSE)

\* The children the bus still has are destroyed with it.
FdoRemove ==
  /\ ~scanning /\ busNode \in {"queried", "failed", "surprised"}
  /\ \A p \in children : node[p] = "idle"
  /\ fdo' = Commit(IF IsInTransitionTo(fdo, "Deleted") THEN fdo ELSE Begin(fdo, "Deleted"), "Deleted")
  /\ pdo' = [p \in Pdo |-> [Initialized EXCEPT !.ok = pdo[p].ok]]
  /\ Destroy(children)
  /\ busNode' = "none"
  /\ node' = [p \in Pdo |-> "none"]
  /\ reported' = {}
  /\ changed' = TRUE
  /\ UNCHANGED <<bus, unscanned, scanning>>

-----------------------------------------------------------------------------
(* Looking for devices: PciQueryDeviceRelations and PciScanBus.            *)

\* Slip: the children are not taken for gone.
QueryRelationsOnTop ==
  /\ ~scanning /\ busNode = "started"
  /\ \A p \in children : node[p] \notin Busy
  /\ Cardinality(Pdo \ children) >= Cardinality(Slot)
  /\ scanning' = TRUE
  /\ fdo' = Begin(fdo, "SynchronizedOperation")
  /\ unscanned' = Slot
  /\ changed' = FALSE
  /\ UNCHANGED <<bus, pdo, children, bookVars, managerVars>>

\* All children are taken for gone.  (Identities are bounded: there must be
\* enough for what may be found.)
QueryRelations ==
  /\ ~scanning /\ busNode = "started"
  /\ \A p \in children : node[p] \notin Busy
  /\ Cardinality(Pdo \ children) >= Cardinality(Slot)
  /\ scanning' = TRUE
  /\ fdo' = Begin(fdo, "SynchronizedOperation")
  /\ NotPresent' = [p \in Pdo |-> p \in children \/ NotPresent[p]]
  /\ unscanned' = Slot
  /\ changed' = FALSE
  /\ UNCHANGED <<bus, pdo, children, function, ReportedMissing, managerVars>>

\* PciFindPdoByFunction.
Found(s) == {p \in children : ~ReportedMissing[p] /\ function[p] = <<s, bus[s]>>}

ScanEmpty(s) ==
  /\ scanning /\ s \in unscanned /\ bus[s] = none
  /\ unscanned' = unscanned \ {s}
  /\ UNCHANGED <<bus, fdo, pdo, children, bookVars, managerVars, scanning, changed>>

ScanFinds(s) ==
  /\ scanning /\ s \in unscanned /\ bus[s] # none
  /\ \E p \in Found(s) :
       /\ NotPresent' = [NotPresent EXCEPT ![p] = FALSE]
       /\ pdo' = [pdo EXCEPT ![p].ok = @ /\ pdo[p].state # "Deleted"]
  /\ unscanned' = unscanned \ {s}
  /\ UNCHANGED <<bus, fdo, children, function, ReportedMissing, managerVars, scanning, changed>>

\* Slip: an empty slot is taken for a device.
ScanCreatesAnyway(s) ==
  /\ scanning /\ s \in unscanned /\ Found(s) = {}
  /\ \E p \in Pdo \ children :
       /\ children' = children \union {p}
       /\ function' = [function EXCEPT ![p] = <<s, bus[s]>>]
       /\ UNCHANGED <<pdo, NotPresent, ReportedMissing>>
  /\ unscanned' = unscanned \ {s}
  /\ UNCHANGED <<bus, fdo, managerVars, scanning, changed>>

\* PciPdoCreate clears the extension.
ScanCreates(s) ==
  /\ scanning /\ s \in unscanned /\ bus[s] # none /\ Found(s) = {}
  /\ \E p \in Pdo \ children :
       /\ children' = children \union {p}
       /\ function' = [function EXCEPT ![p] = <<s, bus[s]>>]
       /\ pdo' = [pdo EXCEPT ![p] = Initialized]
       /\ NotPresent' = [NotPresent EXCEPT ![p] = FALSE]
       /\ ReportedMissing' = [ReportedMissing EXCEPT ![p] = FALSE]
  /\ unscanned' = unscanned \ {s}
  /\ UNCHANGED <<bus, fdo, managerVars, scanning, changed>>

\* Who was not found is missing, the others are reported; the manager gets to
\* know the new ones.
ReportRelations ==
  LET here == {p \in children : ~NotPresent[p]}
  IN  /\ scanning /\ unscanned = {}
      /\ scanning' = FALSE
      /\ ReportedMissing' = [p \in Pdo |-> ReportedMissing[p] \/ p \in children \ here]
      /\ reported' = here
      /\ node' = [p \in Pdo |-> IF p \in here /\ node[p] = "none" THEN "idle" ELSE node[p]]
      /\ fdo' = Cancel(fdo, "SynchronizedOperation")
      /\ UNCHANGED <<bus, pdo, children, function, NotPresent, busNode, unscanned, changed>>

-----------------------------------------------------------------------------
(* Requests to a child.                                                    *)

Goes(p, from, to) ==
  /\ ~scanning /\ node[p] \in from /\ node' = [node EXCEPT ![p] = to]
  /\ UNCHANGED <<bus, fdo, function, NotPresent, ReportedMissing, busNode, scanVars>>

\* The extension becomes x; the child stays what it is otherwise.
Becomes(p, x) == pdo' = [pdo EXCEPT ![p] = x] /\ UNCHANGED <<children, reported>>

InUse(p) == busNode = "started" /\ p \in reported

PdoStart(p) ==
  /\ InUse(p) /\ Goes(p, {"idle", "stopped"}, "started")
  /\ Becomes(p, Commit(Begin(pdo[p], "Started"), "Started"))

\* The device could not be powered or set up, or a driver above the PDO
\* failed; one that had been stopped is then treated as if it had gone.
PdoStartFails(p) ==
  /\ InUse(p)
  /\ Goes(p, {"idle", "stopped"}, IF node[p] = "idle" THEN "failed" ELSE "lost")
  /\ \/ Becomes(p, Cancel(Begin(pdo[p], "Started"), "Started"))
     \/ Becomes(p, Commit(Begin(pdo[p], "Started"), "Started"))

PdoQueryRemove(p) ==
  /\ InUse(p)
  /\ \/ /\ Goes(p, {"idle", "started"}, "queried")
        /\ Becomes(p, IF pdo[p].state = "NotStarted" THEN pdo[p] ELSE Begin(pdo[p], "NotStarted"))
     \/ Goes(p, {"idle", "started"}, "refused") /\ Becomes(p, pdo[p])

PdoCancelRemove(p) ==
  /\ Goes(p, {"queried", "refused"}, IF pdo[p].state = "Started" THEN "started" ELSE "idle")
  /\ Becomes(p, Cancel(pdo[p], "NotStarted"))

PdoQueryStop(p) ==
  /\ InUse(p)
  /\ \/ Goes(p, {"started"}, "stopQueried") /\ Becomes(p, Begin(pdo[p], "Stopped"))
     \/ Goes(p, {"started"}, "stopRefused") /\ Becomes(p, pdo[p])

\* Slip: the transition is not committed.
PdoStopOnly(p) ==
  /\ Goes(p, {"stopQueried"}, "stopped")
  /\ Becomes(p, pdo[p])

PdoStop(p) ==
  /\ Goes(p, {"stopQueried"}, "stopped")
  /\ Becomes(p, Commit(pdo[p], "Stopped"))

PdoCancelStop(p) ==
  /\ Goes(p, {"stopQueried", "stopRefused"}, "started")
  /\ Becomes(p, Cancel(pdo[p], "Stopped"))

\* The device has gone, or the bus with it, or it could not be started again.
PdoSurpriseRemoval(p) ==
  /\ \/ Goes(p, {"started"}, "surprised") /\ (p \notin reported \/ busNode = "vanishing")
     \/ Goes(p, {"lost"}, "surprised")
  /\ Becomes(p, IF ReportedMissing[p]
                  THEN Commit(Begin(pdo[p], "SurpriseRemoved"), "SurpriseRemoved")
                  ELSE Begin(pdo[p], "NotStarted"))

\* Slip: a device that was started without being asked stays started.
RemovedIfAsked(x) ==
  IF IsInTransitionTo(x, "NotStarted") THEN Commit(x, "NotStarted") ELSE x

\* The state in which a removed device is left.
Removed(x) ==
  LET y == IF ~IsInTransitionTo(x, "NotStarted") /\ x.state = "Started" THEN Begin(x, "NotStarted") ELSE x
  IN  IF IsInTransitionTo(y, "NotStarted") THEN Commit(y, "NotStarted") ELSE y

\* The manager removes what has agreed, failed or gone.
MayRemove(p) ==
  \/ node[p] \in {"queried", "failed", "surprised"}
  \/ node[p] = "idle" /\ p \notin reported

\* Slip: every PDO is deleted.
DeletesAny(p) == TRUE

\* Slip: only a PDO whose device was started is deleted.
DeletesSurpriseRemoved(p) == ReportedMissing[p] /\ pdo[p].state = "SurpriseRemoved"

Deletes(p) == ReportedMissing[p]

PdoRemove(p) ==
  /\ ~scanning /\ MayRemove(p)
  /\ node' = [node EXCEPT ![p] = IF p \in reported THEN "idle" ELSE "none"]
  /\ IF Deletes(p)
       THEN /\ pdo' = [pdo EXCEPT ![p] = [Initialized EXCEPT !.ok = Begin(Removed(pdo[p]), "Deleted").ok]]
            /\ Destroy({p})
       ELSE /\ pdo' = [pdo EXCEPT ![p] = Removed(@)]
            /\ UNCHANGED <<children, bookVars>>
  /\ UNCHANGED <<bus, fdo, busNode, reported, scanVars>>

-----------------------------------------------------------------------------
PnpNext ==
  \/ \E s \in Slot : HardwareChanges(s)
  \/ AddDevice \/ FdoStart \/ FdoStartFails \/ FdoQueryRemove \/ FdoCancelRemove
  \/ FdoQueryStop \/ FdoCancelStop \/ BusVanishes \/ FdoSurpriseRemoval \/ FdoRemove
  \/ QueryRelations
  \/ \E s \in Slot : ScanEmpty(s) \/ ScanFinds(s) \/ ScanCreates(s)
  \/ ReportRelations
  \/ \E p \in Pdo :
       \/ PdoStart(p) \/ PdoStartFails(p) \/ PdoQueryRemove(p) \/ PdoCancelRemove(p)
       \/ PdoQueryStop(p) \/ PdoStop(p) \/ PdoCancelStop(p)
       \/ PdoSurpriseRemoval(p) \/ PdoRemove(p)

\* A query for relations is worked off, and the manager removes, in the end,
\* what has gone.
Scans == ReportRelations \/ \E s \in Slot : ScanEmpty(s) \/ ScanFinds(s) \/ ScanCreates(s)

PnpFairness ==
  /\ WF_pnpVars(Scans)
  /\ \A p \in Pdo : SF_pnpVars(PdoSurpriseRemoval(p)) /\ SF_pnpVars(PdoRemove(p))

PnpSpec == PnpInit /\ [][PnpNext]_pnpVars /\ PnpFairness

-----------------------------------------------------------------------------
(* Properties.                                                             *)

Extension == [state : DeviceState, next : DeviceState, ok : BOOLEAN]

\* Type invariant.
PnpTypeOK ==
  /\ bus \in [Slot -> Device \union {none}]
  /\ fdo \in Extension /\ pdo \in [Pdo -> Extension]
  /\ children \subseteq Pdo /\ reported \subseteq Pdo
  /\ function \in [Pdo -> (Slot \X Device) \union {none}]
  /\ NotPresent \in [Pdo -> BOOLEAN] /\ ReportedMissing \in [Pdo -> BOOLEAN]
  /\ busNode \in {"none", "added", "started", "queried", "refused", "stopRefused", "failed",
                  "vanishing", "surprised"}
  /\ node \in [Pdo -> {"none", "idle", "started", "failed", "lost", "surprised"} \union Busy]
  /\ unscanned \subseteq Slot /\ scanning \in BOOLEAN /\ changed \in BOOLEAN

\* Whatever the manager asks for, in whatever order it may, every transition
\* is one the table knows: no ASSERT of pci.state.cpp fails and no DbgBreakPoint
\* is reached, for the bus or for a child.
NoCheckFails == fdo.ok /\ \A p \in Pdo : pdo[p].ok

\* The state the driver keeps is the one the manager believes the device in.
StateOf(n) ==
  CASE n \in {"none", "idle"} -> {"NotStarted"}
    [] n \in {"started", "stopQueried", "stopRefused"} -> {"Started"}
    [] n \in {"queried", "refused", "failed"} -> {"NotStarted", "Started"}
    [] n = "stopped" -> {"Stopped"}
    [] n = "lost" -> {"Stopped", "Started"}
    [] OTHER -> {"SurpriseRemoved", "Stopped", "Started"}

StatesAgree ==
  \A p \in children :
    /\ pdo[p].state \in StateOf(node[p])
    /\ node[p] \in {"idle", "started", "stopped"} => pdo[p].next = pdo[p].state

\* The manager sends no request to a PDO that was destroyed: who it knows is a
\* child of the bus (pci.pdo.cpp:309: "we can delete the device if and only if
\* we reported this device as missing").
KnownPdosExist == \A p \in Pdo : node[p] # "none" => p \in children

\* If nothing was plugged in or out since the query began, its answer is the
\* bus: one PDO for each device in each slot, and no other, however often
\* devices were exchanged before and however late old PDOs are removed.
ReportsTheBus ==
  busNode = "started" /\ ~scanning /\ ~changed =>
    /\ \A p \in reported : function[p] = <<function[p][1], bus[function[p][1]]>>
    /\ \A s \in Slot : bus[s] # none => \E p \in reported : function[p] = <<s, bus[s]>>
    /\ \A p, q \in reported : function[p][1] = function[q][1] => p = q

\* A PDO that was reported missing is destroyed in the end.
MissingIsDestroyed ==
  \A p \in Pdo : p \in children /\ ReportedMissing[p] ~> p \notin children
=============================================================================
