---------------------------- MODULE PciPnpProofs ----------------------------
(***************************************************************************)
(* Proofs about PciPnp for any slots, devices and device objects.          *)
(***************************************************************************)
EXTENDS PciPnp, TLAPS

-----------------------------------------------------------------------------
(* Transitions.                                                            *)

\* An extension no check of which has failed.
Ext(s, n) == [state |-> s, next |-> n, ok |-> TRUE]

\* What the transitions make of an extension has its type.
LEMMA TransitionType ==
  ASSUME NEW x \in Extension, NEW new \in DeviceState
  PROVE  /\ Begin(x, new) \in Extension
         /\ Commit(x, new) \in Extension
         /\ Cancel(x, new) \in Extension
BY DEF Extension, Begin, Commit, Cancel

\* A new extension.
LEMMA InitializedType == Initialized \in Extension /\ Initialized = Ext("NotStarted", "NotStarted")
BY DEF Initialized, Extension, DeviceState, Ext

\* So has what is left of a removed device.
LEMMA RemovedType ==
  ASSUME NEW x \in Extension
  PROVE  Removed(x) \in Extension
BY TransitionType DEF Removed, DeviceState

\* The transitions that begin, ...
LEMMA Beginning ==
  /\ \A s \in {"NotStarted", "Stopped"} : Begin(Ext(s, s), "Started") = Ext(s, "Started")
  /\ \A s \in {"Started", "Stopped"} : Begin(Ext(s, s), "NotStarted") = Ext(s, "NotStarted")
  /\ \A s \in {"NotStarted", "Started", "SurpriseRemoved"} : Begin(Ext(s, s), "Deleted") = Ext(s, "Deleted")
  /\ Begin(Ext("Started", "Started"), "Stopped") = Ext("Started", "Stopped")
  /\ \A s \in {"Started", "Stopped"} : Begin(Ext(s, s), "SurpriseRemoved") = Ext(s, "SurpriseRemoved")
  /\ Begin(Ext("Started", "Started"), "SynchronizedOperation") = Ext("Started", "SynchronizedOperation")
BY DEF Begin, Begins, EnteredFrom, Ext

\* ... are committed, ...
LEMMA Committing ==
  \A s \in DeviceState : \A n \in DeviceState \ {"SynchronizedOperation"} :
    Commit(Ext(s, n), n) = Ext(n, n)
BY DEF Commit, Ext

\* ... or cancelled, or had not begun.
LEMMA Cancelling ==
  /\ \A s, n \in DeviceState : s # n => Cancel(Ext(s, n), n) = Ext(s, s)
  /\ \A s \in DeviceState : \A n \in {"NotStarted", "Deleted", "Stopped"} : Cancel(Ext(s, s), n) = Ext(s, s)
BY DEF Cancel, Ext

\* A device is left not started, unless it went by surprise.
LEMMA Removing ==
  /\ \A s \in {"NotStarted", "Started", "Stopped"} : Removed(Ext(s, "NotStarted")) = Ext("NotStarted", "NotStarted")
  /\ Removed(Ext("Started", "Started")) = Ext("NotStarted", "NotStarted")
  /\ Removed(Ext("SurpriseRemoved", "SurpriseRemoved")) = Ext("SurpriseRemoved", "SurpriseRemoved")
<1>1. \A s \in {"Started", "Stopped"} : Removed(Ext(s, "NotStarted")) = Commit(Ext(s, "NotStarted"), "NotStarted")
  BY DEF Removed, IsInTransitionTo, Ext
<1>2. Removed(Ext("Started", "Started"))
        = Commit(Ext("Started", "NotStarted"), "NotStarted")
  <2>1. Begin(Ext("Started", "Started"), "NotStarted") = Ext("Started", "NotStarted")
    BY Beginning
  <2> QED BY <2>1 DEF Removed, IsInTransitionTo, Ext
<1>3. /\ Removed(Ext("NotStarted", "NotStarted")) = Ext("NotStarted", "NotStarted")
      /\ Removed(Ext("SurpriseRemoved", "SurpriseRemoved")) = Ext("SurpriseRemoved", "SurpriseRemoved")
  BY DEF Removed, IsInTransitionTo, Ext
<1> QED BY <1>1, <1>2, <1>3, Committing DEF DeviceState

-----------------------------------------------------------------------------
(* Types.                                                                  *)

\* Initially.
LEMMA PnpTypeInit == PnpInit => PnpTypeOK
BY InitializedType DEF PnpInit, PnpTypeOK

\* The requests to the bus.
LEMMA BusTypeStep ==
  ASSUME PnpTypeOK,
         \/ AddDevice \/ FdoStart \/ FdoStartFails \/ FdoQueryRemove \/ FdoCancelRemove
         \/ FdoQueryStop \/ FdoCancelStop \/ BusVanishes \/ FdoSurpriseRemoval \/ FdoRemove
  PROVE  PnpTypeOK'
<1> USE DEF PnpTypeOK, BusGoes, bookVars, managerVars, scanVars
<1>0. {"NotStarted", "Started", "Deleted", "Stopped", "SurpriseRemoved"} \subseteq DeviceState
  BY DEF DeviceState
<1>1. CASE AddDevice BY <1>1, InitializedType DEF AddDevice
<1>2. CASE FdoStart BY <1>0, <1>2, TransitionType DEF FdoStart
<1>3. CASE FdoStartFails
  <2>1. Cancel(Begin(fdo, "Started"), "Started") \in Extension BY <1>0, TransitionType
  <2>2. fdo' \in Extension BY <1>3, <2>1 DEF FdoStartFails
  <2> QED BY <1>3, <2>2 DEF FdoStartFails
<1>4. CASE FdoQueryRemove
  <2>1. Begin(fdo, "Deleted") \in Extension BY <1>0, TransitionType
  <2>2. CASE fdo' = Begin(fdo, "Deleted") /\ BusGoes({"added", "started"}, "queried")
    BY <1>4, <2>1, <2>2 DEF FdoQueryRemove
  <2>3. CASE UNCHANGED fdo /\ BusGoes({"added", "started"}, "refused")
    BY <1>4, <2>3 DEF FdoQueryRemove
  <2> QED BY <1>4, <2>2, <2>3 DEF FdoQueryRemove
<1>5. CASE FdoCancelRemove BY <1>0, <1>5, TransitionType DEF FdoCancelRemove
<1>6. CASE FdoQueryStop BY <1>0, <1>6, TransitionType DEF FdoQueryStop
<1>7. CASE FdoCancelStop BY <1>0, <1>7, TransitionType DEF FdoCancelStop
<1>8. CASE BusVanishes BY <1>8 DEF BusVanishes
<1>9. CASE FdoSurpriseRemoval BY <1>0, <1>9, TransitionType DEF FdoSurpriseRemoval
<1>10. CASE FdoRemove
  <2>1. fdo' \in Extension BY <1>0, <1>10, TransitionType DEF FdoRemove
  <2>2. pdo' \in [Pdo -> Extension]
    BY <1>10 DEF FdoRemove, Extension, Initialized, DeviceState
  <2> QED BY <1>10, <2>1, <2>2 DEF FdoRemove, Destroy
<1> QED BY <1>1, <1>2, <1>3, <1>4, <1>5, <1>6, <1>7, <1>8, <1>9, <1>10

\* Looking for devices, and the changes it looks for.
LEMMA ScanTypeStep ==
  ASSUME PnpTypeOK,
         \/ QueryRelations \/ ReportRelations
         \/ \E s \in Slot : HardwareChanges(s) \/ ScanEmpty(s) \/ ScanFinds(s) \/ ScanCreates(s)
  PROVE  PnpTypeOK'
<1> USE DEF PnpTypeOK, bookVars, managerVars, scanVars
<1>0. "SynchronizedOperation" \in DeviceState BY DEF DeviceState
<1>1. CASE QueryRelations BY <1>0, <1>1, TransitionType DEF QueryRelations
<1>2. CASE ReportRelations BY <1>0, <1>2, TransitionType DEF ReportRelations
<1>3. ASSUME NEW s \in Slot, HardwareChanges(s) PROVE PnpTypeOK'
  BY <1>3 DEF HardwareChanges
<1>4. ASSUME NEW s \in Slot, ScanEmpty(s) PROVE PnpTypeOK'
  BY <1>4 DEF ScanEmpty
<1>5. ASSUME NEW s \in Slot, ScanFinds(s) PROVE PnpTypeOK'
  <2> PICK p \in Found(s) : /\ NotPresent' = [NotPresent EXCEPT ![p] = FALSE]
                            /\ pdo' = [pdo EXCEPT ![p].ok = @ /\ pdo[p].state # "Deleted"]
    BY <1>5 DEF ScanFinds
  <2>1. p \in Pdo BY DEF Found
  <2>2. pdo' \in [Pdo -> Extension] BY <2>1 DEF Extension
  <2> QED BY <1>5, <2>1, <2>2 DEF ScanFinds
<1>6. ASSUME NEW s \in Slot, ScanCreates(s) PROVE PnpTypeOK'
  BY <1>6, InitializedType DEF ScanCreates
<1> QED BY <1>1, <1>2, <1>3, <1>4, <1>5, <1>6

\* The requests to a child.
LEMMA ChildTypeStep ==
  ASSUME PnpTypeOK, NEW p \in Pdo,
         \/ PdoStart(p) \/ PdoStartFails(p) \/ PdoQueryRemove(p) \/ PdoCancelRemove(p)
         \/ PdoQueryStop(p) \/ PdoStop(p) \/ PdoCancelStop(p)
         \/ PdoSurpriseRemoval(p) \/ PdoRemove(p)
  PROVE  PnpTypeOK'
<1> USE DEF PnpTypeOK, Goes, Becomes, Busy, bookVars, managerVars, scanVars
<1>0. {"NotStarted", "Started", "Deleted", "Stopped", "SurpriseRemoved"} \subseteq DeviceState
  BY DEF DeviceState
<1>1. CASE PdoStart(p) BY <1>0, <1>1, TransitionType DEF PdoStart
<1>2. CASE PdoStartFails(p)
  <2>1. /\ Cancel(Begin(pdo[p], "Started"), "Started") \in Extension
        /\ Commit(Begin(pdo[p], "Started"), "Started") \in Extension
    BY <1>0, TransitionType
  <2>2. pdo' \in [Pdo -> Extension] BY <1>2, <2>1 DEF PdoStartFails
  <2> QED BY <1>2, <2>2 DEF PdoStartFails
<1>3. CASE PdoQueryRemove(p)
  <2>1. Begin(pdo[p], "NotStarted") \in Extension BY <1>0, TransitionType
  <2>2. pdo' \in [Pdo -> Extension] BY <1>3, <2>1 DEF PdoQueryRemove
  <2> QED BY <1>3, <2>2 DEF PdoQueryRemove
<1>4. CASE PdoCancelRemove(p) BY <1>0, <1>4, TransitionType DEF PdoCancelRemove
<1>5. CASE PdoQueryStop(p)
  <2>1. Begin(pdo[p], "Stopped") \in Extension BY <1>0, TransitionType
  <2>2. pdo' \in [Pdo -> Extension] BY <1>5, <2>1 DEF PdoQueryStop
  <2> QED BY <1>5, <2>2 DEF PdoQueryStop
<1>6. CASE PdoStop(p) BY <1>0, <1>6, TransitionType DEF PdoStop
<1>7. CASE PdoCancelStop(p) BY <1>0, <1>7, TransitionType DEF PdoCancelStop
<1>8. CASE PdoSurpriseRemoval(p) BY <1>0, <1>8, TransitionType DEF PdoSurpriseRemoval
<1>9. CASE PdoRemove(p)
  <2>0. /\ node' \in [Pdo -> {"none", "idle", "started", "failed", "lost", "surprised"} \union Busy]
        /\ UNCHANGED <<bus, fdo, busNode, reported, scanVars>>
    BY <1>9 DEF PdoRemove
  <2>1. CASE Deletes(p)
    <3>1. pdo' \in [Pdo -> Extension]
      <4>1. Begin(Removed(pdo[p]), "Deleted") \in Extension
        BY <1>0, RemovedType, TransitionType
      <4>2. [Initialized EXCEPT !.ok = Begin(Removed(pdo[p]), "Deleted").ok] \in Extension
        BY <4>1 DEF Extension, Initialized, DeviceState
      <4> QED BY <1>9, <2>1, <4>2 DEF PdoRemove
    <3>2. /\ children' = children \ {p}
          /\ function' \in [Pdo -> (Slot \X Device) \union {none}]
          /\ NotPresent' \in [Pdo -> BOOLEAN]
          /\ ReportedMissing' \in [Pdo -> BOOLEAN]
      <4>1. Destroy({p}) BY <1>9, <2>1 DEF PdoRemove
      <4> HIDE DEF Goes, Becomes, Busy
      <4>2. function' = [q \in Pdo |-> IF q \in {p} THEN none ELSE function[q]]
        BY <4>1 DEF Destroy
      <4>3. NotPresent' = [q \in Pdo |-> IF q \in {p} THEN FALSE ELSE NotPresent[q]]
        BY <4>1 DEF Destroy
      <4>4. ReportedMissing' = [q \in Pdo |-> IF q \in {p} THEN FALSE ELSE ReportedMissing[q]]
        BY <4>1 DEF Destroy
      <4> QED BY <4>1, <4>2, <4>3, <4>4 DEF Destroy
    <3> QED BY <2>0, <3>1, <3>2
  <2>2. CASE ~Deletes(p)
    <3>1. pdo' \in [Pdo -> Extension] BY <1>9, <2>2, RemovedType DEF PdoRemove
    <3>2. UNCHANGED <<children, bookVars>> BY <1>9, <2>2 DEF PdoRemove
    <3> QED BY <2>0, <3>1, <3>2
  <2> QED BY <2>1, <2>2
<1> QED BY <1>1, <1>2, <1>3, <1>4, <1>5, <1>6, <1>7, <1>8, <1>9

\* Every step keeps the types.
LEMMA PnpTypeStep == PnpTypeOK /\ [PnpNext]_pnpVars => PnpTypeOK'
<1> SUFFICES ASSUME PnpTypeOK, [PnpNext]_pnpVars PROVE PnpTypeOK'
  OBVIOUS
<1>1. CASE UNCHANGED pnpVars
  BY <1>1 DEF PnpTypeOK, pnpVars, bookVars, managerVars, scanVars
<1>2. CASE PnpNext
  BY <1>2, BusTypeStep, ScanTypeStep, ChildTypeStep DEF PnpNext
<1> QED BY <1>1, <1>2

\* The type invariant.
THEOREM PnpTypeCorrect == PnpSpec => []PnpTypeOK
BY PnpTypeInit, PnpTypeStep, PTL DEF PnpSpec

-----------------------------------------------------------------------------
(* The inductive invariant of the transitions: which extensions a device   *)
(* object may have after what the manager last did with it.                *)

FdoOf(n) ==
  CASE n = "none" -> {Ext("NotStarted", "NotStarted"), Ext("Deleted", "Deleted")}
    [] n \in {"added", "failed"} -> {Ext("NotStarted", "NotStarted")}
    [] n = "started" -> {Ext("Started", IF scanning THEN "SynchronizedOperation" ELSE "Started")}
    [] n = "queried" -> {Ext("NotStarted", "Deleted"), Ext("Started", "Deleted")}
    [] n = "refused" -> {Ext("NotStarted", "NotStarted"), Ext("Started", "Started")}
    [] n = "stopRefused" -> {Ext("Started", "Stopped")}
    [] n = "vanishing" -> {Ext("Started", "Started")}
    [] OTHER -> {Ext("SurpriseRemoved", "Deleted")}

PdoOf(n, missing) ==
  CASE n \in {"none", "idle"} -> {Ext("NotStarted", "NotStarted")}
    [] n \in {"started", "stopRefused"} -> {Ext("Started", "Started")}
    [] n = "queried" -> {Ext("NotStarted", "NotStarted"), Ext("Started", "NotStarted")}
    [] n \in {"refused", "failed"} -> {Ext("NotStarted", "NotStarted"), Ext("Started", "Started")}
    [] n = "stopQueried" -> {Ext("Started", "Stopped")}
    [] n = "stopped" -> {Ext("Stopped", "Stopped")}
    [] n = "lost" -> {Ext("Stopped", "Stopped"), Ext("Started", "Started")}
    [] OTHER -> {Ext("Started", "NotStarted"), Ext("Stopped", "NotStarted")}
                  \union {x \in {Ext("SurpriseRemoved", "SurpriseRemoved")} : missing}

\* The bus is as the manager left it, and scanned only while it is started.
BusInv == fdo \in FdoOf(busNode) /\ (scanning => busNode = "started")

\* So is every child; the manager knows children only, and neither a child it
\* was told of nor one the scan has found is missing.
ChildInv ==
  \A p \in Pdo :
    /\ pdo[p] \in PdoOf(node[p], ReportedMissing[p])
    /\ p \notin children => node[p] = "none" /\ p \notin reported
    /\ p \in reported => ~ReportedMissing[p]
    /\ scanning /\ p \in children => NotPresent[p] \/ ~ReportedMissing[p]

TransitionInv == PnpTypeOK /\ BusInv /\ ChildInv

\* The children that the scan under way has found.
Seen == {p \in children : ~NotPresent[p]}

\* Two children that are not missing are not for the same device in the same
\* slot: a scan finds the first before it would create the second.
FoundOnce ==
  /\ \A p \in children : function[p] \in Slot \X Device
  /\ \A p, q \in children :
       ~ReportedMissing[p] /\ ~ReportedMissing[q] /\ function[p] = function[q] => p = q

\* What the scan has found it found in a slot it has looked at, which holds it
\* still if nothing has changed; and it has found what is in these slots.
ScanInv ==
  scanning =>
    /\ \A p \in Seen :
         /\ function[p][1] \notin unscanned
         /\ ~changed => function[p] = <<function[p][1], bus[function[p][1]]>>
    /\ ~changed => \A s \in Slot \ unscanned : bus[s] # none => \E p \in Seen : function[p] = <<s, bus[s]>>

\* What was reported is the bus until something changes.
ReportedInv ==
  ~scanning /\ ~changed =>
    /\ \A p \in reported : function[p] = <<function[p][1], bus[function[p][1]]>>
    /\ \A s \in Slot : bus[s] # none => \E p \in reported : function[p] = <<s, bus[s]>>
    /\ \A p, q \in reported : function[p][1] = function[q][1] => p = q

ReportInv == TransitionInv /\ FoundOnce /\ ScanInv /\ ReportedInv

-----------------------------------------------------------------------------
(* Transitions of the bus and its children.                                *)

\* Initially nothing is in transition.
LEMMA TransitionInit == PnpInit => TransitionInv
<1> SUFFICES ASSUME PnpInit PROVE TransitionInv
  OBVIOUS
<1>1. PnpTypeOK BY PnpTypeInit
<1>2. BusInv BY InitializedType DEF PnpInit, BusInv, FdoOf
<1>3. ChildInv BY InitializedType DEF PnpInit, ChildInv, PdoOf
<1> QED BY <1>1, <1>2, <1>3 DEF TransitionInv

\* The requests to the bus that leave the children alone.
LEMMA BusStep ==
  ASSUME TransitionInv,
         \/ AddDevice \/ FdoStart \/ FdoStartFails \/ FdoQueryRemove \/ FdoCancelRemove
         \/ FdoQueryStop \/ FdoCancelStop \/ BusVanishes \/ FdoSurpriseRemoval
  PROVE  BusInv' /\ ChildInv'
<1> USE DEF TransitionInv
<1>0. /\ {"NotStarted", "Started", "Deleted", "Stopped", "SurpriseRemoved"} \subseteq DeviceState
      /\ "SynchronizedOperation" \notin {"NotStarted", "Started", "Deleted", "Stopped", "SurpriseRemoved"}
  BY DEF DeviceState
<1>1. UNCHANGED <<pdo, children, NotPresent, ReportedMissing, node, reported>> /\ ~scanning /\ ~scanning'
  BY DEF AddDevice, FdoStart, FdoStartFails, FdoQueryRemove, FdoCancelRemove, FdoQueryStop,
         FdoCancelStop, BusVanishes, FdoSurpriseRemoval, BusGoes, bookVars, scanVars, PnpTypeOK
<1>2. ChildInv' BY <1>1 DEF ChildInv
<1>3. fdo \in FdoOf(busNode) BY DEF BusInv
<1>4. fdo' \in FdoOf(busNode)'
  <2> USE <1>0, <1>1, <1>3 DEF FdoOf, BusGoes
  <2>1. CASE AddDevice BY <2>1, InitializedType DEF AddDevice
  <2>2. CASE FdoStart
    <3>1. fdo = Ext("NotStarted", "NotStarted") BY <2>2 DEF FdoStart
    <3>2. fdo' = Ext("Started", "Started") BY <2>2, <3>1, Beginning, Committing DEF FdoStart
    <3> QED BY <2>2, <3>2 DEF FdoStart
  <2>3. CASE FdoStartFails
    <3>1. fdo = Ext("NotStarted", "NotStarted") BY <2>3 DEF FdoStartFails
    <3>2. Cancel(Begin(fdo, "Started"), "Started") = fdo BY <3>1, Beginning, Cancelling
    <3> QED BY <2>3, <3>1, <3>2 DEF FdoStartFails
  <2>4. CASE FdoQueryRemove
    <3>1. fdo \in {Ext("NotStarted", "NotStarted"), Ext("Started", "Started")}
      BY <2>4 DEF FdoQueryRemove
    <3>2. Begin(fdo, "Deleted") \in {Ext("NotStarted", "Deleted"), Ext("Started", "Deleted")}
      BY <3>1, Beginning
    <3> QED BY <2>4, <3>1, <3>2 DEF FdoQueryRemove
  <2>5. CASE FdoCancelRemove
    <3>1. \E s \in {"NotStarted", "Started"} : fdo \in {Ext(s, s), Ext(s, "Deleted")}
      BY <2>5 DEF FdoCancelRemove
    <3>2. PICK s \in {"NotStarted", "Started"} : fdo \in {Ext(s, s), Ext(s, "Deleted")}
      BY <3>1
    <3>3. Cancel(fdo, "Deleted") = Ext(s, s) BY <3>2, Cancelling
    <3>4. fdo.state = s BY <3>2 DEF Ext
    <3> QED BY <2>5, <3>3, <3>4 DEF FdoCancelRemove
  <2>6. CASE FdoQueryStop
    <3>1. Begin(fdo, "Stopped") = Ext("Started", "Stopped") BY <2>6, Beginning DEF FdoQueryStop
    <3> QED BY <2>6, <3>1 DEF FdoQueryStop
  <2>7. CASE FdoCancelStop
    <3>1. Cancel(fdo, "Stopped") = Ext("Started", "Started") BY <2>7, Cancelling DEF FdoCancelStop
    <3> QED BY <2>7, <3>1 DEF FdoCancelStop
  <2>8. CASE BusVanishes BY <2>8 DEF BusVanishes
  <2>9. CASE FdoSurpriseRemoval
    <3>1. fdo = Ext("Started", "Started") BY <2>9 DEF FdoSurpriseRemoval
    <3>2. fdo' = Ext("SurpriseRemoved", "Deleted")
      BY <2>9, <3>1, Beginning, Committing DEF FdoSurpriseRemoval
    <3> QED BY <2>9, <3>2 DEF FdoSurpriseRemoval
  <2> QED BY <2>1, <2>2, <2>3, <2>4, <2>5, <2>6, <2>7, <2>8, <2>9
<1> QED BY <1>1, <1>2, <1>4 DEF BusInv

\* The bus is removed with its children.
LEMMA FdoRemoveStep ==
  ASSUME TransitionInv, FdoRemove
  PROVE  BusInv' /\ ChildInv'
<1> USE DEF TransitionInv
<1>1. fdo \in {Ext("NotStarted", "Deleted"), Ext("Started", "Deleted"), Ext("NotStarted", "NotStarted"),
               Ext("SurpriseRemoved", "Deleted")}
  BY DEF BusInv, FdoOf, FdoRemove
<1>2. fdo' = Ext("Deleted", "Deleted")
  <2>1. CASE fdo = Ext("NotStarted", "NotStarted")
    <3>1. ~IsInTransitionTo(fdo, "Deleted") BY <2>1 DEF IsInTransitionTo, Ext
    <3>2. Begin(fdo, "Deleted") = Ext("NotStarted", "Deleted") BY <2>1, Beginning
    <3> QED BY <3>1, <3>2, Committing DEF FdoRemove, DeviceState
  <2>2. ASSUME NEW s \in {"NotStarted", "Started", "SurpriseRemoved"}, fdo = Ext(s, "Deleted")
        PROVE  fdo' = Ext("Deleted", "Deleted")
    <3>1. IsInTransitionTo(fdo, "Deleted") BY <2>2 DEF IsInTransitionTo, Ext
    <3> QED BY <2>2, <3>1, Committing DEF FdoRemove, DeviceState
  <2> QED BY <1>1, <2>1, <2>2
<1>3. BusInv' BY <1>2 DEF BusInv, FdoOf, FdoRemove
<1>4. \A p \in Pdo : pdo[p].ok BY DEF ChildInv, PdoOf, Ext
<1>5. \A p \in Pdo : pdo'[p] = Ext("NotStarted", "NotStarted")
  BY <1>4 DEF FdoRemove, Initialized, Ext
<1>6. ChildInv' BY <1>5 DEF ChildInv, PdoOf, FdoRemove
<1> QED BY <1>3, <1>6

\* Looking for devices.
LEMMA ScanStep ==
  ASSUME TransitionInv,
         \/ QueryRelations \/ ReportRelations
         \/ \E s \in Slot : HardwareChanges(s) \/ ScanEmpty(s) \/ ScanFinds(s) \/ ScanCreates(s)
  PROVE  BusInv' /\ ChildInv'
<1> USE DEF TransitionInv, bookVars, managerVars
<1>1. CASE QueryRelations
  <2>1. Begin(fdo, "SynchronizedOperation") = Ext("Started", "SynchronizedOperation")
    BY <1>1, Beginning DEF QueryRelations, BusInv, FdoOf
  <2>2. BusInv' BY <1>1, <2>1 DEF QueryRelations, BusInv, FdoOf
  <2>3. ChildInv' BY <1>1 DEF QueryRelations, ChildInv
  <2> QED BY <2>2, <2>3
<1>2. CASE ReportRelations
  <2>1. Cancel(fdo, "SynchronizedOperation") = Ext("Started", "Started")
    BY <1>2, Cancelling DEF ReportRelations, BusInv, FdoOf, DeviceState
  <2>2. BusInv' BY <1>2, <2>1 DEF ReportRelations, BusInv, FdoOf
  <2>3. ASSUME NEW p \in Pdo
        PROVE  /\ pdo'[p] \in PdoOf(node[p], ReportedMissing[p])'
               /\ p \notin children' => node'[p] = "none" /\ p \notin reported'
               /\ p \in reported' => ~ReportedMissing'[p]
               /\ ~scanning'
    <3>1. /\ pdo'[p] = pdo[p] /\ children' = children
          /\ node'[p] = IF p \in children /\ ~NotPresent[p] /\ node[p] = "none" THEN "idle" ELSE node[p]
          /\ ReportedMissing'[p] = (ReportedMissing[p] \/ (p \in children /\ NotPresent[p]))
          /\ p \in reported' <=> p \in children /\ ~NotPresent[p]
      BY <1>2 DEF ReportRelations
    <3>2. pdo'[p] \in PdoOf(node[p], ReportedMissing[p])'
      BY <3>1 DEF ChildInv, PdoOf
    <3>3. p \notin children' => node'[p] = "none" /\ p \notin reported'
      BY <3>1 DEF ChildInv
    <3>4. p \in reported' => ~ReportedMissing'[p]
      BY <1>2, <3>1 DEF ReportRelations, ChildInv
    <3> QED BY <1>2, <3>2, <3>3, <3>4 DEF ReportRelations
  <2> QED BY <2>2, <2>3 DEF ChildInv
<1>3. ASSUME NEW s \in Slot, HardwareChanges(s) PROVE BusInv' /\ ChildInv'
  BY <1>3 DEF HardwareChanges, BusInv, ChildInv, FdoOf
<1>4. ASSUME NEW s \in Slot, ScanEmpty(s) PROVE BusInv' /\ ChildInv'
  BY <1>4 DEF ScanEmpty, BusInv, ChildInv, FdoOf
<1>5. ASSUME NEW s \in Slot, ScanFinds(s) PROVE BusInv' /\ ChildInv'
  <2>1. PICK p \in Found(s) : pdo' = [pdo EXCEPT ![p].ok = @ /\ pdo[p].state # "Deleted"]
    BY <1>5 DEF ScanFinds
  <2>2. p \in Pdo BY <2>1 DEF Found, PnpTypeOK
  <2>3. pdo[p].ok /\ pdo[p].state # "Deleted" BY <2>2 DEF ChildInv, PdoOf, Ext
  <2>4. pdo' = pdo BY <2>1, <2>2, <2>3 DEF PnpTypeOK, Extension
  <2>5. \A q \in children : NotPresent'[q] => NotPresent[q]
    BY <1>5 DEF ScanFinds, PnpTypeOK, Found
  <2>6. \A q \in children : ~NotPresent'[q] /\ NotPresent[q] => ~ReportedMissing[q]
    BY <1>5 DEF ScanFinds, PnpTypeOK, Found
  <2> QED BY <1>5, <2>4, <2>5, <2>6 DEF ScanFinds, BusInv, ChildInv, FdoOf, PnpTypeOK
<1>6. ASSUME NEW s \in Slot, ScanCreates(s) PROVE BusInv' /\ ChildInv'
  <2>1. PICK p \in Pdo \ children :
          /\ children' = children \union {p}
          /\ pdo' = [pdo EXCEPT ![p] = Initialized]
          /\ NotPresent' = [NotPresent EXCEPT ![p] = FALSE]
          /\ ReportedMissing' = [ReportedMissing EXCEPT ![p] = FALSE]
    BY <1>6 DEF ScanCreates
  <2>2. UNCHANGED <<fdo, busNode, node, reported, scanning>> BY <1>6 DEF ScanCreates
  <2>3. BusInv' BY <2>2 DEF BusInv, FdoOf
  <2>4. node[p] = "none" /\ p \notin reported BY <2>1 DEF ChildInv
  <2>5. /\ pdo'[p] = Ext("NotStarted", "NotStarted") /\ ~ReportedMissing'[p] /\ p \in children'
        /\ node'[p] = "none"
    BY <2>1, <2>2, <2>4, InitializedType DEF PnpTypeOK
  <2>6. \A q \in Pdo \ {p} :
          /\ pdo'[q] = pdo[q] /\ node'[q] = node[q] /\ ReportedMissing'[q] = ReportedMissing[q]
          /\ NotPresent'[q] = NotPresent[q] /\ (q \in children' <=> q \in children)
    BY <2>1, <2>2 DEF PnpTypeOK
  <2>7. ChildInv' BY <2>2, <2>5, <2>6 DEF ChildInv, PdoOf
  <2> QED BY <2>3, <2>7
<1> QED BY <1>1, <1>2, <1>3, <1>4, <1>5, <1>6

\* A request that leaves its child with an extension it may have then.
LEMMA ChildAlone ==
  ASSUME TransitionInv, NEW p \in Pdo, NEW x, NEW from, NEW to,
         Goes(p, from, to), "none" \notin from, Becomes(p, x), x \in PdoOf(to, ReportedMissing[p])
  PROVE  BusInv' /\ ChildInv'
<1> USE DEF TransitionInv, PnpTypeOK, Goes, Becomes, scanVars
<1>1. BusInv' BY DEF BusInv, FdoOf
<1>2. p \in children BY DEF ChildInv
<1>3. /\ pdo'[p] \in PdoOf(node'[p], ReportedMissing'[p])
      /\ \A q \in Pdo \ {p} : pdo'[q] = pdo[q] /\ node'[q] = node[q]
  OBVIOUS
<1>4. ChildInv' BY <1>2, <1>3 DEF ChildInv
<1> QED BY <1>1, <1>4

\* The requests to a child but its removal.
LEMMA ChildStep ==
  ASSUME TransitionInv, NEW p \in Pdo,
         \/ PdoStart(p) \/ PdoStartFails(p) \/ PdoQueryRemove(p) \/ PdoCancelRemove(p)
         \/ PdoQueryStop(p) \/ PdoStop(p) \/ PdoCancelStop(p) \/ PdoSurpriseRemoval(p)
  PROVE  BusInv' /\ ChildInv'
<1> DEFINE Same(s) == Ext(s, s)
<1>0. pdo[p] \in PdoOf(node[p], ReportedMissing[p]) BY DEF TransitionInv, ChildInv
<1>1. {"NotStarted", "Started", "Stopped", "SurpriseRemoved"} \subseteq DeviceState \ {"SynchronizedOperation"}
  BY DEF DeviceState
<1> USE <1>0 DEF PdoOf
<1>2. CASE PdoStart(p)
  <2>1. node[p] \in {"idle", "stopped"} BY <1>2 DEF PdoStart, Goes
  <2>2. Commit(Begin(pdo[p], "Started"), "Started") = Ext("Started", "Started")
    BY <1>1, <2>1, Beginning, Committing
  <2> QED BY <1>2, <2>2, ChildAlone DEF PdoStart
<1>3. CASE PdoStartFails(p)
  <2>1. node[p] \in {"idle", "stopped"} BY <1>3 DEF PdoStartFails, Goes
  <2>2. /\ Commit(Begin(pdo[p], "Started"), "Started") = Ext("Started", "Started")
        /\ Cancel(Begin(pdo[p], "Started"), "Started") = pdo[p]
    BY <1>1, <2>1, Beginning, Committing, Cancelling
  <2> DEFINE to == IF node[p] = "idle" THEN "failed" ELSE "lost"
  <2>3. /\ Ext("Started", "Started") \in PdoOf(to, ReportedMissing[p])
        /\ pdo[p] \in PdoOf(to, ReportedMissing[p])
    BY <2>1
  <2>4. Goes(p, {"idle", "stopped"}, to) BY <1>3 DEF PdoStartFails
  <2>5. Becomes(p, pdo[p]) \/ Becomes(p, Ext("Started", "Started"))
    BY <1>3, <2>2 DEF PdoStartFails
  <2> HIDE DEF to, PdoOf
  <2> QED BY <2>3, <2>4, <2>5, ChildAlone
<1>4. CASE PdoQueryRemove(p)
  <2>1. CASE Goes(p, {"idle", "started"}, "queried")
    <3>1. node[p] \in {"idle", "started"} BY <2>1 DEF Goes
    <3> DEFINE x == IF pdo[p].state = "NotStarted" THEN pdo[p] ELSE Begin(pdo[p], "NotStarted")
    <3>4. PICK s \in {"NotStarted", "Started"} : pdo[p] = Ext(s, s) BY <3>1
    <3>5. pdo[p].state = s BY <3>4 DEF Ext
    <3>2. x \in {Ext("NotStarted", "NotStarted"), Ext("Started", "NotStarted")}
      BY <3>4, <3>5, Beginning
    <3>3. Becomes(p, x) BY <1>4, <2>1 DEF PdoQueryRemove, Goes, PnpTypeOK, TransitionInv
    <3> QED BY <2>1, <3>2, <3>3, ChildAlone
  <2>2. CASE Goes(p, {"idle", "started"}, "refused") /\ Becomes(p, pdo[p])
    <3>1. node[p] \in {"idle", "started"} BY <2>2 DEF Goes
    <3> QED BY <2>2, <3>1, ChildAlone
  <2> QED BY <1>4, <2>1, <2>2 DEF PdoQueryRemove
<1>5. CASE PdoCancelRemove(p)
  <2>1. node[p] \in {"queried", "refused"} BY <1>5 DEF PdoCancelRemove, Goes
  <2>2. PICK s \in {"NotStarted", "Started"} : pdo[p] \in {Ext(s, s), Ext(s, "NotStarted")}
    BY <2>1
  <2>3. Cancel(pdo[p], "NotStarted") = Ext(s, s) BY <1>1, <2>2, Cancelling
  <2>4. pdo[p].state = s BY <2>2 DEF Ext
  <2>5. CASE s = "Started" BY <1>5, <2>3, <2>4, <2>5, ChildAlone DEF PdoCancelRemove
  <2>6. CASE s = "NotStarted" BY <1>5, <2>3, <2>4, <2>6, ChildAlone DEF PdoCancelRemove
  <2> QED BY <2>5, <2>6
<1>6. CASE PdoQueryStop(p)
  <2>1. node[p] = "started" BY <1>6 DEF PdoQueryStop, Goes
  <2>2. pdo[p] = Ext("Started", "Started") /\ Begin(pdo[p], "Stopped") = Ext("Started", "Stopped")
    BY <2>1, Beginning
  <2> QED BY <1>6, <2>2, ChildAlone DEF PdoQueryStop
<1>7. CASE PdoStop(p)
  <2>1. node[p] = "stopQueried" BY <1>7 DEF PdoStop, Goes
  <2>2. Commit(pdo[p], "Stopped") = Ext("Stopped", "Stopped") BY <1>1, <2>1, Committing
  <2> QED BY <1>7, <2>2, ChildAlone DEF PdoStop
<1>8. CASE PdoCancelStop(p)
  <2>1. node[p] \in {"stopQueried", "stopRefused"} BY <1>8 DEF PdoCancelStop, Goes
  <2>2. Cancel(pdo[p], "Stopped") = Ext("Started", "Started") BY <1>1, <2>1, Cancelling
  <2> QED BY <1>8, <2>2, ChildAlone DEF PdoCancelStop
<1>9. CASE PdoSurpriseRemoval(p)
  <2>1. PICK n \in {"started", "lost"} : Goes(p, {n}, "surprised")
    BY <1>9 DEF PdoSurpriseRemoval
  <2>2. PICK s \in {"Started", "Stopped"} : pdo[p] = Ext(s, s)
    BY <2>1 DEF Goes
  <2>3. /\ Begin(pdo[p], "NotStarted") = Ext(s, "NotStarted")
        /\ Commit(Begin(pdo[p], "SurpriseRemoved"), "SurpriseRemoved") = Ext("SurpriseRemoved", "SurpriseRemoved")
    BY <1>1, <2>2, Beginning, Committing
  <2>4. CASE ReportedMissing[p]
    BY <1>9, <2>1, <2>3, <2>4, ChildAlone DEF PdoSurpriseRemoval
  <2>5. CASE ~ReportedMissing[p]
    BY <1>9, <2>1, <2>3, <2>5, ChildAlone DEF PdoSurpriseRemoval
  <2> QED BY <2>4, <2>5
<1> QED BY <1>2, <1>3, <1>4, <1>5, <1>6, <1>7, <1>8, <1>9

\* A child is removed; one that is missing is destroyed.
LEMMA PdoRemoveStep ==
  ASSUME TransitionInv, NEW p \in Pdo, PdoRemove(p)
  PROVE  BusInv' /\ ChildInv'
<1> USE DEF TransitionInv, scanVars
<1>1. BusInv' BY DEF PdoRemove, BusInv, FdoOf
<1>2. /\ pdo[p] \in PdoOf(node[p], ReportedMissing[p])
      /\ node[p] \in {"queried", "failed", "surprised", "idle"}
      /\ p \in children
  BY DEF ChildInv, PdoRemove, MayRemove
<1>3. \/ Removed(pdo[p]) = Ext("NotStarted", "NotStarted")
      \/ ReportedMissing[p] /\ Removed(pdo[p]) = Ext("SurpriseRemoved", "SurpriseRemoved")
  BY <1>2, Removing DEF PdoOf
<1>4. /\ \A q \in Pdo \ {p} : /\ pdo'[q] = pdo[q] /\ node'[q] = node[q]
                              /\ ReportedMissing'[q] = ReportedMissing[q]
                              /\ (q \in children' <=> q \in children)
      /\ node'[p] = IF p \in reported THEN "idle" ELSE "none"
      /\ reported' = reported /\ ~scanning'
  BY DEF PdoRemove, Destroy, PnpTypeOK, bookVars
<1>5. CASE Deletes(p)
  <2>1. Begin(Removed(pdo[p]), "Deleted").ok
    <3>0. \A s, n : Ext(s, n).ok BY DEF Ext
    <3>1. \A s \in {"NotStarted", "SurpriseRemoved"} : Begin(Ext(s, s), "Deleted").ok
      BY <3>0, Beginning
    <3> QED BY <1>3, <3>1
  <2>2. pdo'[p] = Ext("NotStarted", "NotStarted")
    BY <1>5, <2>1 DEF PdoRemove, PnpTypeOK, Initialized, Ext
  <2>3. p \notin reported BY <1>5 DEF ChildInv, Deletes
  <2> QED BY <1>1, <1>4, <2>2, <2>3 DEF ChildInv, PdoOf
<1>6. CASE ~Deletes(p)
  <2>1. UNCHANGED <<children, ReportedMissing>> /\ pdo'[p] = Removed(pdo[p])
    BY <1>6 DEF PdoRemove, PnpTypeOK, bookVars
  <2>2. pdo'[p] = Ext("NotStarted", "NotStarted") BY <1>3, <1>6, <2>1 DEF Deletes
  <2> QED BY <1>1, <1>2, <1>4, <2>1, <2>2 DEF ChildInv, PdoOf
<1> QED BY <1>5, <1>6

\* Every step keeps to the transitions.
LEMMA TransitionStep == TransitionInv /\ [PnpNext]_pnpVars => TransitionInv'
<1> SUFFICES ASSUME TransitionInv, [PnpNext]_pnpVars PROVE TransitionInv'
  OBVIOUS
<1>1. PnpTypeOK' BY PnpTypeStep DEF TransitionInv
<1>2. CASE UNCHANGED pnpVars
  BY <1>1, <1>2 DEF TransitionInv, BusInv, FdoOf, ChildInv, pnpVars, bookVars, managerVars, scanVars
<1>3. CASE PnpNext
  BY <1>1, <1>3, BusStep, FdoRemoveStep, ScanStep, ChildStep, PdoRemoveStep DEF PnpNext, TransitionInv
<1> QED BY <1>2, <1>3

\* The transitions are kept to.
LEMMA TransitionsHold == PnpSpec => []TransitionInv
BY TransitionInit, TransitionStep, PTL DEF PnpSpec

\* No ASSERT of pci.state.cpp fails, for however many devices.
THEOREM ChecksNeverFail == PnpSpec => []NoCheckFails
<1>1. TransitionInv => NoCheckFails
  <2>1. \A n : \A x \in FdoOf(n) : x.ok BY DEF FdoOf, Ext
  <2>2. \A n, m : \A x \in PdoOf(n, m) : x.ok BY DEF PdoOf, Ext
  <2> QED BY <2>1, <2>2 DEF TransitionInv, BusInv, ChildInv, NoCheckFails
<1> QED BY <1>1, TransitionsHold, PTL

\* The driver and the manager agree on what state each child is in.
THEOREM StatesAlwaysAgree == PnpSpec => []StatesAgree
<1>1. TransitionInv => StatesAgree
  <2> SUFFICES ASSUME TransitionInv, NEW p \in children
               PROVE  /\ pdo[p].state \in StateOf(node[p])
                      /\ node[p] \in {"idle", "started", "stopped"} => pdo[p].next = pdo[p].state
    BY DEF StatesAgree
  <2>1. p \in Pdo /\ pdo[p] \in PdoOf(node[p], ReportedMissing[p])
    BY DEF TransitionInv, ChildInv, PnpTypeOK
  <2>2. node[p] \in {"none", "idle", "started", "failed", "lost", "surprised", "queried", "refused",
                     "stopQueried", "stopRefused", "stopped"}
    BY <2>1 DEF TransitionInv, PnpTypeOK, Busy
  <2> QED BY <2>1, <2>2 DEF PdoOf, StateOf, Ext
<1> QED BY <1>1, TransitionsHold, PTL

\* The manager knows no PDO that was destroyed.
THEOREM KnownAreChildren == PnpSpec => []KnownPdosExist
<1>1. TransitionInv => KnownPdosExist BY DEF TransitionInv, ChildInv, KnownPdosExist
<1> QED BY <1>1, TransitionsHold, PTL

-----------------------------------------------------------------------------
(* What is reported.                                                       *)

\* Initially nothing is reported.
LEMMA ReportInit == PnpInit => ReportInv
<1> SUFFICES ASSUME PnpInit PROVE ReportInv
  OBVIOUS
<1>1. TransitionInv BY TransitionInit
<1> QED BY <1>1 DEF PnpInit, ReportInv, FoundOnce, ScanInv, Seen, ReportedInv

\* Most requests touch nothing of this.
LEMMA QuietStep ==
  ASSUME ReportInv, UNCHANGED <<bus, children, bookVars, reported, scanVars>>
  PROVE  FoundOnce' /\ ScanInv' /\ ReportedInv'
BY DEF ReportInv, FoundOnce, ScanInv, Seen, ReportedInv, bookVars, scanVars

\* Who is removed was not in the last report.
LEMMA RemovalStep ==
  ASSUME ReportInv, FdoRemove \/ \E p \in Pdo : PdoRemove(p)
  PROVE  FoundOnce' /\ ScanInv' /\ ReportedInv'
<1> USE DEF ReportInv, FoundOnce, ScanInv, Seen, ReportedInv, scanVars
<1>1. CASE FdoRemove
  <2>1. children' = {} /\ ~scanning' /\ changed' BY <1>1 DEF FdoRemove, Destroy
  <2> QED BY <2>1
<1>2. ASSUME NEW p \in Pdo, PdoRemove(p) PROVE FoundOnce' /\ ScanInv' /\ ReportedInv'
  <2>1. UNCHANGED <<bus, reported, scanVars>> /\ ~scanning BY <1>2 DEF PdoRemove
  <2>2. CASE Deletes(p)
    <3>1. p \notin reported BY <2>2 DEF Deletes, TransitionInv, ChildInv
    <3>2. Destroy({p}) BY <1>2, <2>2 DEF PdoRemove
    <3>3. /\ children' = children \ {p}
          /\ \A q \in Pdo \ {p} : function'[q] = function[q] /\ ReportedMissing'[q] = ReportedMissing[q]
      BY <3>2 DEF Destroy
    <3>4. children \subseteq Pdo /\ reported \subseteq Pdo BY DEF TransitionInv, PnpTypeOK
    <3>5. FoundOnce' BY <3>3, <3>4
    <3>6. \A q \in reported : function'[q] = function[q] BY <3>1, <3>3, <3>4
    <3>7. ReportedInv' BY <2>1, <3>6
    <3> QED BY <2>1, <3>5, <3>7
  <2>3. CASE ~Deletes(p)
    <3>1. UNCHANGED <<children, bookVars>> BY <1>2, <2>3 DEF PdoRemove
    <3> QED BY <2>1, <3>1, QuietStep
  <2> QED BY <2>2, <2>3
<1> QED BY <1>1, <1>2

\* A scan finds, slot by slot, what is there.
LEMMA SearchStep ==
  ASSUME ReportInv,
         \/ QueryRelations \/ ReportRelations
         \/ \E s \in Slot : HardwareChanges(s) \/ ScanEmpty(s) \/ ScanFinds(s) \/ ScanCreates(s)
  PROVE  FoundOnce' /\ ScanInv' /\ ReportedInv'
<1>0. PnpTypeOK BY DEF ReportInv, TransitionInv
<1> USE <1>0 DEF PnpTypeOK
<1>1. CASE QueryRelations
  <2>1. /\ UNCHANGED <<children, function, ReportedMissing>>
        /\ \A p \in children : NotPresent'[p]
        /\ unscanned' = Slot /\ scanning'
    BY <1>1 DEF QueryRelations
  <2> QED BY <2>1 DEF ReportInv, FoundOnce, ScanInv, Seen, ReportedInv
<1>2. CASE ReportRelations
  <2>1. /\ UNCHANGED <<bus, children, function>>
        /\ \A p \in children : ReportedMissing[p] => ReportedMissing'[p]
        /\ reported' = Seen
        /\ scanning /\ unscanned = {} /\ ~scanning' /\ changed' = changed
    BY <1>2 DEF ReportRelations, Seen
  <2>2. FoundOnce' BY <2>1 DEF ReportInv, FoundOnce
  <2>3. ASSUME ~changed PROVE ReportedInv'
    <3>1. /\ \A p \in Seen : function[p] = <<function[p][1], bus[function[p][1]]>>
          /\ \A s \in Slot : bus[s] # none => \E p \in Seen : function[p] = <<s, bus[s]>>
      BY <2>1, <2>3 DEF ReportInv, ScanInv
    <3>2. \A p \in Seen : p \in children /\ ~ReportedMissing[p]
      BY <2>1 DEF ReportInv, TransitionInv, ChildInv, Seen
    <3>3. \A p, q \in Seen : function[p][1] = function[q][1] => p = q
      BY <3>1, <3>2 DEF ReportInv, FoundOnce
    <3> QED BY <2>1, <3>1, <3>3 DEF ReportedInv
  <2> QED BY <2>1, <2>2, <2>3 DEF ScanInv, ReportedInv
<1>3. ASSUME NEW s \in Slot, HardwareChanges(s) PROVE FoundOnce' /\ ScanInv' /\ ReportedInv'
  BY <1>3 DEF HardwareChanges, ReportInv, FoundOnce, ScanInv, Seen, ReportedInv, bookVars
<1>4. ASSUME NEW s \in Slot, ScanEmpty(s) PROVE FoundOnce' /\ ScanInv' /\ ReportedInv'
  BY <1>4 DEF ScanEmpty, ReportInv, FoundOnce, ScanInv, Seen, ReportedInv, bookVars
<1>5. ASSUME NEW s \in Slot, ScanFinds(s) PROVE FoundOnce' /\ ScanInv' /\ ReportedInv'
  <2>1. PICK p \in Found(s) : NotPresent' = [NotPresent EXCEPT ![p] = FALSE]
    BY <1>5 DEF ScanFinds
  <2>2. p \in children /\ function[p] = <<s, bus[s]>> BY <2>1 DEF Found
  <2>3. /\ UNCHANGED <<bus, children, function, ReportedMissing, scanning, changed>> /\ scanning
        /\ unscanned' = unscanned \ {s}
    BY <1>5 DEF ScanFinds
  <2>4. Seen' = Seen \union {p} BY <2>1, <2>2, <2>3 DEF Seen
  <2>5. FoundOnce' BY <2>3 DEF ReportInv, FoundOnce
  <2>6. \A q \in Seen' : /\ function'[q][1] \notin unscanned'
                         /\ ~changed => function'[q] = <<function'[q][1], bus'[function'[q][1]]>>
    BY <2>2, <2>3, <2>4 DEF ReportInv, ScanInv
  <2>7. ~changed => \A r \in Slot \ unscanned' : bus[r] # none => \E q \in Seen' : function[q] = <<r, bus[r]>>
    BY <2>2, <2>3, <2>4 DEF ReportInv, ScanInv
  <2> QED BY <2>3, <2>5, <2>6, <2>7 DEF ScanInv, ReportedInv
<1>6. ASSUME NEW s \in Slot, ScanCreates(s) PROVE FoundOnce' /\ ScanInv' /\ ReportedInv'
  <2>1. PICK p \in Pdo \ children :
          /\ children' = children \union {p}
          /\ function' = [function EXCEPT ![p] = <<s, bus[s]>>]
          /\ NotPresent' = [NotPresent EXCEPT ![p] = FALSE]
          /\ ReportedMissing' = [ReportedMissing EXCEPT ![p] = FALSE]
    BY <1>6 DEF ScanCreates
  <2>2. /\ UNCHANGED <<bus, scanning, changed>> /\ scanning /\ bus[s] \in Device /\ Found(s) = {}
        /\ unscanned' = unscanned \ {s}
    BY <1>6 DEF ScanCreates
  <2>3. /\ function'[p] = <<s, bus[s]>> /\ ~NotPresent'[p]
        /\ \A q \in children : /\ q # p /\ function'[q] = function[q] /\ NotPresent'[q] = NotPresent[q]
                               /\ ReportedMissing'[q] = ReportedMissing[q]
    BY <2>1
  <2>4. Seen' = Seen \union {p} /\ p \notin Seen /\ Seen \subseteq children BY <2>1, <2>3 DEF Seen
  <2>5. FoundOnce'
    <3>1. \A q \in children : ~ReportedMissing[q] => function[q] # <<s, bus[s]>>
      BY <2>2 DEF Found
    <3>2. \A q \in children' : function'[q] \in Slot \X Device
      BY <2>1, <2>2, <2>3 DEF ReportInv, FoundOnce
    <3>3. \A q, r \in children' :
            ~ReportedMissing'[q] /\ ~ReportedMissing'[r] /\ function'[q] = function'[r] => q = r
      BY <2>1, <2>3, <3>1 DEF ReportInv, FoundOnce
    <3> QED BY <3>2, <3>3 DEF FoundOnce
  <2>6. \A q \in Seen' : /\ function'[q][1] \notin unscanned'
                         /\ ~changed => function'[q] = <<function'[q][1], bus'[function'[q][1]]>>
    BY <2>2, <2>3, <2>4 DEF ReportInv, ScanInv
  <2>7. ~changed => \A r \in Slot \ unscanned' : bus[r] # none => \E q \in Seen' : function'[q] = <<r, bus[r]>>
    BY <2>2, <2>3, <2>4 DEF ReportInv, ScanInv
  <2> QED BY <2>2, <2>5, <2>6, <2>7 DEF ScanInv, ReportedInv
<1> QED BY <1>1, <1>2, <1>3, <1>4, <1>5, <1>6

\* Every step keeps the reports true.
LEMMA ReportStep == ReportInv /\ [PnpNext]_pnpVars => ReportInv'
<1> SUFFICES ASSUME ReportInv, [PnpNext]_pnpVars PROVE ReportInv'
  OBVIOUS
<1>1. TransitionInv' BY TransitionStep DEF ReportInv
<1>2. CASE UNCHANGED pnpVars
  BY <1>1, <1>2, QuietStep DEF ReportInv, pnpVars, managerVars, bookVars, scanVars
<1>3. CASE \/ AddDevice \/ FdoStart \/ FdoStartFails \/ FdoQueryRemove \/ FdoCancelRemove
           \/ FdoQueryStop \/ FdoCancelStop \/ BusVanishes \/ FdoSurpriseRemoval
  <2>1. UNCHANGED <<bus, children, bookVars, reported, scanVars>>
    BY <1>3 DEF AddDevice, FdoStart, FdoStartFails, FdoQueryRemove, FdoCancelRemove, FdoQueryStop,
                FdoCancelStop, BusVanishes, FdoSurpriseRemoval, BusGoes
  <2> QED BY <1>1, <2>1, QuietStep DEF ReportInv
<1>4. CASE \E p \in Pdo :
             \/ PdoStart(p) \/ PdoStartFails(p) \/ PdoQueryRemove(p) \/ PdoCancelRemove(p)
             \/ PdoQueryStop(p) \/ PdoStop(p) \/ PdoCancelStop(p) \/ PdoSurpriseRemoval(p)
  <2>1. UNCHANGED <<bus, children, bookVars, reported, scanVars>>
    BY <1>4 DEF PdoStart, PdoStartFails, PdoQueryRemove, PdoCancelRemove, PdoQueryStop, PdoStop,
                PdoCancelStop, PdoSurpriseRemoval, Goes, Becomes, bookVars
  <2> QED BY <1>1, <2>1, QuietStep DEF ReportInv
<1>5. CASE FdoRemove \/ \E p \in Pdo : PdoRemove(p)
  BY <1>1, <1>5, RemovalStep DEF ReportInv
<1>6. CASE \/ QueryRelations \/ ReportRelations
           \/ \E s \in Slot : HardwareChanges(s) \/ ScanEmpty(s) \/ ScanFinds(s) \/ ScanCreates(s)
  BY <1>1, <1>6, SearchStep DEF ReportInv
<1> QED BY <1>2, <1>3, <1>4, <1>5, <1>6 DEF PnpNext

\* The answer to a query for relations is the bus.
THEOREM ReportIsTheBus == PnpSpec => []ReportsTheBus
<1>1. ReportInv => ReportsTheBus BY DEF ReportInv, ReportedInv, ReportsTheBus
<1> QED BY <1>1, ReportInit, ReportStep, PTL DEF PnpSpec
=============================================================================
