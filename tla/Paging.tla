------------------------------- MODULE Paging -------------------------------
(***************************************************************************)
(* Usage notifications for paging files in DF_DispatchPnp                  *)
(* (DiskFilter3/Dispatch.c).  Several threads of the system may announce,  *)
(* at the same time, that a paging file on the device comes into use or    *)
(* goes.  The filter counts the files and keeps the flag DO_POWER_PAGABLE  *)
(* of its device object: a device that holds a paging file is not powered  *)
(* with paged code.  The lower device answers each notification, and what  *)
(* it has agreed to is the set inUse.                                      *)
(***************************************************************************)
EXTENDS Integers

CONSTANT File       \* the paging files that come and go

VARIABLES
  CurrentPnpState,  \* DevExt->CurrentPnpState, zeroed by DF_AddDevice
  PagingCount,      \* DevExt->PagingCount
  PagingCountEvent, \* whether the event is signalled
  pagable,          \* DO_POWER_PAGABLE in the flags of the device object
  notice,           \* where the notification about each file is
  setPageable,      \* the handler's local variable, per notification
  inUse,            \* the files the lower device holds
  started           \* the device was started: only then is it notified

deviceVars == <<CurrentPnpState, PagingCount, PagingCountEvent, pagable, started>>
pagingVars == <<deviceVars, notice, setPageable, inUse>>

\* The number of the plug-and-play request that starts a device.
IRP_MN_START_DEVICE == 0

PagingInit ==
  /\ CurrentPnpState = 0
  /\ PagingCount = 0
  /\ PagingCountEvent = TRUE
  /\ pagable = TRUE
  /\ notice = [f \in File |-> "none"]
  /\ setPageable = [f \in File |-> FALSE]
  /\ inUse = {}
  /\ started = FALSE

Goes(f, from, to) ==
  /\ notice[f] = from
  /\ notice' = [notice EXCEPT ![f] = to]

StartDevice ==
  /\ started' = TRUE
  /\ CurrentPnpState' = IRP_MN_START_DEVICE
  /\ UNCHANGED <<PagingCount, PagingCountEvent, pagable, notice, setPageable, inUse>>

\* A notification arrives: one that adds a file the lower device does not
\* hold, or one that takes a file away.  The handler compares the state of
\* the device and leaves the switch, or goes on to the event.
AddArrives(f) ==
  /\ started /\ f \notin inUse
  /\ Goes(f, "none", IF CurrentPnpState = 0 THEN "passed" ELSE "adding")
  /\ setPageable' = [setPageable EXCEPT ![f] = FALSE]
  /\ UNCHANGED <<deviceVars, inUse>>

RemoveArrives(f) ==
  /\ started /\ f \in inUse
  /\ Goes(f, "none", "removing")
  /\ setPageable' = [setPageable EXCEPT ![f] = FALSE]
  /\ UNCHANGED <<deviceVars, inUse>>

\* KeWaitForSingleObject on a notification event: the event stays signalled.
\* The handler that removes the last file sets the flag before it forwards.
AddWaited(f) ==
  /\ PagingCountEvent
  /\ Goes(f, "adding", "addForwarded")
  /\ UNCHANGED <<deviceVars, setPageable, inUse>>

RemoveWaited(f) ==
  /\ PagingCountEvent
  /\ Goes(f, "removing", "removeForwarded")
  /\ IF PagingCount = 1
       THEN /\ pagable' = TRUE
            /\ setPageable' = [setPageable EXCEPT ![f] = TRUE]
       ELSE UNCHANGED <<pagable, setPageable>>
  /\ UNCHANGED <<started, CurrentPnpState, PagingCount, PagingCountEvent, inUse>>

\* A notification that left the switch is passed down and not looked at again.
PassedDown(f) ==
  /\ Goes(f, "passed", "none")
  /\ inUse' \in {inUse, inUse \union {f}}
  /\ UNCHANGED <<deviceVars, setPageable>>

\* The lower device agrees, and IoAdjustPagingPathCount counts.
AddSucceeds(f) ==
  /\ Goes(f, "addForwarded", "added")
  /\ inUse' = inUse \union {f}
  /\ PagingCount' = PagingCount + 1
  /\ UNCHANGED <<started, CurrentPnpState, PagingCountEvent, pagable, setPageable>>

RemoveSucceeds(f) ==
  /\ Goes(f, "removeForwarded", "answered")
  /\ inUse' = inUse \ {f}
  /\ PagingCount' = PagingCount - 1
  /\ UNCHANGED <<started, CurrentPnpState, PagingCountEvent, pagable, setPageable>>

\* The count is read again after it was adjusted.
AddCounted(f) ==
  /\ Goes(f, "added", "answered")
  /\ pagable' = (pagable /\ PagingCount # 1)
  /\ UNCHANGED <<started, CurrentPnpState, PagingCount, PagingCountEvent, setPageable, inUse>>

Fails(f) ==
  /\ \/ Goes(f, "addForwarded", "answered")
     \/ Goes(f, "removeForwarded", "answered")
  /\ pagable' = (pagable /\ ~setPageable[f])
  /\ setPageable' = [setPageable EXCEPT ![f] = FALSE]
  /\ UNCHANGED <<started, CurrentPnpState, PagingCount, PagingCountEvent, inUse>>

Completes(f) ==
  /\ Goes(f, "answered", "none")
  /\ PagingCountEvent' = TRUE
  /\ UNCHANGED <<started, CurrentPnpState, PagingCount, pagable, setPageable, inUse>>

PagingNext ==
  \/ StartDevice
  \/ \E f \in File :
       \/ AddArrives(f) \/ RemoveArrives(f) \/ AddWaited(f) \/ RemoveWaited(f)
       \/ PassedDown(f) \/ AddSucceeds(f) \/ RemoveSucceeds(f)
       \/ AddCounted(f) \/ Fails(f) \/ Completes(f)

PagingSpec == PagingInit /\ [][PagingNext]_pagingVars

\* When no notification is under way, the filter's device object is pagable
\* only if the device below holds no paging file: "It is also the time to
\* clear the Filter DO's DO_POWER_PAGABLE flag" (Dispatch.c:360-361).
PagableOnlyWithoutPagingFile ==
  (\A f \in File : notice[f] = "none") /\ pagable => inUse = {}
=============================================================================
