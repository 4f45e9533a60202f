------------------------------- MODULE Arbiter -------------------------------
(***************************************************************************)
(* The memory arbiter of the PCI bus driver (tiamoPCI/source/              *)
(* pci.arbiter.cpp, pci.ar_memio.cpp): which device gets which range of    *)
(* addresses.  The plug-and-play manager tests a list of requirements; the *)
(* arbiter searches, with backtracking, for a range for each entry in a    *)
(* copy of the current allocation, and the copy is committed or rolled     *)
(* back.  A tested assignment may be tested again later, without a search. *)
(*                                                                         *)
(* The handlers run under the arbiter's lock.  The search, which is where  *)
(* the difficulty lies, is a step per turn of the loops of                 *)
(* ArbAllocateEntry; the other handlers are one step each.                 *)
(***************************************************************************)
EXTENDS Integers, Sequences, SequencesExt, FiniteSets, FiniteSetsExt, Bags

CONSTANTS
  Top,              \* the last address; addresses wrap around after it
  Lists,            \* the arbitration lists that are tested
  BootLists,        \* those of the configurations the firmware left
  DefaultOrdering,  \* the ranges to be tried, in order, from the registry
  ReservedList,     \* the ranges to be kept free, from the registry
  WindowSets        \* the prefetchable windows a bus may be started with

Address == 0..Top

\* A requirement: a place of some length in a window.
Alternative ==
  [min : Address, max : Address, len : 0..(Top + 1), align : 1..(Top + 1),
   shared : BOOLEAN, preferred : BOOLEAN, alternative : BOOLEAN, readOnly : BOOLEAN, prefetchable : BOOLEAN]

\* An entry of a list belongs to a device and holds alternatives; none of them
\* is longer than its own window, so that it can be scored.  They are descriptors
\* of the same memory: all prefetchable (ASSERT, pci.ar_memio.cpp:723) and all
\* read-only (copies of one, pci.enum.cpp:1295-1321), or none.
IsEntry(e) ==
  /\ e \in [owner : {e.owner}, alts : Seq(Alternative), source : {"pnp", "legacyReported", "legacyAssigned"},
            bootConfig : BOOLEAN, legacyDriver : BOOLEAN]
  /\ \A k \in DOMAIN e.alts :
       /\ e.alts[k].min <= e.alts[k].max
       /\ e.alts[k].len <= e.alts[k].max - e.alts[k].min + 1
       /\ e.alts[k].prefetchable = e.alts[1].prefetchable /\ e.alts[k].readOnly = e.alts[1].readOnly

IsOrdering(orderings) == orderings \in Seq([start : Address, end : Address])

\* The firmware left one descriptor of each resource (ASSERT, pci.arbiter.cpp:710).
ASSUME ArbiterAssumption ==
  /\ Top \in Nat
  /\ \A l \in Lists \union BootLists : l \in Seq({l[i] : i \in DOMAIN l}) /\ \A i \in DOMAIN l : IsEntry(l[i])
  /\ \A l \in BootLists : \A i \in DOMAIN l : Len(l[i].alts) = 1
  /\ \A ws \in WindowSets \union {DefaultOrdering, ReservedList} : IsOrdering(ws)

\* Nothing asks for an alignment coarser than its length: a base address register
\* is aligned to its length (pci.utils.cpp:2089), what is preferred is not aligned
\* (pci.enum.cpp:1312), a bridge's window is aligned to a power of two that its length
\* has (pci.ppbridge.cpp:657).  Otherwise rounding up may wrap around.
ASSUME NaturalAlignment ==
  \A l \in Lists : \A i \in DOMAIN l : \A k \in DOMAIN l[i].alts :
    l[i].alts[k].len # 0 => l[i].alts[k].align <= l[i].alts[k].len

VARIABLES
  windows,               \* the prefetchable windows the bus was started with
  NormalOrderingList,    \* the lists armem_StartArbiter built from them
  PrefetchableOrderingList,
  allocation,            \* Arbiter->Allocation, a bag of ranges
  possible,              \* Arbiter->PossibleAllocation
  TransactionInProgress,
  booted,                \* the boot lists allocated so far
  list,                  \* the arbitration list tested last, sorted
  tested,                \* that of the last successful test,
  assigned,              \* and what it assigned
  pc,                    \* where in ArbAllocateEntry the search is
  level,                 \* CurrentState, an index of the stack
  backtracking,
  stack                  \* AllocationStack

searchVars == <<list, pc, level, backtracking, stack>>
busVars == <<windows, NormalOrderingList, PrefetchableOrderingList>>
arbiterVars == <<busVars, allocation, possible, TransactionInProgress, booted, tested, assigned, searchVars>>

-----------------------------------------------------------------------------
N == Top + 1
Overlap(s1, e1, s2, e2) == ~(e1 < s2 \/ e2 < s1)
Window(s, e) == [start |-> s, end |-> e]

\* The priorities: small positive numbers for an ordering, negative ones for
\* an ordering of a preferred alternative.
PRIORITY_NULL == 0
PRIORITY_PREFERRED_RESERVED == 98
PRIORITY_RESERVED == 99
PRIORITY_EXHAUSTED == 100

IsFixed(a) == (a.max - a.min + 1) % N = a.len % N

\* The pieces of an ordering that lie outside s..e, the upper one first.
Pieces(o, s, e) ==
  IF ~Overlap(o.start, o.end, s, e) THEN <<o>>
  ELSE (IF e < o.end THEN <<Window(e + 1, o.end)>> ELSE <<>>)
         \o (IF s > o.start THEN <<Window(o.start, s - 1)>> ELSE <<>>)

PruneOrdering(orderings, w) ==
  FlattenSeq([i \in DOMAIN orderings |-> Pieces(orderings[i], w.start, w.end)])

\* ... and outside each of a list of windows.
PrunedBy(orderings, ws) ==
  LET pruned[n \in 0..Len(ws)] == IF n = 0 THEN orderings ELSE PruneOrdering(pruned[n - 1], ws[n])
  IN  pruned[Len(ws)]

\* The lists armem_StartArbiter builds when the bus has prefetchable windows:
\* prefetchable memory is taken from a window, or else from anywhere else.
Normal(ws) == PrunedBy(Append(DefaultOrdering, Window(0, Top)), ws)
Prefetched(ws) == PrunedBy(ws, ReservedList) \o Normal(ws)

\* There is a priority for each member of a list (Count is a USHORT, the three
\* special priorities are MAXLONG and the two before it).
ASSUME OrderingAssumption ==
  \A ws \in WindowSets :
    Len(Normal(ws)) < PRIORITY_PREFERRED_RESERVED /\ Len(Prefetched(ws)) < PRIORITY_PREFERRED_RESERVED

HasPrefetchableResource == windows # <<>>

\* The ordering list armem_PreprocessEntry chooses for an entry.
OrderingList(e) ==
  IF ~HasPrefetchableResource \/ e.source = "legacyReported" THEN DefaultOrdering
  ELSE IF e.alts[1].prefetchable THEN PrefetchableOrderingList
  ELSE NormalOrderingList

-----------------------------------------------------------------------------
(* Range lists.                                                            *)

Ranges(bag) == BagToSet(bag)
Copies(r, bag) == IF r \in Ranges(bag) THEN bag[r] ELSE 0

\* The bag of the values of a function.
Values(f) == [r \in {f[i] : i \in DOMAIN f} |-> Cardinality({i \in DOMAIN f : f[i] = r})]

\* Slip: the list is emptied, not only of the owners' ranges.
WithoutAnyone(bag, l) == EmptyBag

\* RtlDeleteOwnersRanges for every device of a list.
WithoutOwners(bag, l) ==
  LET owners == {l[i].owner : i \in DOMAIN l}
      kept == {r \in Ranges(bag) : r.owner \notin owners}
  IN  [r \in kept |-> bag[r]]

RangeOf(e, alt, attributes, s, t) ==
  [start |-> s, end |-> t, owner |-> e.owner, shared |-> alt.shared, attributes |-> attributes]

\* The attributes armem_PreprocessEntry sets for read-only memory, and for
\* what a legacy driver reports.
AttributesFor(e, alts) ==
  IF alts[1].readOnly \/ (IsFixed(alts[1]) /\ Len(alts) = 1 /\ e.source = "legacyReported")
  THEN {"alias"} ELSE {}
Attributes(e) == AttributesFor(e, e.alts)

\* The attributes whose ranges a request does not see.
Available(e) ==
  Attributes(e) \union
    (IF e.bootConfig \/ e.source # "pnp" THEN {"bootAllocated"} ELSE {})

\* Slip: it is enough that the request may share.
BlocksUnlessShared(r, e, alt) == r.attributes \intersect Available(e) = {} /\ ~alt.shared

Blocks(r, e, alt) == r.attributes \intersect Available(e) = {} /\ ~(alt.shared /\ r.shared)

\* Where RtlFindRange may place a requirement in the window lo..hi.
Placements(e, alt, lo, hi) ==
  {s \in lo..hi :
     /\ s % alt.align = 0
     /\ s + alt.len - 1 <= hi
     /\ \A r \in Ranges(possible) :
          Overlap(r.start, r.end, s, s + alt.len - 1) => ~Blocks(r, e, alt)}

\* ArbOverrideConflict: a fixed requirement that conflicts with ranges of the
\* device itself only.
Overrides(e, alt, lo, hi) ==
  LET inTheWay == {r \in Ranges(possible) :
                     /\ Overlap(r.start, r.end, lo, hi)
                     /\ r.attributes \intersect Available(e) = {}}
  IN  IsFixed(alt) /\ inTheWay # {} /\ \A r \in inTheWay : r.owner = e.owner

-----------------------------------------------------------------------------
(* A transaction.                                                          *)

ArbiterInit ==
  /\ windows = <<>>
  /\ NormalOrderingList = <<>> /\ PrefetchableOrderingList = <<>>
  /\ allocation = EmptyBag
  /\ possible = EmptyBag
  /\ TransactionInProgress = FALSE
  /\ booted = {}
  /\ list = <<>>
  /\ tested = <<>> /\ assigned = <<>>
  /\ pc = "idle"
  /\ level = 0
  /\ backtracking = FALSE
  /\ stack = <<>>

Idle == pc = "idle" /\ ~TransactionInProgress

\* The number of places a requirement has, as armemio_ScoreRequirement
\* weighs it while that number fits in a byte.
Score(alt) ==
  LET first == alt.min + ((-alt.min) % alt.align)
  IN  (alt.max - first - alt.len + 1) \div alt.align + 1
        + (IF alt.preferred \/ alt.alternative THEN 0 ELSE 256)

WorkSpace(e) ==
  LET sum[n \in 0..Len(e.alts)] == IF n = 0 THEN 0 ELSE sum[n - 1] + Score(e.alts[n])
  IN  sum[Len(e.alts)]

\* ArbSortArbitrationList: by score, and otherwise as they were.
Sorted(l) ==
  LET Before(i, j) == \/ WorkSpace(l[i]) < WorkSpace(l[j])
                      \/ WorkSpace(l[i]) = WorkSpace(l[j]) /\ i <= j
      Rank(j) == Cardinality({i \in DOMAIN l : Before(i, j)})
  IN  [n \in DOMAIN l |-> l[CHOOSE j \in DOMAIN l : Rank(j) = n]]

\* Only entries with alternatives get a place on the stack.
Wanting(l) ==
  LET wanting[n \in 0..Len(l)] ==
        IF n = 0 THEN <<>>
        ELSE IF l[n].alts = <<>> THEN wanting[n - 1] ELSE Append(wanting[n - 1], l[n])
  IN  wanting[Len(l)]

StackEntry(e) ==
  [cur |-> 0, lo |-> 0, hi |-> 0, start |-> 1, end |-> 0, prio |-> [k \in DOMAIN e.alts |-> PRIORITY_NULL]]

TestAllocation(l) ==
  /\ Idle
  /\ \E sorted \in {Sorted(l)} : \E wanted \in {Wanting(sorted)} :
       /\ list' = sorted
       /\ IF wanted = <<>>
            THEN /\ TransactionInProgress' = TRUE
                 /\ tested' = sorted /\ assigned' = <<>>
                 /\ UNCHANGED <<pc, level, backtracking, stack>>
            ELSE /\ pc' = "enter"
                 /\ level' = 1
                 /\ stack' = [i \in DOMAIN wanted |-> StackEntry(wanted[i])]
                 /\ UNCHANGED <<backtracking, TransactionInProgress, tested, assigned>>
  /\ possible' = WithoutOwners(allocation, l)
  /\ UNCHANGED <<busVars, allocation, booted>>

CommitAllocation ==
  /\ TransactionInProgress /\ pc = "idle"
  /\ allocation' = possible
  /\ possible' = EmptyBag
  /\ TransactionInProgress' = FALSE
  /\ tested' = <<>> /\ assigned' = <<>>
  /\ UNCHANGED <<busVars, booted, searchVars>>

RollbackAllocation ==
  /\ TransactionInProgress /\ pc = "idle"
  /\ possible' = EmptyBag
  /\ TransactionInProgress' = FALSE
  /\ UNCHANGED <<busVars, allocation, booted, tested, assigned, searchVars>>

\* Slip: a range of one address more than its length.
RangeOneMore(e, alt, attributes, s) == RangeOf(e, alt, attributes, s, s + alt.len)

RangeAt(e, alt, attributes, s) == RangeOf(e, alt, attributes, s, s + alt.len - 1)

\* ArbRetestAllocation and ArbBootAllocation use one state for the entries of a
\* list in turn; attributes set for an entry stay set for those after it.
Kept(attributes, i) == UNION {attributes[j] : j \in {j \in DOMAIN attributes : j <= i}}

\* An assignment is tested again for the list it is of, each of whose entries
\* has one (ASSERT, pci.arbiter.cpp:633).
RetestAllocation ==
  LET placed == {i \in DOMAIN assigned : assigned[i].alt.len # 0}
      attributes == [i \in DOMAIN assigned |-> AttributesFor(assigned[i].entry, <<assigned[i].alt>>)]
  IN  /\ Idle /\ assigned # <<>> /\ Wanting(tested) = tested
      /\ possible' =
           WithoutOwners(allocation, tested) (+)
             Values([i \in placed |->
               RangeAt(assigned[i].entry, assigned[i].alt, Kept(attributes, i), assigned[i].start)])
      /\ list' = tested
      /\ TransactionInProgress' = TRUE
      /\ UNCHANGED <<busVars, allocation, booted, tested, assigned, pc, level, backtracking, stack>>

\* What armem_PreprocessEntry refuses: a device that a legacy driver has taken.
IsBusy(e) == e.legacyDriver /\ e.source = "pnp"

\* What the firmware set up is taken as it is, also where it conflicts; if one
\* entry is refused, nothing is.
IsValid(alt) == alt.len > 0 /\ alt.min % alt.align = 0 /\ alt.max - alt.min + 1 = alt.len

BootAllocation(l) ==
  LET attributes == [i \in {i \in DOMAIN l : IsValid(l[i].alts[1])} |-> Attributes(l[i])]
  IN  /\ Idle /\ l \notin booted
      /\ \A i \in DOMAIN attributes : ~IsBusy(l[i])
      /\ allocation' =
           allocation (+)
             Values([i \in DOMAIN attributes |->
               RangeAt(l[i], l[i].alts[1], {"bootAllocated"} \union Kept(attributes, i), l[i].alts[1].min)])
      /\ possible' = EmptyBag
      /\ booted' = booted \union {l}
      /\ tested' = <<>> /\ assigned' = <<>>
      /\ UNCHANGED <<busVars, TransactionInProgress, searchVars>>

\* The bus is started, with or without prefetchable windows, between
\* transactions; its devices are given their resources anew.
StartArbiter(ws) ==
  /\ Idle
  /\ windows' = ws
  /\ NormalOrderingList' = IF ws = <<>> THEN <<>> ELSE Normal(ws)
  /\ PrefetchableOrderingList' = IF ws = <<>> THEN <<>> ELSE Prefetched(ws)
  /\ tested' = <<>> /\ assigned' = <<>>
  /\ UNCHANGED <<allocation, possible, TransactionInProgress, booted, searchVars>>

-----------------------------------------------------------------------------
(* The search.                                                             *)

Entry == Wanting(list)[level]
Current == stack[level]
CurrentAlternative == Entry.alts[Current.cur]

\* The stack is built anew by the next test.
Ends == pc' = "idle" /\ level' = 0 /\ backtracking' = FALSE /\ stack' = <<>>

\* Slip: a test that fails does not free its copy.
FailsKeepingTheCopy == Ends /\ UNCHANGED <<possible, TransactionInProgress, tested, assigned, list>>

Fails ==
  /\ Ends
  /\ possible' = EmptyBag
  /\ UNCHANGED <<TransactionInProgress, tested, assigned, list>>

Goes(where) == pc' = where /\ UNCHANGED <<TransactionInProgress, tested, assigned, list>>

EntryIsBusy == pc = "enter" /\ IsBusy(Entry) /\ Fails

Enters == pc = "enter" /\ ~IsBusy(Entry)

EnterForward ==
  /\ Enters /\ ~backtracking
  /\ Goes("next")
  /\ UNCHANGED <<possible, level, backtracking, stack>>

\* Give the range of the entry back (RtlDeleteRange takes the first of the owner's
\* ranges with that start and end; a device has one).  The entry above is to be tried
\* with all its alternatives again.
Backtrack ==
  LET placed == RangeOf(Entry, CurrentAlternative, Attributes(Entry), Current.start, Current.end)
      below == (Current.start - 1) % N
      goesOn == below <= Current.lo /\ below >= CurrentAlternative.min
  IN  /\ Enters /\ backtracking /\ CurrentAlternative.len # 0
      /\ possible' = possible (-) SetToBag({placed})
      /\ stack' = [stack EXCEPT ![level + 1].cur = 0, ![level].hi = IF goesOn THEN below ELSE @]
      /\ backtracking' = FALSE
      /\ Goes(IF goesOn THEN "find" ELSE "next")
      /\ UNCHANGED level

BacktrackNothing ==
  /\ Enters /\ backtracking /\ CurrentAlternative.len = 0
  /\ stack' = [stack EXCEPT ![level + 1].cur = 0]
  /\ backtracking' = FALSE
  /\ Goes("fail")
  /\ UNCHANGED <<possible, level>>

\* Slip: nothing comes after the reserved ranges but the reserved ranges.
IsSpentIfFixed(alt, p) == p # PRIORITY_NULL /\ IsFixed(alt)

\* Nothing else is to be tried of an alternative.
IsSpent(alt, p) ==
  \/ p \in {PRIORITY_RESERVED, PRIORITY_PREFERRED_RESERVED}
  \/ p # PRIORITY_NULL /\ IsFixed(alt)

\* ArbpUpdatePriority: the first ordering after the one tried last that has
\* room; then the reserved ranges; then nothing.
UpdatePriority(alt, p, orderings) ==
  LET tried == IF p < 0 THEN -p ELSE p
      fits == {i \in tried + 1 .. Len(orderings) :
                 LET o == orderings[i] IN
                   /\ Overlap(alt.min, alt.max, o.start, o.end)
                   /\ Min({alt.max, o.end}) - Max({alt.min, o.start}) + 1 >= alt.len}
  IN  IF IsSpent(alt, p)
        THEN PRIORITY_EXHAUSTED
      ELSE IF fits = {}
        THEN IF alt.preferred THEN PRIORITY_PREFERRED_RESERVED ELSE PRIORITY_RESERVED
      ELSE IF alt.preferred THEN -Min(fits) ELSE Min(fits)

Priorities ==
  LET alts == Entry.alts
      orderings == OrderingList(Entry)
  IN  IF Current.cur = 0
        THEN [k \in DOMAIN alts |-> UpdatePriority(alts[k], PRIORITY_NULL, orderings)]
        ELSE [Current.prio EXCEPT ![Current.cur] = UpdatePriority(alts[Current.cur], @, orderings)]

\* The first of the alternatives with the lowest priority.
Lowest(prio) ==
  {Min({k \in DOMAIN prio : \A j \in DOMAIN prio : prio[k] <= prio[j]})}

\* Slip: the ordering is not cut to what the alternative asks for.
UntrimmedOrdering(alt, p) ==
  IF p >= PRIORITY_PREFERRED_RESERVED \/ alt.len = 0 THEN Window(alt.min, alt.max)
  ELSE OrderingList(Entry)[IF p < 0 THEN -p ELSE p]

\* The window of an alternative, before it is trimmed.
Untrimmed(alt, p) ==
  IF p >= PRIORITY_PREFERRED_RESERVED \/ alt.len = 0 THEN Window(alt.min, alt.max)
  ELSE LET o == OrderingList(Entry)[IF p < 0 THEN -p ELSE p]
       IN  Window(Max({alt.min, o.start}), Min({alt.max, o.end}))

\* ... and trimmed to whole places; the arithmetic wraps around.
Trimmed(alt, w) ==
  LET up == (w.start + alt.align - 1) % N
      last == (w.end - (alt.len - 1)) % N
  IN  IF alt.len = 0 THEN w
      ELSE Window(up - (up % alt.align), (last - (last % alt.align) + alt.len - 1) % N)

CannotBeAligned(alt, w) ==
  alt.len # 0 /\ alt.len - 1 > (w.end - Trimmed(alt, w).start) % N

\* Slip: one priority too many.
IsAcceptableReserved(p) == ~HasPrefetchableResource \/ p <= PRIORITY_RESERVED

\* armem_GetNextAllocationRange accepts reserved ranges only of preferred
\* alternatives when the bus has prefetchable windows.
IsAcceptable(p) ==
  \/ ~HasPrefetchableResource
  \/ Entry.source = "legacyReported"
  \/ p <= PRIORITY_PREFERRED_RESERVED

\* One turn of ArbGetNextAllocationRange, with the priorities brought up to date.
NextRangeOf(prio, k) ==
  LET alt == Entry.alts[k]
      raw == Untrimmed(alt, prio[k])
      w == Trimmed(alt, raw)
      again == \/ CannotBeAligned(alt, raw)
               \/ w = Window(Current.lo, Current.hi) /\ Current.cur = k
      chosen == [Current EXCEPT !.prio = prio, !.cur = k]
  IN  IF prio[k] = PRIORITY_EXHAUSTED
        THEN stack' = [stack EXCEPT ![level].prio = prio] /\ Goes("fail")
      ELSE IF again
        THEN stack' = [stack EXCEPT ![level] = chosen] /\ Goes("next")
      ELSE /\ stack' = [stack EXCEPT ![level] = [chosen EXCEPT !.lo = w.start, !.hi = w.end]]
           /\ Goes(IF IsAcceptable(prio[k]) THEN "find" ELSE "fail")

NextRange ==
  /\ pc = "next"
  /\ \E prio \in {Priorities} : \E k \in Lowest(prio) : NextRangeOf(prio, k)
  /\ UNCHANGED <<possible, level, backtracking>>

\* The place ArbFindSuitableRange finds, if any: RtlFindRange looks from the
\* top of the window.  Nothing is shared by devices of one driver for exclusive use
\* (ArbShareDriverExclusive): no requirement of the bus driver says so.
Found ==
  LET alt == CurrentAlternative
      places == Placements(Entry, alt, Current.lo, Current.hi)
  IN  IF Current.lo > Current.hi THEN {}
      ELSE IF alt.len = 0 THEN {Window(Current.lo, Current.lo)}
      ELSE IF places # {} THEN {Window(Max(places), Max(places) + alt.len - 1)}
      ELSE IF Overrides(Entry, alt, Current.lo, Current.hi)
        THEN {Window(Current.lo, Current.hi)}
      ELSE {}

Placed(w) == [stack EXCEPT ![level].start = w.start, ![level].end = w.end]

Place(w) ==
  IF CurrentAlternative.len = 0 THEN UNCHANGED possible
  ELSE possible' =
         possible (+) SetToBag({RangeOf(Entry, CurrentAlternative, Attributes(Entry), w.start, w.end)})

FindNothing ==
  /\ pc = "find" /\ Found = {}
  /\ Goes("next")
  /\ UNCHANGED <<possible, level, backtracking, stack>>

FindPlace ==
  /\ pc = "find" /\ level < Len(stack)
  /\ \E w \in Found : Place(w) /\ stack' = Placed(w)
  /\ level' = level + 1
  /\ Goes("enter")
  /\ UNCHANGED backtracking

\* All the entries have a range: the assignment is written into the list.
Assign(entries, done) ==
  assigned' = [i \in DOMAIN done |->
                [entry |-> entries[i], alt |-> entries[i].alts[done[i].cur], start |-> done[i].start]]

FindLastPlace ==
  /\ pc = "find" /\ level = Len(stack)
  /\ \E w \in Found : Place(w) /\ Assign(Wanting(list), Placed(w))
  /\ tested' = list
  /\ TransactionInProgress' = TRUE
  /\ Ends
  /\ UNCHANGED list

FailEntry ==
  /\ pc = "fail" /\ level > 1
  /\ level' = level - 1
  /\ backtracking' = TRUE
  /\ Goes("enter")
  /\ UNCHANGED <<possible, stack>>

FailTest ==
  /\ pc = "fail" /\ level = 1
  /\ Fails

Search ==
  /\ \/ EntryIsBusy \/ EnterForward \/ Backtrack \/ BacktrackNothing \/ NextRange
     \/ FindNothing \/ FindPlace \/ FindLastPlace \/ FailEntry \/ FailTest
  /\ UNCHANGED <<busVars, allocation, booted>>

ArbiterNext ==
  \/ \E l \in Lists : TestAllocation(l)
  \/ CommitAllocation
  \/ RollbackAllocation
  \/ RetestAllocation
  \/ \E l \in BootLists : BootAllocation(l)
  \/ \E ws \in WindowSets : StartArbiter(ws)
  \/ Search

\* The loop of ArbAllocateEntry does not wait for anything.
ArbiterSpec == ArbiterInit /\ [][ArbiterNext]_arbiterVars /\ WF_arbiterVars(Search)

-----------------------------------------------------------------------------
(* Properties.                                                             *)

Owners(l) == {l[i].owner : i \in DOMAIN l}

Device == UNION {Owners(l) : l \in Lists \union BootLists}

IsRange(r) ==
  /\ r.start \in Address /\ r.end \in r.start..Top
  /\ r.owner \in Device
  /\ r.shared \in BOOLEAN
  /\ r.attributes \subseteq {"alias", "bootAllocated"}

\* Type invariant; the stack exists only while a search goes on.
ArbTypeOK ==
  /\ \A bag \in {allocation, possible} : \A r \in Ranges(bag) : IsRange(r) /\ bag[r] > 0
  /\ windows \in WindowSets \union {<<>>}
  /\ TransactionInProgress \in BOOLEAN /\ backtracking \in BOOLEAN
  /\ booted \subseteq BootLists
  /\ pc \in {"idle", "enter", "next", "find", "fail"}
  /\ level = 0 <=> pc = "idle"
  /\ level \in 0..Len(stack)
  /\ \A i \in DOMAIN stack : stack[i].cur \in 0..Len(Wanting(list)[i].alts)
  /\ \A i \in DOMAIN assigned : assigned[i].start \in Address

\* Its device asks, with that length and a window around the range, for what the
\* arbiter marks as an alias: read-only memory, or what a legacy driver reports.
AskedAsAlias(r) ==
  \E l \in Lists : \E i \in DOMAIN l : \E k \in DOMAIN l[i].alts :
    /\ l[i].owner = r.owner /\ "alias" \in Attributes(l[i])
    /\ l[i].alts[k].min <= r.start /\ r.end <= l[i].alts[k].max
    /\ r.end = r.start + l[i].alts[k].len - 1

\* Two devices are never given the same address, unless both said that they share
\* it, or the firmware had given it to one of them, or both ranges are marked as
\* aliases and at least one is an alias.  The other may be ordinary memory: testing
\* an assignment again marks also the entries after an alias (Kept).  Holds of what
\* is allocated, and at every step of a search (ArbFindSuitableRange, and
\* ArbAddAllocation, which adds also if there is a conflict).
RangesExclusive ==
  \A bag \in {allocation, possible} : \A q, r \in Ranges(bag) :
    q.owner # r.owner /\ Overlap(q.start, q.end, r.start, r.end) =>
      \/ q.shared /\ r.shared
      \/ "bootAllocated" \in q.attributes \union r.attributes
      \/ "alias" \in q.attributes \intersect r.attributes /\ (AskedAsAlias(q) \/ AskedAsAlias(r))

\* A search, however often it backtracked, leaves in the copy what the other
\* devices had, what it assigned, and nothing else; testing the assignment
\* again makes the same copy, except that ranges may be marked as aliases that
\* were not (Kept); without a transaction there is no copy
\* (ArbBacktrackAllocation, ArbRetestAllocation, the __finally blocks).
CopyIsTheAssignment ==
  pc = "idle" =>
    IF ~TransactionInProgress THEN possible = EmptyBag
    ELSE \E more \in [DOMAIN assigned -> SUBSET {"alias"}] :
           possible =
             WithoutOwners(allocation, list) (+)
               Values([i \in {i \in DOMAIN assigned : assigned[i].alt.len # 0} |->
                 RangeAt(assigned[i].entry, assigned[i].alt,
                         Attributes(assigned[i].entry) \union more[i], assigned[i].start)])

\* Each entry is assigned a place that one of its alternatives asks for
\* (the trimming of ArbGetNextAllocationRange, the window shrunk on the way back).
AssignedAsAsked ==
  \A i \in DOMAIN assigned :
    LET x == assigned[i]
    IN  /\ x.alt \in {x.entry.alts[k] : k \in DOMAIN x.entry.alts}
        /\ x.start >= x.alt.min /\ x.start + x.alt.len <= x.alt.max + 1
        /\ x.alt.len # 0 => x.start % x.alt.align = 0

\* A device that did not ask for prefetchable memory is not assigned any: "make
\* sure we do not return a prefetchable range for those memory request without
\* prefethable flags set" (pci.ar_memio.cpp:839).  Preferred alternatives may
\* be placed in reserved ranges, and requests of legacy drivers anywhere.
PrefetchableKeptApart ==
  \A i \in DOMAIN assigned : \A n \in DOMAIN windows :
    LET x == assigned[i]
    IN  x.alt.prefetchable \/ x.alt.preferred \/ x.entry.source = "legacyReported" \/ x.alt.len = 0
        \/ ~Overlap(x.start, x.start + x.alt.len - 1, windows[n].start, windows[n].end)

\* Whatever is tested and committed, a device that is not in the list keeps its
\* ranges, and gains one only from the firmware (RtlDeleteOwnersRanges on a copy).
OthersKeepTheirRanges ==
  [][\A r \in Ranges(allocation) \union Ranges(allocation') :
       r.owner \notin Owners(list) =>
         /\ Copies(r, allocation') >= Copies(r, allocation)
         /\ Copies(r, allocation') > Copies(r, allocation) => "bootAllocated" \in r.attributes
    ]_arbiterVars

\* The search ends, whichever way it backtracks.
SearchEnds == pc # "idle" ~> pc = "idle"

\* A search that gives a range back moves on to the next window only when this
\* one has no other place: "have we run out space in this alternative move on
\* to the next?" (pci.arbiter.cpp:1358).
MovesOnOnlyWithoutRoom ==
  [][backtracking /\ pc' = "next" =>
       Placements(Entry, CurrentAlternative, Current.lo, Current.start - 1)' = {}]_arbiterVars
=============================================================================
