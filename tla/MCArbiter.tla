----------------------------- MODULE MCArbiter -----------------------------
(***************************************************************************)
(* Small instances of Arbiter: eight addresses, two devices.               *)
(***************************************************************************)
EXTENDS Arbiter

CONSTANTS d1, d2

MCOrdering == <<Window(1, 5)>>
MCReserved == <<Window(5, 5)>>
MCWindows == {<<>>, <<Window(4, 6)>>}

Alt(lo, hi, len, align) ==
  [len |-> len, align |-> align, min |-> lo, max |-> hi, shared |-> FALSE, preferred |-> FALSE,
   alternative |-> FALSE, readOnly |-> FALSE, prefetchable |-> FALSE]
Shared(alt) == [alt EXCEPT !.shared = TRUE]
Preferred(alt) == [alt EXCEPT !.preferred = TRUE]
ReadOnly(alt) == [alt EXCEPT !.readOnly = TRUE]
Prefetchable(alt) == [alt EXCEPT !.prefetchable = TRUE]

Asks(d, alts) ==
  [alts |-> alts, owner |-> d, source |-> "pnp", bootConfig |-> FALSE, legacyDriver |-> FALSE]
Legacy(d, alts) == [Asks(d, alts) EXCEPT !.source = "legacyReported"]
AsBooted(d, alts) == [Asks(d, alts) EXCEPT !.bootConfig = TRUE]
Taken(d, alts) == [Asks(d, alts) EXCEPT !.legacyDriver = TRUE]

\* Devices that fit and that do not, side by side and in each other's way; two of
\* them may share; read-only memory before other memory, which testing the two again
\* marks as an alias too, and read-only memory where that was put; one that wants
\* nothing and one that gives up what it has.
MCLists ==
  { <<Asks(d1, <<Alt(0, 7, 2, 2)>>), Asks(d2, <<Alt(1, 6, 3, 1)>>)>>,
    <<Asks(d1, <<Shared(Alt(2, 3, 2, 1)), Alt(0, 7, 4, 4)>>), Asks(d2, <<Shared(Alt(2, 4, 2, 1))>>)>>,
    <<Asks(d1, <<Alt(0, 7, 3, 1)>>), Asks(d2, <<Prefetchable(Alt(0, 7, 2, 1))>>), Asks(d2, <<Alt(3, 3, 1, 1)>>)>>,
    <<Asks(d2, <<Alt(4, 5, 2, 1)>>), Asks(d2, <<Alt(5, 5, 1, 1)>>)>>,
    <<Asks(d1, <<Preferred(Alt(6, 7, 1, 1)), Alt(1, 3, 2, 2)>>), Asks(d1, <<Alt(0, 7, 0, 1)>>), Asks(d2, <<Alt(5, 7, 3, 1)>>)>>,
    <<Legacy(d2, <<Alt(2, 3, 2, 1)>>)>>,
    <<AsBooted(d1, <<Alt(2, 3, 2, 1)>>), Asks(d1, <<ReadOnly(Alt(7, 7, 1, 1))>>)>>,
    <<Asks(d1, <<Alt(0, 1, 1, 1)>>), Taken(d2, <<Alt(0, 7, 1, 1)>>)>>,
    <<Asks(d1, <<Alt(0, 7, 4, 4)>>), Asks(d1, <<Alt(0, 0, 0, 1)>>), Asks(d2, <<Alt(1, 6, 4, 1)>>)>>,
    <<Asks(d1, <<Shared(Alt(3, 6, 2, 1))>>)>>,
    <<Asks(d1, <<ReadOnly(Alt(6, 7, 2, 1))>>), Asks(d2, <<Alt(0, 3, 1, 1)>>)>>,
    <<Asks(d1, <<ReadOnly(Alt(3, 3, 1, 1))>>)>>,
    <<Asks(d1, <<>>)>>,
    <<Asks(d1, <<>>), Asks(d2, <<Alt(1, 2, 1, 1)>>)>> }

\* Two configurations that overlap, one that is not aligned, and read-only memory.
MCBootLists ==
  { <<Asks(d1, <<Alt(2, 3, 2, 1)>>), Asks(d2, <<Alt(3, 4, 2, 1)>>), Asks(d2, <<Alt(5, 6, 2, 2)>>),
      Asks(d2, <<ReadOnly(Alt(7, 7, 1, 1))>>)>> }

\* The first device is placed at the top, where both places the second one has are.
MCSearchLists ==
  { <<Asks(d1, <<Alt(0, 7, 2, 2)>>), Asks(d2, <<Alt(6, 7, 2, 1), Alt(5, 7, 3, 1)>>)>> }
MCWhole == <<Window(0, 7)>>
MCNoWindows == {<<>>}
MCNothing == <<>>
=============================================================================
