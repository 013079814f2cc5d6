------------------------------- MODULE MCOspf -------------------------------
(***************************************************************************)
(* The parts of ospfd side by side: the interfaces and the election, the   *)
(* neighbours and the database exchange, the database and its flooding,    *)
(* and the route calculation.  What each needs of the others is part of    *)
(* its own module, so a behaviour is one of one part: `running' says which.*)
(***************************************************************************)
EXTENDS OspfInterface, OspfNeighbor, TLC, SequencesExt

CONSTANTS
    LsRefresh, LsMaxAge, LsStubs, LsABRs, LsASBRs, LsMetrics, LsMetricWrap, LsOthers, LsTxCap,
    MaxLsTicks, MaxLsEvents,
    SpfSelf, SpfAreas, SpfDbs, SpfInf, SpfWrap, MaxSpfRuns

VARIABLES
    running,
    lsdb, lsNet, lsPast, lsTicks, lsEvents,
    spfDb, spfTable, spfRib, spfOk, spfRuns

lsOf == <<lsdb, lsNet, lsPast, lsTicks, lsEvents>>
spfOf == <<spfDb, spfTable, spfRib, spfOk, spfRuns>>

Ls == INSTANCE OspfLsdb
Spf == INSTANCE OspfSpf

-----------------------------------------------------------------------------
(* The values of the constants *)

\* The priorities of the routers decide.
Ascending == [r \in Router |-> r]

\* What the two neighbours' databases hold before the exchange.
LsaOf(a, t) == [adv |-> a, typ |-> t]
ThreeAndTwo ==
    (1 :> {LsaOf(1, "router"), LsaOf(4, "ext"), LsaOf(1, "net")})
        @@ (2 :> {LsaOf(2, "router"), LsaOf(3, "router")})

\* An area without LSAs.
NoArea == [rtr |-> << >>, bits |-> << >>, net |-> << >>, sum3 |-> {}, sum4 |-> {}, ext |-> {}]

\* Areas of routers 1 to 5 with point-to-point links es of cost c[e], in
\* both directions, and stub links to network 13.
LinkOf(t, i, c) == [typ |-> t, id |-> i, cost |-> c]
Pairs == {<<1, 2>>, <<1, 3>>, <<2, 3>>, <<2, 4>>, <<3, 4>>}
Mesh(es, c, stub) ==
    LET at(r) == SetToSeq({e \in es : r \in {e[1], e[2]}})
        links(r) == [i \in DOMAIN at(r) |->
                       LinkOf("P", IF at(r)[i][1] = r THEN at(r)[i][2] ELSE at(r)[i][1], c[at(r)[i]])]
    IN [NoArea EXCEPT
          !.rtr = [r \in 1 .. 5 |->
                     IF r = stub THEN Append(links(r), LinkOf("S", <<13, 0>>, 1)) ELSE links(r)],
          !.bits = [r \in 1 .. 5 |-> {}]]

\* All costs equal (7 twice reaches SpfInf), and all but one equal; and a
\* vertex that is relaxed after it was expanded.
Equal == {Mesh(es, [e \in Pairs |-> 2], 4) : es \in SUBSET Pairs}
         \cup {Mesh(Pairs \ {e}, [x \in Pairs |-> 7], 4) : e \in Pairs}
Unequal == {Mesh(Pairs, [e \in Pairs |-> IF e = dear THEN 3 ELSE 1], 4) : dear \in Pairs}
Late == Mesh(Pairs \cup {<<4, 5>>},
             (<<1, 2>> :> 9) @@ (<<3, 4>> :> 5) @@ [e \in Pairs \cup {<<4, 5>>} |-> 1], 5)

\* Routers 1, 2 and 3 on network 11, router 4 behind 1 and 3; some without
\* a router LSA, and router 2 with the link to an earlier designated router.
Lan(missing, stale) ==
    [NoArea EXCEPT
       !.rtr = [r \in (1 .. 4) \ missing |->
                 CASE r = 1 -> <<LinkOf("T", <<11, 2>>, 2), LinkOf("P", 4, 2)>>
                   [] r = 2 -> <<LinkOf("T", <<11, IF stale THEN 9 ELSE 2>>, 2), LinkOf("S", <<13, 0>>, 1)>>
                   [] r = 3 -> <<LinkOf("T", <<11, 2>>, 2), LinkOf("P", 4, 2), LinkOf("S", <<13, 0>>, 3)>>
                   [] r = 4 -> <<LinkOf("P", 1, 2), LinkOf("P", 3, 2)>>],
       !.bits = [r \in 1 .. 4 |-> {}],
       !.net = [n \in {<<11, 2>>} |-> {1, 2, 3}]]
Lans == {Lan(m, s) : m \in {{}, {2}, {3}, {4}}, s \in BOOLEAN}

\* Routers 2 and 3 as border routers with summaries and external routes.
Summary(a, d, m) == [adv |-> a, dest |-> d, metric |-> m]
External(a, m, e, f) == [adv |-> a, dest |-> 14, metric |-> m, e |-> e, fwd |-> f]
Border(b3, s3, x) ==
    [Mesh({<<1, 2>>, <<1, 3>>}, [e \in Pairs |-> 2], 2) EXCEPT
       !.bits = [r \in 1 .. 5 |-> IF r = 2 THEN {"B"} ELSE IF r = 3 THEN b3 ELSE {}],
       !.sum3 = s3, !.sum4 = {Summary(2, 7, 1), Summary(3, 7, 1)}, !.ext = x]
Borders ==
    {Border(b3, s3, x) :
        b3 \in {{"B"}, {"E"}, {"B", "E"}},
        s3 \in {{Summary(2, 15, 1), Summary(3, 15, 1)},
                {Summary(2, 15, 1), Summary(3, 15, 2), Summary(2, 13, 1), Summary(1, 16, 1),
                 Summary(3, 17, 16777215)}},
        x \in {{External(3, 1, TRUE, 0), External(7, 1, FALSE, 0)},
               {External(3, 3, FALSE, 0), External(7, 1, TRUE, 7)}}}

Databases ==
    {[a \in {0, 1} |-> IF a = 0 THEN d ELSE NoArea] : d \in Equal \cup Unequal \cup {Late} \cup Lans \cup Borders}
    \cup {[a \in {0, 1} |-> IF a = 0 THEN d ELSE Mesh({<<1, 3>>}, [e \in Pairs |-> 3], 3)] :
             d \in {Lan({}, FALSE)} \cup Borders}

\* The constants of the neighbours are such as the theorem about them supposes.
ASSUME OspfConstants == OnbrConstants

-----------------------------------------------------------------------------
\* The variables of a part that is not running do not change, or are "off".
OspfInit ==
    /\ running \in {"interface", "neighbor", "lsdb", "spf"}
    /\ Init /\ OnbrInit
    /\ \/ running = "lsdb" /\ Ls!LsInit
       \/ /\ running # "lsdb"
          /\ lsdb = "off" /\ lsNet = "off" /\ lsPast = "off" /\ lsTicks = "off" /\ lsEvents = "off"
    /\ \/ running = "spf" /\ Spf!SpfInit
       \/ /\ running # "spf"
          /\ spfDb = "off" /\ spfTable = "off" /\ spfRib = "off" /\ spfOk = "off" /\ spfRuns = "off"

OspfNext ==
    /\ UNCHANGED running
    /\ \/ running = "interface" /\ Next /\ UNCHANGED <<onbrVars, lsOf, spfOf>>
       \/ running = "neighbor" /\ OnbrNext /\ UNCHANGED <<vars, lsOf, spfOf>>
       \/ running = "lsdb" /\ Ls!LsNext /\ UNCHANGED <<vars, onbrVars, spfOf>>
       \/ running = "spf" /\ Spf!SpfNext /\ UNCHANGED <<vars, onbrVars, lsOf>>

OspfSpec == OspfInit /\ [][OspfNext]_<<running, vars, onbrVars, lsOf, spfOf>>

-----------------------------------------------------------------------------
(* Properties *)

\* Databases: a router's own LSA stays alive at both routers, the neighbour
\* has the current instance once all is delivered, no sequence number is
\* overtaken by an older one, and the threads live (ospfLsdb.go,
\* ospfLsdbTimer.go, ospfFlooding.go), with the exceptions each part names.
DatabasesSafe ==
    running = "lsdb" =>
        /\ Ls!LsTypeOK /\ Ls!RouterLsaKeptAlive /\ Ls!NeighborIsCurrent
        /\ Ls!SequenceNeverOvertaken /\ Ls!LsdbThreadsLive

\* Routes: ribd has exactly the last table, no cost is below that of a
\* shortest path and in a regular area each is that of one, the next hops
\* there are all those of the shortest paths, and the calculation survives
\* every area whose distances are in range (ospfSPF.go, ospfRoutingTbl.go).
RoutesSafe ==
    running = "spf" =>
        /\ Spf!SpfTypeOK /\ Spf!RibIsTable /\ Spf!CostsAreShortest
        /\ Spf!NextHopsAreShortest /\ Spf!SpfLives
=============================================================================
