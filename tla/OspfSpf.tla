------------------------------ MODULE OspfSpf -------------------------------
(***************************************************************************)
(* The route calculation of ospfd: the graph of each area, the shortest    *)
(* path tree, the routing table and the routes given to ribd               *)
(* (src/ospf/server/ospfSPF.go, ospfRoutingTbl.go, ospfMultiArea.go,       *)
(* ospfASExternal.go).                                                     *)
(*                                                                         *)
(* Every message of the database thread starts a calculation, which here   *)
(* is one step: it finds whatever databases the areas have then.  The maps *)
(* it walks have no order, so the order in which stub networks, external   *)
(* LSAs and areas are taken is a choice.                                   *)
(*                                                                         *)
(* The database of an area is a record:                                    *)
(*   rtr    [router -> sequence of links [typ, id, cost]], the router LSAs,*)
(*          a link being "T"ransit, "P"oint-to-point or "S"tub; the id of  *)
(*          a transit or stub link is <<network, designated router or 0>>  *)
(*   bits   [router -> subset of {"B", "E"}], their border bits            *)
(*   net    [id -> set of attached routers], the network LSAs, at most one *)
(*          of a network                                                   *)
(*   sum3, sum4   sets of [adv, dest, metric], the summaries               *)
(*   ext    set of [adv, dest, metric, e, fwd], the external LSAs          *)
(* where LSAs of age MaxAge, which the code skips, are left out.  The      *)
(* address of router r on link x is <<r, x>>.  The summaries an area       *)
(* border router originates from the table are in OspfLsdb.                *)
(***************************************************************************)
EXTENDS Integers, Sequences, FiniteSets, SequencesExt, FiniteSetsExt, Functions

CONSTANTS
    SpfSelf,      \* this router
    SpfAreas,     \* the areas it has interfaces in
    SpfDbs,       \* the databases, [area -> database of the area]
    SpfInf,       \* 0xff00 in the code
    SpfWrap,      \* costs are uint16: 2^16 in the code
    MaxSpfRuns    \* bound on calculations

VARIABLES
    spfDb,        \* the databases of the last calculation
    spfTable,     \* GlobalRoutingTbl: [destination -> entry]
    spfRib,       \* the routes ribd holds for ospfd, [dest, ip, cost]
    spfOk,        \* the process has not panicked
    spfRuns

spfVars == <<spfDb, spfTable, spfRib, spfOk, spfRuns>>

R(r) == <<"R", r>>
N(n) == <<"N", n>>
Root == R(SpfSelf)

-----------------------------------------------------------------------------
(* The graph of an area *)

Links(d, r) == d.rtr[r]
HasLsa(d, r) == r \in DOMAIN d.rtr

\* The first link of the router to the network decides.
checkRouterLsaConsistency(d, r, n) ==
    HasLsa(d, r) /\ LET own == SelectSeq(Links(d, r), LAMBDA l : l.typ # "P" /\ l.id[1] = n[1])
                    IN own # <<>> /\ own[1].typ = "T"

findNetworkLsa(d, n) == n \in DOMAIN d.net

findRouterLsa(d, r) == HasLsa(d, r)

\* The edges of a router: stub links are kept apart, transit links to a
\* network without LSA are skipped.
RouterEdges(d, r) ==
    LET used == SelectSeq(Links(d, r), LAMBDA l :
                   l.typ = "P" \/ (l.typ = "T" /\ findNetworkLsa(d, l.id)))
    IN [i \in DOMAIN used |->
          [to |-> IF used[i].typ = "P" THEN R(used[i].id) ELSE N(used[i].id),
           cost |-> used[i].cost]]

NetworkEdges(d, n) ==
    LET ok == {r \in d.net[n] : checkRouterLsaConsistency(d, r, n)}
    IN [i \in 1 .. Cardinality(ok) |-> [to |-> R(SetToSeq(ok)[i]), cost |-> 0]]

Edges(d, v) == IF v[1] = "R" THEN RouterEdges(d, v[2]) ELSE NetworkEdges(d, v[2])

Targets(d, v) == {Edges(d, v)[i].to : i \in DOMAIN Edges(d, v)}

\* A router enters the graph unless a point-to-point link of it leads to a
\* router without LSA; it needs an edge unless it is this router.
UpdateAreaGraphRouterLsa(d, r) ==
    /\ HasLsa(d, r)
    /\ \A i \in DOMAIN Links(d, r) :
         Links(d, r)[i].typ = "P" => findRouterLsa(d, Links(d, r)[i].id)
    /\ RouterEdges(d, r) # <<>> \/ r = SpfSelf

UpdateAreaGraphNetworkLsa(d, n) == findNetworkLsa(d, n) /\ NetworkEdges(d, n) # <<>>

Enters(d, v) ==
    IF v[1] = "R" THEN UpdateAreaGraphRouterLsa(d, v[2]) ELSE UpdateAreaGraphNetworkLsa(d, v[2])

\* The graph grows from this router through the vertices that enter.
CreateAreaGraph(d) ==
    LET grow[i \in 0 .. Cardinality(DOMAIN d.rtr) + Cardinality(DOMAIN d.net)] ==
          IF i = 0 THEN {v \in {Root} : Enters(d, v)}
          ELSE LET g == grow[i - 1]
               IN g \cup {v \in UNION {Targets(d, u) : u \in g} : Enters(d, v)}
    IN grow[Cardinality(DOMAIN d.rtr) + Cardinality(DOMAIN d.net)]

-----------------------------------------------------------------------------
(* The tree: [vertex -> [dist, paths]], and `queue', the vertices not      *)
(* expanded yet with the distance they were found at, which stays          *)

Before(a, b) ==
    \/ a.dist < b.dist
    \/ a.dist = b.dist /\ a.key[1] = "N" /\ b.key[1] = "R"

\* The sort is stable: of equal vertices the one found first comes first.
FirstOf(queue) ==
    CHOOSE i \in DOMAIN queue :
        \A j \in DOMAIN queue \ {i} : IF j < i THEN Before(queue[i], queue[j])
                                      ELSE ~Before(queue[j], queue[i])

\* Fault: an equally long path replaces the one that is known.
RelaxReplaces(old, dist, paths) ==
    IF old.dist >= dist THEN [dist |-> dist, paths |-> paths] ELSE old

Relaxed(old, dist, paths) ==
    IF old.dist > dist THEN [dist |-> dist, paths |-> paths]
    ELSE IF old.dist = dist THEN [old EXCEPT !.paths = @ \cup paths]
    ELSE old

Follow(t, v, e) ==
    LET dist == (t.tree[v].dist + e.cost) % SpfWrap
        known == e.to \in DOMAIN t.tree
        old == IF known THEN t.tree[e.to] ELSE [dist |-> SpfInf, paths |-> {<<>>}]
        new == Relaxed(old, dist, {Append(p, v) : p \in t.tree[v].paths})
    IN [t EXCEPT !.tree = [u \in DOMAIN @ \cup {e.to} |-> IF u = e.to THEN new ELSE @[u]],
                 !.queue = IF known THEN @ ELSE Append(@, [key |-> e.to, dist |-> new.dist])]

\* An edge to a vertex that is not in the graph ends the calculation.
Expand(d, graph, t) ==
    LET i == FirstOf(t.queue)
        v == t.queue[i].key
        rest == [t EXCEPT !.queue = RemoveAt(@, i)]
    IN IF v \notin graph \/ ~(Targets(d, v) \subseteq graph) THEN [t EXCEPT !.err = TRUE]
       ELSE FoldLeft(LAMBDA s, e : Follow(s, v, e), rest, Edges(d, v))

ExecuteDijkstra(d) ==
    LET graph == CreateAreaGraph(d)
        start == [tree |-> [v \in {Root} |-> [dist |-> 0, paths |-> {<<>>}]],
                  queue |-> <<[key |-> Root, dist |-> 0]>>, err |-> FALSE]
        run[i \in 0 .. Cardinality(graph) + 1] ==
          IF i = 0 THEN start
          ELSE LET t == run[i - 1]
               IN IF t.err \/ t.queue = <<>> THEN t ELSE Expand(d, graph, t)
    IN run[Cardinality(graph) + 1]

-----------------------------------------------------------------------------
(* The routing table of an area: [destination -> entry] *)

\* findP2PNextHopIP wants the link in both directions; across a network the
\* next hop is the address there of the router behind it.  An adjacent
\* network has none.
NextHopOf(d, v, p) ==
    LET whole == Append(p, v)
        second == whole[2]
        back(r) == \E i \in DOMAIN Links(d, r) :
                      Links(d, r)[i].typ = "P" /\ Links(d, r)[i].id = SpfSelf
    IN IF second[1] = "R" THEN IF back(second[2]) THEN {<<second[2], SpfSelf>>} ELSE {}
       ELSE IF Len(whole) < 3 THEN {}
       ELSE {<<whole[3][2], second[2][1]>>}

NextHops(d, v, paths) == {<<ip, 0>> : ip \in UNION {NextHopOf(d, v, p) : p \in paths}}

RouterKey(d, r) ==
    <<CASE d.bits[r] = {"B", "E"} -> "asabr" [] d.bits[r] = {"B"} -> "abr"
        [] d.bits[r] = {"E"} -> "asbr" [] OTHER -> "int", r>>

KeyOf(d, v) == IF v[1] = "R" THEN RouterKey(d, v[2]) ELSE <<"net", v[2][1]>>

Entry(ptype, cost, nhs) == [ptype |-> ptype, cost |-> cost, nhs |-> nhs]

Put(tbl, k, e) == [x \in DOMAIN tbl \cup {k} |-> IF x = k THEN e ELSE tbl[x]]

UpdateRoutingTblForRouter(d, tree, v) ==
    Entry("intra", tree[v].dist, IF v = Root THEN {} ELSE NextHops(d, v, tree[v].paths))

UpdateRoutingTblForTNetwork(d, tree, v) ==
    Entry("intra", tree[v].dist, NextHops(d, v, tree[v].paths))

UpdateRoutingTbl(d, tree) ==
    [k \in {KeyOf(d, v) : v \in DOMAIN tree} |->
          LET v == CHOOSE u \in DOMAIN tree : KeyOf(d, u) = k
          IN IF v[1] = "R" THEN UpdateRoutingTblForRouter(d, tree, v)
             ELSE UpdateRoutingTblForTNetwork(d, tree, v)]

\* A distance of at least SpfInf leaves an empty path, whose first vertex
\* is then looked at.
Panics(tree) == \E v \in DOMAIN tree \ {Root} : <<>> \in tree[v].paths

AreaStubs(d) ==
    {[adv |-> r, id |-> Links(d, r)[i].id, cost |-> Links(d, r)[i].cost] :
        <<r, i>> \in {x \in (DOMAIN d.rtr) \X (1 .. 4) : x[2] \in DOMAIN Links(d, x[1])
                                                      /\ Links(d, x[1])[x[2]].typ = "S"}}

\* The first stub of a network stays, whatever the cost of the next.
UpdateRoutingTblWithStub(d, tree, tbl, s) ==
    LET k == <<"net", s.id[1]>>
    IN IF k \in DOMAIN tbl \/ R(s.adv) \notin DOMAIN tree THEN tbl
       ELSE Put(tbl, k, Entry("intra", (tree[R(s.adv)].dist + s.cost) % SpfWrap,
                              tbl[RouterKey(d, s.adv)].nhs))

HandleStubs(d, tree, tbl, order) ==
    FoldLeft(LAMBDA t, s : UpdateRoutingTblWithStub(d, tree, t, s), tbl, order)

\* The entry of a border router, by the kinds it may be listed under.
Border(tbl, kinds, r) ==
    LET at == SelectSeq(kinds, LAMBDA k : <<k, r>> \in DOMAIN tbl)
    IN IF at = <<>> THEN {} ELSE {tbl[<<at[1], r>>]}

Via(e, adv) == {<<h[1], adv>> : h \in e.nhs}

\* One route more of type `ptype': the cheaper stays, equals are merged.
Offer(tbl, k, ptype, cost, nhs) ==
    IF k \notin DOMAIN tbl THEN Put(tbl, k, Entry(ptype, cost, nhs))
    ELSE IF tbl[k].ptype = "intra" \/ tbl[k].cost < cost THEN tbl
    ELSE IF tbl[k].cost > cost THEN Put(tbl, k, Entry(ptype, cost, nhs))
    ELSE Put(tbl, k, [tbl[k] EXCEPT !.nhs = @ \cup nhs])

LSInfinity == 16777215

Used(s) == s.metric # LSInfinity /\ s.adv # SpfSelf

CalcInterAreaRoutes(d, tbl) ==
    FoldSet(LAMBDA s, t :
              IF ~Used(s) THEN t
              ELSE FoldSet(LAMBDA b, u : Offer(u, <<"net", s.dest>>, "inter",
                                               (b.cost + s.metric) % SpfWrap, Via(b, s.adv)),
                           t, Border(t, <<"abr", "asabr">>, s.adv)),
            tbl, d.sum3)

CalcASBorderRoutes(d, tbl) ==
    FoldSet(LAMBDA s, t :
              IF ~Used(s) THEN t
              ELSE FoldSet(LAMBDA b, u : Offer(u, <<"asbr", s.dest>>, "inter",
                                               (b.cost + s.metric) % SpfWrap, Via(b, 0)),
                           t, Border(t, <<"abr", "asabr">>, s.adv)),
            tbl, d.sum4)

\* A type 1 route that is not dearer than a type 2 one is merged into it.
OfferExternal(tbl, k, ptype, cost, nhs) ==
    IF k \notin DOMAIN tbl THEN Put(tbl, k, Entry(ptype, cost, nhs))
    ELSE LET old == tbl[k] IN
         IF \/ old.ptype \in {"intra", "inter"}
            \/ old.ptype = "ext1" /\ ptype = "ext2"
            \/ old.ptype = ptype /\ old.cost < cost
         THEN tbl
         ELSE IF \/ old.ptype = ptype /\ old.cost > cost
                 \/ old.ptype = "ext2" /\ old.cost < cost
         THEN Put(tbl, k, Entry(ptype, cost, nhs))
         ELSE Put(tbl, k, [old EXCEPT !.nhs = @ \cup nhs])

HandleASExternalLsa(d, tbl, order) ==
    FoldLeft(LAMBDA t, s :
               IF ~Used(s) THEN t
               ELSE FoldSet(LAMBDA b, u :
                              OfferExternal(u, <<"net", s.dest>>, IF s.e THEN "ext2" ELSE "ext1",
                                            (b.cost + s.metric) % SpfWrap, Via(b, s.adv)),
                            t, Border(t, <<"asbr", "asabr">>, IF s.fwd = 0 THEN s.adv ELSE s.fwd)),
             tbl, order)

Empty == [k \in {} |-> Entry("none", 0, {})]

\* An area whose tree cannot be built contributes nothing.
AreaTable(d, stubs, exts) ==
    LET t == ExecuteDijkstra(d)
    IN IF ~HasLsa(d, SpfSelf) \/ t.err THEN Empty
       ELSE HandleASExternalLsa(d,
              CalcASBorderRoutes(d,
                CalcInterAreaRoutes(d,
                  HandleStubs(d, t.tree, UpdateRoutingTbl(d, t.tree), stubs))), exts)

-----------------------------------------------------------------------------
(* The routes of ribd *)

\* The area that comes first keeps a destination.
ConsolidatingRoutingTbl(tables) ==
    FoldLeft(LAMBDA all, t : [k \in DOMAIN all \cup DOMAIN t |->
                                IF k \in DOMAIN all THEN all[k] ELSE t[k]],
             Empty, tables)

Installable(tbl) == {k \in DOMAIN tbl : k[1] = "net" /\ tbl[k].nhs # {}}

CompareRoutes(old, new) == old.cost = new.cost /\ old.nhs = new.nhs

DeleteRoute(rib, old, k) ==
    {x \in rib : ~(x.dest = k /\ \E h \in old[k].nhs : h[1] = x.ip)}

InstallRoute(rib, new, k) ==
    rib \cup {[dest |-> k, ip |-> h[1], cost |-> new[k].cost] : h \in new[k].nhs}

InstallRoutingTbl(rib, old, new) ==
    LET both == Installable(old) \cap Installable(new)
        stay == {k \in both : CompareRoutes(old[k], new[k])}
        gone == FoldSet(LAMBDA k, r : DeleteRoute(r, old, k), rib, Installable(old) \ stay)
    IN FoldSet(LAMBDA k, r : InstallRoute(r, new, k), gone, Installable(new) \ stay)

spfCalculation(db) ==
    \E stubs \in [SpfAreas -> UNION {SetToSeqs(AreaStubs(db[a])) : a \in SpfAreas}],
       exts \in [SpfAreas -> UNION {SetToSeqs(db[a].ext) : a \in SpfAreas}],
       areas \in SetToSeqs(SpfAreas) :
         LET table == ConsolidatingRoutingTbl(
                        [i \in DOMAIN areas |-> AreaTable(db[areas[i]], stubs[areas[i]], exts[areas[i]])])
         IN /\ \A a \in SpfAreas : /\ stubs[a] \in SetToSeqs(AreaStubs(db[a]))
                                   /\ exts[a] \in SetToSeqs(db[a].ext)
            /\ IF \E a \in SpfAreas : ~ExecuteDijkstra(db[a]).err /\ Panics(ExecuteDijkstra(db[a]).tree)
               THEN spfOk' = FALSE /\ UNCHANGED <<spfTable, spfRib>>
               ELSE /\ spfTable' = table
                    /\ spfRib' = InstallRoutingTbl(spfRib, spfTable, table)
                    /\ UNCHANGED spfOk

NoDb == [rtr |-> [r \in {} |-> <<>>], bits |-> [r \in {} |-> {}], net |-> [n \in {} |-> {}],
         sum3 |-> {}, sum4 |-> {}, ext |-> {}]

SpfInit ==
    /\ spfDb = [a \in SpfAreas |-> NoDb]
    /\ spfTable = Empty
    /\ spfRib = {}
    /\ spfOk = TRUE
    /\ spfRuns = 0

SpfNext ==
    /\ spfOk /\ spfRuns < MaxSpfRuns
    /\ spfRuns' = spfRuns + 1
    /\ spfDb' \in SpfDbs
    /\ spfCalculation(spfDb')

SpfSpec == SpfInit /\ [][SpfNext]_spfVars

-----------------------------------------------------------------------------
(* Properties *)

Kinds == {"net", "int", "abr", "asbr", "asabr"}

\* Type invariant.
SpfTypeOK ==
    /\ spfDb \in SpfDbs \/ spfRuns = 0
    /\ \A k \in DOMAIN spfTable :
         /\ k[1] \in Kinds
         /\ spfTable[k].cost \in 0 .. SpfWrap - 1
         /\ spfTable[k].ptype \in {"intra", "inter", "ext1", "ext2"}
    /\ \A x \in spfRib : x.dest[1] = "net" /\ x.cost \in 0 .. SpfWrap - 1

\* ribd holds exactly the networks of the last table that have a next hop,
\* with their costs: no calculation leaves a route of an earlier one behind.
RibIsTable ==
    spfRib = {[dest |-> x[1], ip |-> x[2][1], cost |-> spfTable[x[1]].cost] :
                 x \in UNION {{<<k, h>> : h \in spfTable[k].nhs} : k \in Installable(spfTable)}}

\* The length of the shortest path, as a reference: Bellman and Ford's
\* iteration over the edges.
ShortestFrom(d, from) ==
    LET vs == CreateAreaGraph(d)
        far == 10000000
        best[i \in 0 .. Cardinality(vs)] ==
          IF i = 0 THEN [v \in vs |-> IF v = from THEN 0 ELSE far]
          ELSE LET b == best[i - 1]
               IN [v \in vs |->
                     Min({b[v]} \cup UNION {{b[u] + Edges(d, u)[j].cost :
                                                j \in {x \in DOMAIN Edges(d, u) : Edges(d, u)[x].to = v}}
                                            : u \in vs})]
    IN best[Cardinality(vs)]

Closed(d) ==
    HasLsa(d, SpfSelf)
    /\ \A v \in CreateAreaGraph(d) : Targets(d, v) \subseteq CreateAreaGraph(d)

LinksIn(d) ==
    {[at |-> x[1], typ |-> Links(d, x[1])[x[2]].typ, id |-> Links(d, x[1])[x[2]].id,
      cost |-> Links(d, x[1])[x[2]].cost] :
        x \in {y \in (DOMAIN d.rtr) \X (1 .. 4) : y[2] \in DOMAIN Links(d, y[1])
                                                 /\ Links(d, y[1])[y[2]].typ # "S"}}

\* All interfaces cost the same and point-to-point links go both ways: the
\* order of discovery is then the order of distance.
Regular(d) ==
    /\ \A l, m \in LinksIn(d) : l.cost = m.cost
    /\ \A l \in LinksIn(d) : l.typ = "P" =>
         \E m \in LinksIn(d) : m.typ = "P" /\ m.at = l.id /\ m.id = l.at

InReach(d) ==
    Closed(d) /\ \A v \in CreateAreaGraph(d) : ShortestFrom(d, Root)[v] < SpfInf

\* The areas whose entries no other area can hide.
Calculated ==
    {a \in SpfAreas : /\ spfOk /\ spfRuns > 0
                      /\ \A b \in SpfAreas \ {a} : ~HasLsa(spfDb[b], SpfSelf)
                      /\ InReach(spfDb[a])}

\* Whenever the graph is closed and no distance overflows, every vertex has
\* an entry, none is cheaper than the shortest path, and in a regular area
\* each cost is that of the shortest path (ExecuteDijkstra keeps the queue
\* in the order of the distances at discovery).
CostsAreShortest ==
    \A a \in Calculated :
        LET d == spfDb[a]
            shortest == ShortestFrom(d, Root)
        IN \A v \in CreateAreaGraph(d) :
             /\ KeyOf(d, v) \in DOMAIN spfTable
             /\ spfTable[KeyOf(d, v)].cost >= shortest[v]
             /\ Regular(d) => spfTable[KeyOf(d, v)].cost = shortest[v]

\* In a regular area the next hops of a vertex are exactly the adjacent
\* routers a shortest path to it starts with: none is lost when equally
\* long paths are merged, and none stays from a longer one.
NextHopsAreShortest ==
    \A a \in Calculated :
        LET d == spfDb[a]
            shortest == ShortestFrom(d, Root)
            vs == CreateAreaGraph(d)
            near == {u \in vs \ {Root} :
                       /\ u[1] = "R"
                       /\ \/ u \in Targets(d, Root)
                          \/ \E n \in Targets(d, Root) : n[1] = "N" /\ u \in Targets(d, n)}
        IN Regular(d) =>
             \A v \in vs \ {Root} :
               {h[1][1] : h \in spfTable[KeyOf(d, v)].nhs} =
               {u[2] : u \in {x \in near : shortest[x] + ShortestFrom(d, x)[v] = shortest[v]}}

\* The calculation survives costs whose sums stay below the limit.
SpfLives == spfOk \/ \E a \in SpfAreas : HasLsa(spfDb[a], SpfSelf) /\ ~InReach(spfDb[a])
=============================================================================
