------------------------------- MODULE BgpRib -------------------------------
(***************************************************************************)
(* The BGP routing table (src/bgp/rib): the destinations, the paths the     *)
(* neighbours announce for them, the best path selection with ECMP and      *)
(* additional paths, the routes handed to the route manager (ribd), what    *)
(* the peers are told, the paths that wait for their next hop, aggregates,  *)
(* and the list the bulk get walks.                                         *)
(*                                                                          *)
(* The server goroutine makes every call but the bulk get, one at a time.   *)
(* Paths and destinations are objects compared by reference in the code:    *)
(* here they are positions in the sequences "path" and "dest", so an object *)
(* that was dropped and one created later for the same prefix differ.       *)
(* Go iterates over maps in any order; where the order can show, the        *)
(* operators below return the set of possible results.                      *)
(***************************************************************************)
EXTENDS Integers, Sequences, FiniteSets, SequencesExt, FiniteSetsExt, Functions, TLC

CONSTANTS BribPeers,     \* the neighbours
          BribPeer,        \* their settings [ebgp, id, addr, max]
          BribPrefixes,    \* the prefixes they announce
          BribUpdates,     \* UPDATEs: [peer, add, rem, attr, nh], add and rem sequences of
                           \* <<prefix, path id>>, attr [pref, ases, origin, loop, clusters, valid]
          BribNextHops,
          BribMulti,       \* multipath settings [ebgp, ibgp] to run with
          BribAddPaths,    \* AddPathCount
          MaxBribEvents    \* bound: calls into the table

VARIABLES bribTab,     \* the table: see Table below
          bribRibd,    \* the next hops ribd can resolve
          bribEvents   \* calls so far

bribVars == <<bribTab, bribRibd, bribEvents>>

NoPath == 0
NoDest == 0
Conn == "conn"
AggSrc == "agg"
AggPrefix == "g"
AllPrefixes == BribPrefixes \cup {AggPrefix}
ZeroNh == "0.0.0.0"

\* Path: a path object; "reach" says that its next hop has been resolved.
Path(peer, attr, nh, reach) == [peer |-> peer, attr |-> attr, nh |-> nh, reach |-> reach, parts |-> {}]

LocalAttr == [pref |-> 100, ases |-> 0, origin |-> 0, loop |-> FALSE, clusters |-> 0, valid |-> TRUE]

\* NewDestination: the paths by <<source, path id>>, the best one, the ones
\* installed, the routes made for them, the list shown to the user, path ids.
NewDestination(prefix) ==
    [prefix |-> prefix, at |-> << >>, best |-> NoPath, ecmp |-> {}, route |-> << >>, info |-> << >>,
     addp |-> {}, next |-> 1, free |-> << >>, recalc |-> FALSE, idx |-> 0]

\* Table: path and dest objects, destPathMap, routeList with activeGet and
\* routeListDirty, reachabilityMap, unreachablePaths, the neighbours' prefix
\* counts, the best path the peers were told, the routes ribd was given.
BribInit ==
    /\ \E m \in BribMulti :
        bribTab = [path |-> <<Path(Conn, LocalAttr, ZeroNh, TRUE)>>, dest |-> << >>,
                   map |-> [x \in AllPrefixes |-> NoDest], count |-> 0,
                   list |-> << >>, active |-> FALSE, dirty |-> FALSE,
                   cached |-> {}, waiting |-> {}, prefixes |-> [p \in BribPeers |-> 0],
                   told |-> [x \in AllPrefixes |-> NoPath], fib |-> [x \in AllPrefixes |-> {}],
                   multi |-> m, crash |-> FALSE, past |-> {}]
    /\ bribRibd \in {BribNextHops} \cup {BribNextHops \ {n} : n \in BribNextHops}
    /\ bribEvents = 0

-----------------------------------------------------------------------------
(* Paths                                                                    *)

IsNeighbor(t, p) == t.path[p].peer \in BribPeers
IsAggregate(t, p) == t.path[p].peer = AggSrc
IsExternal(t, p) == IsNeighbor(t, p) /\ BribPeer[t.path[p].peer].ebgp
\* getRouteSource: local before external before unknown.
RouteSource(t, p) == IF p = NoPath THEN 3 ELSE IF IsNeighbor(t, p) THEN 2 ELSE 1
\* calculatePref: the local preference, but a fixed one for external paths.
Pref(t, p) == IF IsExternal(t, p) THEN 100 ELSE t.path[p].attr.pref
IsReachable(t, p) == t.path[p].peer = Conn \/ t.path[p].reach

-----------------------------------------------------------------------------
(* The best path                                                            *)

\* Keep: the paths whose key is the lowest, in their order.
Keep(o, Key(_)) == IF Len(o) < 2 THEN o ELSE SelectSeq(o, LAMBDA p : \A q \in Range(o) : Key(p) <= Key(q))

HighestPref(t, o) == Keep(o, LAMBDA p : 0 - Pref(t, p))
SmallestAS(t, o) == Keep(o, LAMBDA p : t.path[p].attr.ases)

\* LowestOrigin: a path with a lower origin replaces the first one kept but
\* does not restart the list, so worse ones behind it stay.
LowestOrigin(t, o) ==
    LET step(s, i) ==
            LET g == t.path[o[i]].attr.origin
            IN  IF g > s.min THEN s
                ELSE [buf |-> [s.buf EXCEPT ![IF g < s.min THEN 1 ELSE s.idx + 1] = o[i]],
                      idx |-> s.idx + 1, min |-> g]
        r == FoldLeft(step, [buf |-> o, idx |-> 0, min |-> 3], [i \in 1..Len(o) |-> i])
    IN  SubSeq(r.buf, 1, r.idx)

WithoutIBGP(t, o) ==
    IF \E p \in Range(o) : IsExternal(t, p) THEN SelectSeq(o, LAMBDA p : IsExternal(t, p)) ELSE o

LowestBGPId(t, o) == Keep(o, LAMBDA p : BribPeer[t.path[p].peer].id)
ShorterClusterLen(t, o) == Keep(o, LAMBDA p : t.path[p].attr.clusters)
LowestPeerAddress(t, o) == Keep(o, LAMBDA p : BribPeer[t.path[p].peer].addr)

\* ECMPPaths: one group of paths for each resolved next hop.
ECMPPaths(t, o) == {SelectSeq(o, LAMBDA p : t.path[p].nh = n) : n \in {t.path[p].nh : p \in Range(o)}}

\* AddAddPaths: the possible results of adding a path for each next hop of a
\* stage that has none yet, cut to AddPathCount.
AddAddPaths(t, acc, stage) ==
    LET nhs(s) == {t.path[p].nh : p \in s}
        more(a) == {b \in SUBSET stage : /\ nhs(b) = nhs(stage) \ nhs(a)
                                         /\ \A p, q \in b : t.path[p].nh = t.path[q].nh => p = q}
        cut(a, b) == {c \in SUBSET (a \cup b) :
                        /\ a \subseteq c
                        /\ Cardinality(c) = Min({BribAddPaths, Cardinality(a \cup b)})}
    IN  UNION {IF Cardinality(a) >= BribAddPaths THEN {a} ELSE UNION {cut(a, b) : b \in more(a)} : a \in acc}

\* GetBGPId of a path that no neighbour announced is a nil dereference.
Panics(t, o) == Len(o) > 1 /\ ~IsNeighbor(t, o[1])

\* The pruning stages, one after the other.
Prune(t, o, stage) ==
    CASE stage = 1 -> HighestPref(t, o)
      [] stage = 2 -> SmallestAS(t, o)
      [] stage = 3 -> IF Len(o) > 1 THEN LowestOrigin(t, o) ELSE o
      [] stage = 4 -> WithoutIBGP(t, o)
      [] stage = 5 -> IF Panics(t, o) THEN o ELSE LowestBGPId(t, o)
      [] stage = 6 -> ShorterClusterLen(t, o)
      [] stage = 7 -> IF Panics(t, o) THEN o ELSE LowestPeerAddress(t, o)

\* What is taken from the paths left before each stage and after the last:
\* multipath groups before the stage that separates internal and external
\* paths, or after it.
Chosen(t, left, removed) ==
    LET both == t.multi.ebgp /\ t.multi.ibgp
        one == /\ ~both /\ Len(left[5]) > 1
               /\ IF IsExternal(t, left[5][1]) THEN t.multi.ebgp ELSE IsNeighbor(t, left[5][1]) /\ t.multi.ibgp
        addp[i \in 0..8] == CASE i = 0 -> {Range(Tail(left[8])) \ {left[8][1]}}
                              [] i = 8 -> AddAddPaths(t, addp[i - 1], removed)
                              [] OTHER -> AddAddPaths(t, addp[i - 1], Range(left[8 - i]) \ Range(left[9 - i]))
    IN  [best |-> left[8][1],
         groups |-> IF Len(left[4]) > 1 /\ both THEN ECMPPaths(t, left[4]) ELSE IF one THEN ECMPPaths(t, left[5]) ELSE {},
         addp |-> addp[8],
         panics |-> Panics(t, left[5])]

CalculateBestPath(t, o, removed) ==
    Chosen(t, FoldLeft(LAMBDA left, stage : Append(left, Prune(t, Last(left), stage)), <<o>>, [i \in 1..7 |-> i]), removed)

\* Fault: a path is considered whether its next hop resolves or not.
CandidatesAny(t, d) ==
    LET all == Range(t.dest[d].at)
    IN  {p \in all : \A q \in all : RouteSource(t, p) <= RouteSource(t, q)}

\* Candidates: the best path so far is not looked at again; the others must be
\* reachable and free of AS loops, and only the best source counts.
Candidates(t, d) ==
    LET D == t.dest[d]
        all == (IF D.best = NoPath THEN {} ELSE {D.best})
               \cup {p \in Range(D.at) : IsReachable(t, p) /\ ~t.path[p].attr.loop}
    IN  {p \in all : \A q \in all : RouteSource(t, p) <= RouteSource(t, q)}

Selections(t, d) ==
    LET c == Candidates(t, d)
        removed == {p \in Range(t.dest[d].at) : IsReachable(t, p) /\ ~t.path[p].attr.loop} \ c
        orders == {o \in SetToSeqs(c) : t.dest[d].best \in c => o[1] = t.dest[d].best}
    IN  IF Cardinality(c) > 1 \/ BribAddPaths > 0
        THEN {CalculateBestPath(t, o, removed) : o \in orders}
        ELSE {[best |-> o[1], groups |-> {}, addp |-> {{}}, panics |-> FALSE] : o \in orders}

\* Installed: of the best path's group the best one, of each other group one
\* that is installed already, or the first.
Installed(t, d, r) ==
    LET others == {g \in r.groups : r.best \notin Range(g)}
        keep(g) == LET in == SelectSeq(g, LAMBDA p : p \in t.dest[d].ecmp)
                   IN  IF in # << >> THEN in[1] ELSE g[1]
    IN  {r.best} \cup {keep(g) : g \in others}

\* ToRibd: routes of the server itself are not handed to ribd, aggregates are.
ToRibd(t, ps) == {t.path[p].nh : p \in {p \in ps : IsNeighbor(t, p) \/ IsAggregate(t, p)}}

\* Fault: new routes are added before the old ones are removed.
UpdateFibAddsFirst(t, x, gone, new) == [t.fib EXCEPT ![x] = (@ \cup ToRibd(t, new)) \ ToRibd(t, gone)]

\* UpdateFib: routes that are no longer installed are removed first, then the new ones added.
UpdateFib(t, x, gone, new) == [t.fib EXCEPT ![x] = (@ \ ToRibd(t, gone)) \cup ToRibd(t, new)]

\* SelectRouteForLocRib with updateRibOutInfo: peers hear of the best path only
\* when it was not installed before (or is an aggregate), and of its loss.
SelectRouteForLocRib(t, d) ==
    LET D == t.dest[d]
        set(best, ecmp, addp) ==
            [t EXCEPT !.dest[d].recalc = FALSE, !.dest[d].best = best, !.dest[d].ecmp = ecmp,
                      !.dest[d].addp = addp, !.fib = UpdateFib(t, D.prefix, D.ecmp \ ecmp, ecmp \ D.ecmp)]
    IN  IF ~D.recalc THEN {[t |-> t, action |-> "none"]}
        ELSE IF Candidates(t, d) = {}
        THEN {[t |-> [set(NoPath, {}, D.addp) EXCEPT !.told[D.prefix] = NoPath], action |-> "delete"]}
        ELSE UNION {{LET ecmp == Installed(t, d, r)
                         add == r.best \notin D.ecmp \/ IsAggregate(t, r.best)
                     IN  [t |-> [set(r.best, ecmp, a) EXCEPT !.told[D.prefix] = IF add THEN r.best ELSE @,
                                                             !.crash = @ \/ r.panics],
                          action |-> IF add THEN "add" ELSE "none"]
                     : a \in r.addp} : r \in Selections(t, d)}

-----------------------------------------------------------------------------
(* A destination's paths                                                    *)

\* ReleasePathId: the highest id lowers the mark, any other goes to the free list.
ReleasePathId(D, id) ==
    IF id + 1 = D.next THEN [D EXCEPT !.next = @ - 1] ELSE [D EXCEPT !.free = Append(@, id)]

GetNextPathId(D) ==
    IF D.free # << >> THEN [id |-> Last(D.free), D |-> [D EXCEPT !.free = Front(@)]]
    ELSE [id |-> D.next, D |-> [D EXCEPT !.next = @ + 1]]

AddOrUpdatePath(t, d, slot, p) ==
    LET D == t.dest[d]
        old == IF slot \in DOMAIN D.at THEN D.at[slot] ELSE NoPath
        idx == IF old # NoPath THEN D.route[old].idx ELSE Len(D.info) + 1
        best == IF D.best = old THEN NoPath ELSE D.best
        got == GetNextPathId(D)
    IN  IF old = p THEN t
        ELSE [t EXCEPT !.dest[d] =
                [got.D EXCEPT !.best = best,
                              !.recalc = @ \/ RouteSource(t, best) >= RouteSource(t, p),
                              !.route = (p :> [out |-> got.id, idx |-> idx]) @@ @,
                              !.info = IF old # NoPath THEN [@ EXCEPT ![idx] = p] ELSE Append(@, p),
                              !.at = (slot :> p) @@ @]]

\* RemovePath: the last entry of the user's list takes the removed one's place.
RemovePath(t, d, slot) ==
    LET D == t.dest[d]
        old == D.at[slot]
        r == D.route[old]
        last == Last(D.info)
        moved == Front([D.info EXCEPT ![r.idx] = last])
    IN  IF slot \notin DOMAIN D.at THEN t
        ELSE [t EXCEPT !.dest[d] =
                [ReleasePathId(D, r.out) EXCEPT
                    !.recalc = @ \/ old \in D.ecmp \/ D.best = old,
                    !.best = IF @ = old THEN NoPath ELSE @,
                    !.at = Restrict(@, DOMAIN @ \ {slot}),
                    !.info = moved,
                    !.route = Restrict([@ EXCEPT ![last].idx = r.idx], DOMAIN @ \ {old})]]

SlotsOf(t, d, src) == {s \in DOMAIN t.dest[d].at : s[1] = src}

RemoveAllPaths(t, d, src) ==
    FoldLeft(LAMBDA u, s : RemovePath(u, d, s), t, SetToSeq(SlotsOf(t, d, src)))

-----------------------------------------------------------------------------
(* The list of destinations and the bulk get                                *)

AddRoutesToRouteList(t, d) ==
    [t EXCEPT !.list = Append(@, d), !.dest[d].idx = Len(t.list) + 1]

RemoveRoutesFromRouteList(t, d) ==
    LET i == t.dest[d].idx
        last == Last(t.list)
        moved == [t EXCEPT !.list = Front([@ EXCEPT ![i] = last]),
                           !.dest = IF last = NoDest THEN @ ELSE [@ EXCEPT ![last].idx = i]]
    IN  IF i > Len(t.list) THEN [t EXCEPT !.crash = TRUE]
        ELSE IF t.active THEN [t EXCEPT !.list[i] = NoDest, !.dirty = TRUE]
        ELSE moved

\* ResetRouteList: destinations from the end fill the gaps.
ResetRouteList(t) ==
    LET step(s, i) ==
            LET after == {j \in i+1..Len(s.list) : s.list[j] # NoDest}
                j == Max(after)
            IN  IF i > Len(s.list) \/ s.list[i] # NoDest \/ after = {} THEN s
                ELSE [s EXCEPT !.list = [@ EXCEPT ![i] = s.list[j], ![j] = NoDest],
                               !.dest[s.list[j]].idx = i]
        r == FoldLeft(step, t, [i \in 1..Len(t.list) |-> i])
    IN  IF t.dirty THEN [r EXCEPT !.list = SelectSeq(@, LAMBDA d : d # NoDest), !.active = FALSE, !.dirty = FALSE]
        ELSE [t EXCEPT !.active = FALSE]

\* GetDest: looks a prefix up and creates its destination if asked to.
CreateDest(t, x) ==
    IF t.map[x] # NoDest THEN t
    ELSE LET d == Len(t.dest) + 1
         IN  AddRoutesToRouteList([t EXCEPT !.dest = Append(@, NewDestination(x)), !.map[x] = d, !.count = @ + 1], d)

DropIfEmpty(r, x, d) ==
    IF r.action = "delete" /\ r.t.dest[d].at = << >>
    THEN [RemoveRoutesFromRouteList(r.t, d) EXCEPT !.map[x] = NoDest, !.count = @ - 1]
    ELSE r.t

-----------------------------------------------------------------------------
(* Updates                                                                  *)

\* ThenEach: apply an operation with several possible results to each element.
ThenEach(T, seq, Op(_, _)) == FoldLeft(LAMBDA U, n : UNION {Op(u, n) : u \in U}, T, seq)

\* Withdraw: one withdrawn NLRI of ProcessRoutes; a path that waits for its
\* next hop stops waiting, but only if it is unreachable still.
Withdraw(t, src, n) ==
    LET d == t.map[n[1]]
        slot == <<src, n[2]>>
        had == slot \in DOMAIN t.dest[d].at
        old == t.dest[d].at[slot]
        u == [RemovePath(t, d, slot) EXCEPT
                !.waiting = IF had THEN {w \in @ : ~(w.path = old /\ w.dest = d /\ w.id = n[2] /\ ~IsReachable(t, old))} ELSE @,
                !.prefixes = IF had /\ src \in BribPeers THEN [@ EXCEPT ![src] = @ - 1] ELSE @]
    IN  IF d = NoDest THEN {t} ELSE {DropIfEmpty(r, n[1], d) : r \in SelectRouteForLocRib(u, d)}

CanAcceptNewPrefix(t, peer) == BribPeer[peer].max = 0 \/ t.prefixes[peer] < BribPeer[peer].max

\* Announce: one announced NLRI; a path whose next hop is unknown replaces the
\* old one but no best path is selected.
Announce(t, src, p, n) ==
    LET u == CreateDest(t, n[1])
        d == u.map[n[1]]
        slot == <<src, n[2]>>
        isNew == slot \notin DOMAIN u.dest[d].at /\ src \in BribPeers
        v == AddOrUpdatePath(IF isNew THEN [u EXCEPT !.prefixes[src] = @ + 1] ELSE u, d, slot, p)
    IN  IF isNew /\ ~CanAcceptNewPrefix(u, src) THEN {u}
        ELSE IF ~IsReachable(v, p)
        THEN {[v EXCEPT !.waiting = @ \cup {[nh |-> v.path[p].nh, path |-> p, dest |-> d, id |-> n[2]]}]}
        ELSE {r.t : r \in SelectRouteForLocRib(v, d)}

\* ProcessRoutes: withdrawals that are not announced again, then announcements.
ProcessRoutes(t, src, p, add, rem) ==
    LET gone == SelectSeq(rem, LAMBDA n : n \notin Range(add))
    IN  ThenEach(ThenEach({t}, gone, LAMBDA u, n : Withdraw(u, src, n)), add, LAMBDA u, n : Announce(u, src, p, n))

\* ProcessRoutesForReachableRoutes: every path that waited for the next hop is
\* put in place; the entries stay in unreachablePaths. A path that is in place
\* already becomes reachable without a new selection.
ProcessRoutesForReachableRoutes(t, nh) ==
    LET ws == {w \in t.waiting : w.nh = nh}
        stale(u, w) == ~(<<u.path[w.path].peer, w.id>> \in DOMAIN u.dest[w.dest].at
                         /\ u.dest[w.dest].at[<<u.path[w.path].peer, w.id>>] = w.path)
        one(u, w) ==
            LET v == [u EXCEPT !.path[w.path].reach = TRUE, !.past = @ \cup {"woken"} \cup (IF stale(u, w) THEN {"revived"} ELSE {})]
            IN  {r.t : r \in SelectRouteForLocRib(AddOrUpdatePath(v, w.dest, <<v.path[w.path].peer, w.id>>, w.path), w.dest)}
    IN  UNION {ThenEach({t}, o, one) : o \in SetToSeqs(ws)}

\* ProcessUpdate with TestNHAndProcessRoutes: an update that is not valid (its
\* own originator or cluster) is dropped, its withdrawals with it.
ProcessUpdate(up) ==
    LET known == up.nh \in bribTab.cached \cup bribRibd
        p == Len(bribTab.path) + 1
        adds == up.add # << >>
        t == IF ~adds THEN bribTab
             ELSE [bribTab EXCEPT !.path = Append(@, Path(up.peer, up.attr, up.nh, known)),
                                  !.cached = IF known THEN @ \cup {up.nh} ELSE @]
        routed == ProcessRoutes(t, up.peer, p, up.add, up.rem)
    IN  /\ \E u \in IF adds /\ ~up.attr.valid THEN {t}
                    ELSE IF adds /\ known THEN UNION {ProcessRoutesForReachableRoutes(v, up.nh) : v \in routed}
                    ELSE routed :
                bribTab' = u
        /\ UNCHANGED bribRibd

\* ProcessConnectedRoutes: redistributed routes share one path object.
ProcessConnectedRoutes(add, rem) ==
    /\ \E u \in ProcessRoutes(bribTab, Conn, 1, add, rem) : bribTab' = u
    /\ UNCHANGED bribRibd

Live(t) == {t.map[x] : x \in AllPrefixes} \ {NoDest}

RemoveUpdatesFromNeighbor(peer) ==
    /\ \E u \in ThenEach({bribTab}, SetToSeq(Live(bribTab)), LAMBDA t, d :
                   {DropIfEmpty(r, t.dest[d].prefix, d) : r \in SelectRouteForLocRib(RemoveAllPaths(t, d, peer), d)}) :
            bribTab' = [u EXCEPT !.prefixes[peer] = 0]
    /\ UNCHANGED bribRibd

\* RemoveAllNeighborPaths: forgets the neighbours' paths but neither their
\* routes, path ids and entries in the user's list, nor the installed ones.
RemoveAllNeighborPaths(t, d) ==
    LET D == t.dest[d]
        lost == D.best # NoPath /\ IsNeighbor(t, D.best)
    IN  [t EXCEPT !.dest[d].at = Restrict(@, {s \in DOMAIN @ : s[1] \notin BribPeers}),
                  !.dest[d].recalc = @ \/ lost, !.dest[d].best = IF lost THEN NoPath ELSE @]

\* RemoveUpdatesFromAllNeighbors: at a restart; no peer is up to be told.
RemoveUpdatesFromAllNeighbors ==
    /\ \E u \in ThenEach({bribTab}, SetToSeq(Live(bribTab)), LAMBDA t, d :
                   {DropIfEmpty(r, t.dest[d].prefix, d) : r \in SelectRouteForLocRib(RemoveAllNeighborPaths(t, d), d)}) :
            bribTab' = [u EXCEPT !.prefixes = [p \in BribPeers |-> 0], !.past = @ \cup {"restart"}]
    /\ UNCHANGED bribRibd

-----------------------------------------------------------------------------
(* Aggregates                                                               *)

\* AddRouteToAggregate: the server calls it for a destination with a best path.
AddRouteToAggregate(x) ==
    LET d == bribTab.map[x]
        t == CreateDest(bribTab, AggPrefix)
        g == t.map[AggPrefix]
        slot == <<AggSrc, 0>>
        p == IF slot \in DOMAIN t.dest[g].at THEN t.dest[g].at[slot] ELSE NoPath
        grown == [t EXCEPT !.path[p].parts = @ \cup {x},
                           !.dest[g].recalc = @ \/ t.dest[g].best \in {NoPath, p} \/ RouteSource(t, t.dest[g].best) >= 1]
        q == Len(t.path) + 1
        fresh == AddOrUpdatePath([t EXCEPT !.path = Append(@, [Path(AggSrc, t.path[t.dest[d].best].attr, ZeroNh, TRUE)
                                                                EXCEPT !.parts = {x}])], g, slot, q)
    IN  /\ d # NoDest /\ bribTab.dest[d].best # NoPath
        /\ \E r \in SelectRouteForLocRib(IF p = NoPath THEN fresh ELSE grown, g) : bribTab' = r.t
        /\ UNCHANGED bribRibd

\* RemoveRouteFromAggregate: the emptied aggregate is looked for under the wrong
\* key, and the member instead of the aggregate leaves the list.
RemoveRouteFromAggregate(x) ==
    LET g == bribTab.map[AggPrefix]
        d == bribTab.map[x]
        slot == <<AggSrc, 0>>
        p == bribTab.dest[g].at[slot]
        t == [bribTab EXCEPT !.path[p].parts = @ \ {x}]
        empty == t.path[p].parts = {}
        u == IF empty THEN RemovePath(t, g, slot) ELSE [t EXCEPT !.dest[g].recalc = TRUE]
    IN  /\ g # NoDest /\ d # NoDest
        /\ slot \in DOMAIN bribTab.dest[g].at
        /\ \E r \in SelectRouteForLocRib(u, g) :
              bribTab' = IF r.action = "delete" /\ r.t.dest[g].at = << >>
                         THEN [RemoveRoutesFromRouteList(r.t, d) EXCEPT !.count = @ - 1, !.past = @ \cup {"aggregate"}]
                         ELSE r.t
        /\ UNCHANGED bribRibd

-----------------------------------------------------------------------------
(* The bulk get, its timer, and ribd                                        *)

BulkGetBGPRoutes(first) ==
    /\ bribTab.list # << >>
    /\ bribTab' = [IF first /\ bribTab.active THEN ResetRouteList(bribTab) ELSE bribTab EXCEPT !.active = TRUE]
    /\ UNCHANGED bribRibd

RouteListTimer == bribTab.active /\ bribTab' = ResetRouteList(bribTab) /\ UNCHANGED bribRibd

RibdResolves(n) == n \notin bribRibd /\ bribRibd' = bribRibd \cup {n} /\ UNCHANGED bribTab

Happens(A) == bribEvents < MaxBribEvents /\ ~bribTab.crash /\ A /\ bribEvents' = bribEvents + 1

BribNext ==
    \/ \E up \in BribUpdates : Happens(ProcessUpdate(up))
    \/ \E x \in BribPrefixes : Happens(ProcessConnectedRoutes(<<<<x, 0>>>>, << >>))
    \/ \E x \in BribPrefixes : Happens(ProcessConnectedRoutes(<< >>, <<<<x, 0>>>>))
    \/ \E peer \in BribPeers : Happens(RemoveUpdatesFromNeighbor(peer))
    \/ Happens(RemoveUpdatesFromAllNeighbors)
    \/ \E x \in BribPrefixes : Happens(AddRouteToAggregate(x))
    \/ \E x \in BribPrefixes : Happens(RemoveRouteFromAggregate(x))
    \/ \E first \in BOOLEAN : Happens(BulkGetBGPRoutes(first))
    \/ Happens(RouteListTimer)
    \/ \E n \in BribNextHops : Happens(RibdResolves(n))

BribSpec == BribInit /\ [][BribNext]_bribVars

-----------------------------------------------------------------------------
(* Properties                                                               *)

\* The table is well formed.
BribTypeOK ==
    /\ bribRibd \subseteq BribNextHops
    /\ bribEvents \in 0..MaxBribEvents
    /\ \A x \in AllPrefixes : bribTab.map[x] \in 0..Len(bribTab.dest) /\ bribTab.told[x] \in 0..Len(bribTab.path)
    /\ \A d \in 1..Len(bribTab.dest) :
          LET D == bribTab.dest[d]
          IN  /\ D.best \in 0..Len(bribTab.path) /\ D.ecmp \subseteq 1..Len(bribTab.path)
              /\ Range(D.at) \subseteq DOMAIN D.route
              /\ D.recalc \in BOOLEAN

\* What ribd was given for a prefix is what the destination has installed: a
\* route replaced by one over the same next hop must survive the removal of its
\* predecessor. (A destination that is revived after it was dropped interferes.)
FibMatchesEcmp ==
    "revived" \notin bribTab.past =>
        \A x \in AllPrefixes : bribTab.fib[x] =
            IF bribTab.map[x] = NoDest THEN {} ELSE ToRibd(bribTab, bribTab.dest[bribTab.map[x]].ecmp)

\* Before p over q on source, preference and AS path length.
Before(t, p, q) ==
    \/ RouteSource(t, p) < RouteSource(t, q)
    \/ RouteSource(t, p) = RouteSource(t, q) /\ Pref(t, p) > Pref(t, q)
    \/ /\ RouteSource(t, p) = RouteSource(t, q) /\ Pref(t, p) = Pref(t, q)
       /\ t.path[p].attr.ases < t.path[q].attr.ases

\* A selected best path is a current, reachable one, none of the destination's
\* usable paths is to be preferred to it by source, preference or AS path
\* length (unless a path had to wait for its next hop), it is installed, and
\* without multipath it alone is and the peers were told of it.
BestIsBest ==
    \A d \in Live(bribTab) :
        LET D == bribTab.dest[d]
        IN  (~D.recalc /\ D.best # NoPath) =>
              /\ D.best \in Range(D.at) \cap D.ecmp
              /\ IsReachable(bribTab, D.best) /\ ~bribTab.path[D.best].attr.loop
              /\ \A q \in Range(D.at) : "woken" \notin bribTab.past =>
                    (IsReachable(bribTab, q) /\ ~bribTab.path[q].attr.loop => ~Before(bribTab, q, D.best))
              /\ ~(bribTab.multi.ebgp \/ bribTab.multi.ibgp) =>
                    /\ D.ecmp = {D.best}
                    /\ bribTab.past = {} => bribTab.told[D.prefix] = D.best

\* A neighbour's prefix count is the number of its paths in the table.
PrefixCountMatches ==
    "revived" \notin bribTab.past =>
        \A p \in BribPeers : bribTab.prefixes[p] =
            Cardinality(UNION {{<<d, s>> : s \in SlotsOf(bribTab, d, p)} : d \in Live(bribTab)})

\* Every destination knows its place in the list the bulk get walks, the list
\* holds the live destinations once, and a destination shows exactly its paths.
ListedOnce ==
    bribTab.past = {} =>
        /\ \A d \in Live(bribTab) : bribTab.dest[d].idx \in 1..Len(bribTab.list) /\ bribTab.list[bribTab.dest[d].idx] = d
        /\ Cardinality({i \in 1..Len(bribTab.list) : bribTab.list[i] # NoDest}) = Cardinality(Live(bribTab))
        /\ bribTab.count = Cardinality(Live(bribTab))
        /\ \A d \in Live(bribTab) :
              LET D == bribTab.dest[d]
              IN  /\ Range(D.info) = Range(D.at) /\ Len(D.info) = Cardinality(DOMAIN D.at)
                  /\ \A p \in Range(D.at) : D.info[D.route[p].idx] = p
=============================================================================
