------------------------------- MODULE BgpAdj -------------------------------
(***************************************************************************)
(* What a BGP speaker accepts from and tells its peers (bgp/server/peer.go  *)
(* and bgp/server/server.go): the Adj-RIB-In of each peer with its import   *)
(* policy, the Loc-RIB seen as the candidates of each prefix (BgpRib models *)
(* it in detail), aggregation, the Adj-RIB-Out of each peer and the routes  *)
(* that the peer holds after the UPDATEs sent to it.  A path is a record    *)
(* [src, as, rank]: the peer it came from, the ASes in its AS path and its  *)
(* place in the best path order.                                            *)
(***************************************************************************)
EXTENDS Naturals, FiniteSets, Sequences, FiniteSetsExt, SequencesExt, Functions

CONSTANTS BadjPeers,      \* the peers
          BadjInternal,   \* the peers in our AS
          BadjClients,    \* the internal peers that are route reflector clients
          BadjTx,         \* the additional paths a peer takes: 0 none
          BadjOutFilter,  \* the export policy of each peer
          BadjInFilters,  \* the import policies that a peer may be given
          BadjPrefixes,   \* the prefixes peers announce
          BadjV6,         \* those that travel in MP attributes
          BadjMembers,    \* those an aggregate may cover
          BadjUpdates,    \* the UPDATEs: [peer, add, rem, path]
          MaxBadjEvents   \* bound: events of a behaviour

VARIABLES badj,           \* the server and its peers, a record
          badjEvents

badjVars == <<badj, badjEvents>>

Us == "us"                                   \* our own AS
NoFilter == [act |-> "none", pfx |-> {}]
NoPath == [src |-> "none", as |-> {}, rank |-> 0]
AggPath == [src |-> "agg", as |-> {}, rank |-> 1]
AggPrefix == "g"
AllPrefixes == BadjPrefixes \cup {AggPrefix}

\* NewAdjRIBRoute: no path, no policy hit, not accepted.
NewAdjRIBRoute == [there |-> TRUE, paths |-> <<>>, pol |-> FALSE, accept |-> FALSE]
NoRoute == [NewAdjRIBRoute EXCEPT !.there = FALSE]

BadjInit ==
    /\ badj = [up      |-> [p \in BadjPeers |-> FALSE],
               in      |-> [p \in BadjPeers |-> [x \in BadjPrefixes |-> NoRoute]],
               out     |-> [p \in BadjPeers |-> [x \in AllPrefixes |-> NoRoute]],
               loc     |-> [x \in AllPrefixes |-> <<>>],
               view    |-> [p \in BadjPeers |-> [x \in AllPrefixes |-> {}]],
               filter  |-> [p \in BadjPeers |-> NoFilter],
               agg     |-> "none",
               members |-> {},
               past    |-> {}]
    /\ badjEvents = 0

Note(t, e) == [t EXCEPT !.past = @ \cup {e}]
Drop(f, S) == Restrict(f, DOMAIN f \ S)
Put(f, i, v) == [j \in DOMAIN f \cup {i} |-> IF j = i THEN v ELSE f[j]]

-----------------------------------------------------------------------------
(* The Loc-RIB: for each prefix its candidate paths with their path ids.    *)

Better(p, q) == p.rank > q.rank
Best(t, x) == IF t.loc[x] = <<>> THEN NoPath
              ELSE CHOOSE p \in DOMAIN t.loc[x] : \A q \in DOMAIN t.loc[x] \ {p} : Better(p, q)
AddPaths(t, x) == SetToSortSeq(DOMAIN t.loc[x] \ {Best(t, x)}, Better)

\* A path added to a destination takes a fresh path id; the one it replaces
\* gives its id back.
AddPath(t, x, p) ==
    LET used == Range(t.loc[x])
        id == Min((1..(Cardinality(used) + 1)) \ used)
    IN  [t EXCEPT !.loc[x] = IF p \in DOMAIN @ THEN @
                             ELSE Put(Drop(@, {q \in DOMAIN @ : q.src = p.src}), p, id)]
RemovePath(t, x, src) == [t EXCEPT !.loc[x] = Drop(@, {q \in DOMAIN @ : q.src = src})]

\* ProcessUpdate and ProcessFilteredRoutes of the Loc-RIB, and what they report:
\* the destinations with another best path, with none any more, and those whose
\* additional paths changed.
ProcessRoutes(t, src, adds, rems) ==
    LET u == FoldSet(LAMBDA r, v : AddPath(v, r[1], r[2]), FoldSet(LAMBDA x, v : RemovePath(v, x, src), t, rems), adds)
    IN  [t |-> u,
         upd |-> {x \in AllPrefixes : Best(u, x) \notin {Best(t, x), NoPath}},
         wd  |-> {x \in AllPrefixes : Best(u, x) = NoPath /\ Best(t, x) # NoPath},
         add |-> {x \in AllPrefixes : AddPaths(u, x) # AddPaths(t, x)}]

-----------------------------------------------------------------------------
(* Import                                                                   *)

Matches(f, x) == x \in f.pfx

\* checkAdjRIBFilter: a route that some policy has hit passes; another passes
\* if the policy permits it. Returned with the route, which remembers the hit.
CheckAdjRIBFilter(rt, f, x) ==
    [ok |-> f = NoFilter \/ rt.pol \/ (Matches(f, x) /\ f.act = "permit"),
     rt |-> [rt EXCEPT !.pol = @ \/ (f # NoFilter /\ Matches(f, x))]]

\* Fault: the withdrawals of every known route go on, and of none of the rest.
WithdrawsForgetRoute(t, p, rems) == [t |-> t, rem |-> {x \in rems : t.in[p][x] # NoRoute /\ t.in[p][x].accept}]

\* processWithdraws: withdrawals of unknown routes are dropped from the list, as
\* are those of routes that were not accepted.
ProcessWithdraws(t, p, rems) ==
    LET known == {x \in rems : t.in[p][x] # NoRoute}
    IN  [t   |-> [t EXCEPT !.in[p] = [x \in BadjPrefixes |-> IF x \in known THEN NoRoute ELSE @[x]]],
         rem |-> {x \in known : t.in[p][x].accept}]

\* processUpdates: a known route that was not accepted is not looked at again.
ProcessUpdates(t, p, adds, path) ==
    LET old(x) == t.in[p][x]
        base(x) == [IF old(x) = NoRoute THEN NewAdjRIBRoute ELSE old(x) EXCEPT !.paths = Put(<<>>, 0, path)]
        ignored(x) == old(x) # NoRoute /\ ~old(x).accept
        check(x) == CheckAdjRIBFilter(base(x), t.filter[p], x)
        new(x) == IF ignored(x) THEN base(x) ELSE [check(x).rt EXCEPT !.accept = check(x).ok]
    IN  [t   |-> [t EXCEPT !.in[p] = [x \in BadjPrefixes |-> IF x \in adds THEN new(x) ELSE @[x]]],
         add |-> {x \in adds : ~ignored(x) /\ check(x).ok}]

HasASLoop(path, as) == as \in path.as

\* ReceiveUpdate: an UPDATE with our AS in its path only withdraws. The routes of
\* MP_UNREACH leave the Adj-RIB-In, but the Loc-RIB is asked to remove them from
\* address family 0, where there are none.
ReceiveUpdate(t, m) ==
    LET w == ProcessWithdraws(t, m.peer, m.rem)
        u == ProcessUpdates(w.t, m.peer, IF HasASLoop(m.path, Us) THEN {} ELSE m.add, m.path)
        lost == w.rem \cap BadjV6
    IN  ProcessRoutes(IF lost = {} THEN u.t ELSE Note(u.t, "v6withdraw"), m.peer,
                      {<<x, m.path>> : x \in u.add}, w.rem \ BadjV6)

\* AdjRIBInPolicyUpdated: the verdict of the policy that is applied now is
\* compared with the one on record, which is not brought up to date. A route the
\* policy does not match counts as rejected.
AdjRIBInPolicyUpdated(t, p, f) ==
    LET rt(x) == t.in[p][x]
        routes == {x \in BadjPrefixes : rt(x) # NoRoute}
        verdict(x) == Matches(f, x) /\ f.act = "permit"
        hit == [t EXCEPT !.in[p] = [x \in BadjPrefixes |-> IF x \in routes /\ Matches(f, x) THEN [@[x] EXCEPT !.pol = TRUE]
                                                           ELSE @[x]],
                         !.past = IF routes = {} THEN @ ELSE @ \cup {"refiltered"}]
    IN  ProcessRoutes(hit, p, {<<x, rt(x).paths[0]>> : x \in {x \in routes : ~rt(x).accept /\ verdict(x)}},
                      {x \in routes : rt(x).accept /\ ~verdict(x)})

\* The routes a policy is noted to apply to: the note goes to a copy of the
\* policy's record, which is dropped.
RouteList == {}

\* TraverseAndReverseAdjRIB: undoes a policy for the routes noted.
TraverseAndReverseAdjRIB(t, p) ==
    [t EXCEPT !.in[p] = [x \in BadjPrefixes |-> IF x \in RouteList THEN [@[x] EXCEPT !.pol = FALSE] ELSE @[x]]]

-----------------------------------------------------------------------------
(* Aggregation                                                              *)

\* AddRouteToAggregate: the aggregate counts as changed each time.
AddRouteToAggregate(t, x) == [AddPath(t, AggPrefix, AggPath) EXCEPT !.members = @ \cup {x}]

\* Fault: the new members of a summary-only aggregate are told as well.
AggTellsMembers(r, x, summary, create) == [r EXCEPT !.upd = @ \cup {AggPrefix}]

\* setUpdatedWithAggPaths: the aggregate is told as well; with a summary-only
\* aggregate a new member is not told, and one that was told is withdrawn.
SetUpdatedWithAggPaths(r, x, summary, create) ==
    [r EXCEPT !.upd = (@ \cup {AggPrefix}) \ (IF summary /\ create THEN {x} ELSE {}),
              !.wd  = @ \cup (IF summary /\ ~create THEN {x} ELSE {})]

ApplyAggregateAction(r, xs, summary, create) ==
    FoldSet(LAMBDA x, q : SetUpdatedWithAggPaths([q EXCEPT !.t = AddRouteToAggregate(@, x)], x, summary, create), r, xs)

\* TraverseAndReverseBGPRib: the routes noted leave the aggregate; the changes are
\* collected and never sent.
TraverseAndReverseBGPRib(t) == [t EXCEPT !.members = @ \ RouteList]

\* CheckForAggregation: a withdrawn destination has no best path any more and is
\* skipped, so it never leaves the aggregate.
CheckForAggregation(r) ==
    IF r.t.agg = "none" THEN r
    ELSE ApplyAggregateAction(IF r.wd \cap r.t.members = {} THEN r ELSE [r EXCEPT !.t = Note(@, "memberlost")],
                              r.upd \cap BadjMembers, r.t.agg = "summary", TRUE)

-----------------------------------------------------------------------------
(* Export                                                                   *)

Source(path) == path.src \in BadjPeers       \* path.NeighborConf is not nil

\* The checks that sendUpdateMsg repeats: internal routes go to internal peers
\* only through route reflection, and no route returns to the peer it came from.
Horizon(p, path) ==
    ~ /\ Source(path)
      /\ \/ path.src \in BadjInternal /\ p \in BadjInternal /\ path.src \notin BadjClients /\ p \notin BadjClients
         \/ path.src = p

IsAdvertisable(p, path) == Horizon(p, path) /\ ~(Source(path) /\ HasASLoop(path, p))

\* updatePathAttrs: an external peer sees our AS in the path and us as the next
\* hop, without the attributes that stay inside an AS.
UpdatePathAttrs(p, path) ==
    [path |-> path,
     as   |-> IF p \in BadjInternal THEN path.as ELSE path.as \cup {Us},
     nh   |-> IF p \in BadjInternal THEN "same" ELSE "self",
     rr   |-> p \in BadjInternal /\ Source(path) /\ (path.src \in BadjClients \/ p \in BadjClients)]

\* checkRIBOutWithdraw: with an export policy the accepted flag decides, which
\* nobody sets for routes sent.
CheckRIBOutWithdraw(p, rt) == BadjOutFilter[p] = NoFilter \/ rt.accept

\* A message under construction for one peer: its Adj-RIB-Out, the path ids to
\* withdraw and the routes to announce, as <<prefix, id, path>>.
NoMessage(t, p) == [out |-> t.out[p], wd |-> {}, upd |-> {}]

WithdrawDest(p, s, x) ==
    LET rt == s.out[x]
    IN  IF rt = NoRoute THEN s
        ELSE [s EXCEPT !.out[x] = NoRoute,
                       !.wd = IF CheckRIBOutWithdraw(p, rt)
                              THEN @ \cup {<<x, i>> : i \in IF BadjTx[p] > 0 THEN DOMAIN rt.paths ELSE {0}} ELSE @]

\* The best path of a destination for a peer without additional paths. What the
\* export policy rejects is recorded as if it had been sent.
UpdateDest(t, p, s, x) ==
    LET path == Best(t, x)
        id == t.loc[x][path]
        rt == s.out[x]
        base == IF rt = NoRoute THEN NewAdjRIBRoute ELSE [rt EXCEPT !.paths = Restrict(@, DOMAIN @ \cap {id})]
        known == id \in DOMAIN base.paths /\ base.paths[id] = path
        check == CheckAdjRIBFilter(base, BadjOutFilter[p], x)
    IN  IF ~IsAdvertisable(p, path)
        THEN IF rt # NoRoute /\ CheckRIBOutWithdraw(p, rt)
             THEN [s EXCEPT !.out[x] = NoRoute, !.wd = @ \cup {<<x, 0>>}] ELSE s
        ELSE [s EXCEPT !.out[x] = [IF known THEN base ELSE check.rt EXCEPT !.paths = Put(@, id, path)],
                       !.upd = IF ~known /\ check.ok THEN @ \cup {<<x, 0, path>>} ELSE @]

\* calculateAddPathsAdvertisements: best is FALSE when only the additional paths
\* changed; then the best path is taken without asking whether the peer may have it.
CalculateAddPaths(t, p, s, x, best) ==
    LET path == Best(t, x)
        rt == IF s.out[x] = NoRoute THEN NewAdjRIBRoute ELSE s.out[x]
        check == CheckAdjRIBFilter(rt, BadjOutFilter[p], x)
        can == check.ok
        first == IF ~best \/ IsAdvertisable(p, path) THEN {path} ELSE {}
        more == SelectSeq(AddPaths(t, x), LAMBDA q : IsAdvertisable(p, q))
        room == IF BadjTx[p] - 1 > Cardinality(first) THEN BadjTx[p] - 1 - Cardinality(first) ELSE 0
        chosen == first \cup Range(SubSeq(more, 1, Min({room, Len(more)})))
        ids == {<<t.loc[x][q], q>> : q \in chosen}
        sent == {<<i, rt.paths[i]>> : i \in DOMAIN rt.paths}
        new == ids \ sent
        again == IF best THEN {e \in ids : e[2] \in first} ELSE {}
    IN  [out |-> [s.out EXCEPT ![x] = [check.rt EXCEPT !.paths = [i \in {e[1] : e \in ids} |-> (CHOOSE e \in ids : e[1] = i)[2]]]],
         wd  |-> s.wd \cup (IF CheckRIBOutWithdraw(p, rt) THEN {<<x, i>> : i \in DOMAIN rt.paths \ {e[1] : e \in ids}} ELSE {}),
         upd |-> s.upd \cup (IF can THEN {<<x, e[1], e[2]>> : e \in new \cup again} ELSE {})]

\* The peer applies the withdrawals, then the announcements; sendUpdateMsg
\* repeats the horizon checks on the way.
Deliver(v, p, s) ==
    LET sent == {e \in s.upd : Horizon(p, e[3])}
    IN  [x \in AllPrefixes |->
            {h \in v[x] : ~(<<x, h.id>> \in s.wd) /\ ~\E e \in sent : e[1] = x /\ e[2] = h.id}
              \cup {[id |-> e[2], route |-> UpdatePathAttrs(p, e[3])] : e \in {e \in sent : e[1] = x}}]

\* SendUpdate to one peer: nothing while its local address is unknown.
SendUpdate(t, p, r) ==
    LET withdrawn == FoldSet(LAMBDA x, s : WithdrawDest(p, s, x), NoMessage(t, p), r.wd)
        updated == FoldSet(LAMBDA x, s : IF BadjTx[p] > 0 THEN CalculateAddPaths(t, p, s, x, TRUE) ELSE UpdateDest(t, p, s, x),
                           withdrawn, {x \in r.upd : Best(t, x) # NoPath})
        full == FoldSet(LAMBDA x, s : CalculateAddPaths(t, p, s, x, FALSE), updated,
                        IF BadjTx[p] > 0 THEN {x \in r.add : Best(t, x) # NoPath} ELSE {})
    IN  IF t.up[p] THEN [t EXCEPT !.out[p] = full.out, !.view[p] = Deliver(@, p, full)] ELSE t

SendToAll(r) == FoldSet(LAMBDA p, t : SendUpdate(t, p, r), r.t, BadjPeers)

-----------------------------------------------------------------------------
(* The events the server handles                                            *)

Happens(t) == badjEvents < MaxBadjEvents /\ badjEvents' = badjEvents + 1 /\ badj' = t

\* clearRibOut: both Adj-RIBs are made anew; the peer starts with no routes.
ClearRibs(t, p, up) ==
    [t EXCEPT !.up[p] = up, !.in[p] = [x \in BadjPrefixes |-> NoRoute], !.out[p] = [x \in AllPrefixes |-> NoRoute],
              !.view[p] = [x \in AllPrefixes |-> {}]]

\* SendAllRoutesToPeer sends the Loc-RIB to every peer; those that have it keep quiet.
Established(p) ==
    /\ ~badj.up[p]
    /\ LET t == ClearRibs(badj, p, TRUE)
       IN  Happens(SendToAll([t |-> IF t.agg = "summary" \/ t.past \cap {"aggregated", "unaggregated"} # {} THEN Note(t, "latecomer") ELSE t,
                              upd |-> {x \in AllPrefixes : Best(t, x) # NoPath}, wd |-> {}, add |-> {}]))

Broken(p) ==
    /\ badj.up[p]
    /\ LET t == ClearRibs(badj, p, FALSE)
       IN  Happens(SendToAll(CheckForAggregation(ProcessRoutes(t, p, {}, AllPrefixes))))

ProcessUpdate(m) == badj.up[m.peer] /\ Happens(SendToAll(CheckForAggregation(ReceiveUpdate(badj, m))))

\* Updatev4Peer with another import policy: the old one is undone, the new one
\* applied to the routes there are.
UpdateFilter(p, f) ==
    /\ badj.filter[p] # f
    /\ LET t == TraverseAndReverseAdjRIB([badj EXCEPT !.filter[p] = f], p)
           known == \E x \in BadjPrefixes : t.in[p][x] # NoRoute
       IN  Happens(IF f = NoFilter THEN IF known THEN Note(t, "refiltered") ELSE t
                   ELSE SendToAll(CheckForAggregation(AdjRIBInPolicyUpdated(t, p, f))))

\* AddOrUpdateAgg: the aggregate takes in what the Loc-RIB holds.
AddOrUpdateAgg(kind) ==
    /\ badj.agg = "none"
    /\ LET t == Note([badj EXCEPT !.agg = kind], "aggregated")
           there == {x \in BadjMembers : Best(t, x) # NoPath}
       IN  Happens(SendToAll(ApplyAggregateAction([t |-> t, upd |-> {}, wd |-> {}, add |-> {}], there, kind = "summary", FALSE)))

\* DeleteAgg: the aggregate itself stays in the Loc-RIB and with the peers.
DeleteAgg ==
    /\ badj.agg # "none"
    /\ Happens(Note([TraverseAndReverseBGPRib(badj) EXCEPT !.agg = "none"], "unaggregated"))

BadjNext ==
    \/ \E p \in BadjPeers : Established(p)
    \/ \E p \in BadjPeers : Broken(p)
    \/ \E m \in BadjUpdates : ProcessUpdate(m)
    \/ \E p \in BadjPeers, f \in BadjInFilters \cup {NoFilter} : UpdateFilter(p, f)
    \/ \E kind \in {"full", "summary"} : AddOrUpdateAgg(kind)
    \/ DeleteAgg

BadjSpec == BadjInit /\ [][BadjNext]_badjVars

-----------------------------------------------------------------------------
(* Properties                                                               *)

\* The tables are well formed: path ids are unique within a destination.
BadjTypeOK ==
    /\ badjEvents \in 0..MaxBadjEvents
    /\ badj.agg \in {"none", "full", "summary"} /\ badj.members \subseteq BadjMembers
    /\ \A p \in BadjPeers : badj.up[p] \in BOOLEAN /\ badj.filter[p] \in BadjInFilters \cup {NoFilter}
    /\ \A x \in AllPrefixes : IsInjective(badj.loc[x])

\* The candidates that the Loc-RIB has from a peer are the routes accepted from
\* it: nothing rejected, withdrawn or of an ended session. (Lost MP withdrawals
\* and a policy changed under existing routes break it.)
LocRibIsAdjIn ==
    badj.past \cap {"v6withdraw", "refiltered"} = {} =>
    \A x \in BadjPrefixes :
       DOMAIN badj.loc[x] = {badj.in[p][x].paths[0] : p \in {p \in BadjPeers : badj.in[p][x] # NoRoute /\ badj.in[p][x].accept}}

\* A peer without additional paths and export policy holds the best path of a
\* destination, rewritten for it, if it may be told it, and nothing otherwise.
\* (A summary-only aggregate and its removal change what is told.)
PeersHoldTheBest ==
    \A p \in BadjPeers, x \in AllPrefixes :
       (badj.up[p] /\ BadjTx[p] = 0 /\ BadjOutFilter[p] = NoFilter /\ ~(x \in BadjMembers /\ "aggregated" \in badj.past)) =>
       badj.view[p][x] = IF Best(badj, x) # NoPath /\ IsAdvertisable(p, Best(badj, x))
                         THEN {[id |-> 0, route |-> UpdatePathAttrs(p, Best(badj, x))]} ELSE {}

\* What a peer without export policy holds is a path the Loc-RIB has, under its
\* path id: a withdrawn path never stays with a peer. (A peer that comes up after
\* a summary-only aggregate is told the members, and not their changes.)
NothingStaleAtPeers ==
    \A p \in BadjPeers, x \in AllPrefixes : \A h \in badj.view[p][x] :
       (BadjOutFilter[p] = NoFilter /\ ~(x \in BadjMembers /\ "latecomer" \in badj.past)) =>
       /\ h.route.path \in DOMAIN badj.loc[x]
       /\ BadjTx[p] > 0 => badj.loc[x][h.route.path] = h.id

\* No peer holds a route that came from itself, and an internal route reaches an
\* internal peer only if one of the two is a route reflector client.
SplitHorizon ==
    \A p \in BadjPeers, x \in AllPrefixes : \A h \in badj.view[p][x] :
       LET s == h.route.path.src
       IN  s # p /\ (s \in BadjInternal /\ p \in BadjInternal => s \in BadjClients \/ p \in BadjClients)

\* While a summary-only aggregate is configured its members are not told to the
\* peers. (A peer that comes up later gets the whole Loc-RIB, and additional paths
\* are told without regard to aggregates.)
MembersAreSummarised ==
    (badj.agg = "summary" /\ "latecomer" \notin badj.past) =>
    \A p \in BadjPeers, x \in BadjMembers : BadjOutFilter[p] = NoFilter /\ BadjTx[p] = 0 => badj.view[p][x] = {}
=============================================================================
