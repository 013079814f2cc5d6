------------------------------ MODULE OspfLsdb ------------------------------
(***************************************************************************)
(* The link state databases of two OSPF routers on one broadcast link      *)
(* (src/ospf/server/ospfLsdb.go, ospfLsa.go, ospfLsdbTimer.go,             *)
(* ospfFlooding.go).  Both ends run this code.                             *)
(*                                                                         *)
(* In each router one thread owns the database (processLSDatabaseUpdates): *)
(* it originates, installs, ages and refreshes LSAs and posts flooding     *)
(* requests to ospfNbrLsaUpdSendCh, which holds two.  A second thread      *)
(* (ProcessTxNbrPkt) serves them and encodes the LSA it finds in the       *)
(* database then, not the one that was there at the request.  `todo' are   *)
(* the requests the first thread has still to post, `tx' the channel, and  *)
(* `aging' the confirmations the second thread still owes the first one.   *)
(*                                                                         *)
(* Time is counted in units of which LsRefresh make LSRefreshTime and      *)
(* LsMaxAge make MaxAge; threads and packets are faster than a unit.       *)
(* An update is a set of LSAs that the receiver handles in one step.       *)
(***************************************************************************)
EXTENDS Integers, Sequences, FiniteSets, Bags, SequencesExt

CONSTANTS
    LsRefresh, LsMaxAge,   \* config.LSRefreshTime and config.MaxAge
    LsStubs,               \* routers with a second interface, without neighbours
    LsABRs, LsASBRs,       \* routers that originate summaries, external LSAs
    LsMetrics,             \* metrics of routes
    LsMetricWrap,          \* metrics travel in 24 bits: 2^24 in the code
    LsOthers,              \* routers behind the link whose LSAs both have learned
    LsTxCap,               \* capacity of ospfNbrLsaUpdSendCh: 2 in the code
    MaxLsTicks,            \* bound on time
    MaxLsEvents            \* bound on events of the outside

VARIABLES
    lsdb,       \* [router -> its database, interface and threads]
    lsNet,      \* [router -> bag of updates, sets of LSAs, on their way to it]
    lsPast,     \* what has happened that may break the agreement
    lsTicks, lsEvents

lsVars == <<lsdb, lsNet, lsPast, lsTicks, lsEvents>>

LsRouters == {1, 2}
Other(r) == 3 - r

\* The key of an LSA: type and advertising router.  Summary LSAs of type 3
\* and 4 are treated alike, `sum' stands for either.
K(t, a) == [typ |-> t, adv |-> a]
LsKeys == {K(t, a) : t \in {"router", "net", "sum", "ext"}, a \in LsRouters}
          \cup {K("router", a) : a \in LsOthers}

\* InitialSequenceNumber is 0x80000001, far above the 1 that
\* updateSummaryLsa gives a summary whose entry has aged out.
InitialSequenceNumber == 10

NoLsa == [there |-> FALSE, seq |-> 0, age |-> 0, body |-> <<>>]
Lsa(seq, body) == [there |-> TRUE, seq |-> seq, age |-> 0, body |-> body]

initLSDatabase ==
    [k \in LsKeys |->
       IF k.adv \in LsOthers THEN Lsa(InitialSequenceNumber, <<1>>) ELSE NoLsa]

\* `self' is AreaSelfOrigLsa: "off" is an entry that holds false.
StartLSDatabase ==
    [db |-> initLSDatabase, self |-> [k \in LsKeys |-> "no"],
     up |-> FALSE, nbr |-> FALSE, dr |-> 0, route |-> {}, since |-> 0,
     todo |-> <<>>, tx |-> <<>>, aging |-> {}, aged |-> {}, flush |-> {}, ok |-> TRUE]

Post(s, op, k) == [s EXCEPT !.todo = Append(@, [op |-> op, key |-> k])]
AnyKey == K("router", 1)

-----------------------------------------------------------------------------
(* Originating LSAs *)

Store(s, k, body) ==
    [s EXCEPT !.db[k] = Lsa(IF @.there THEN @.seq + 1 ELSE InitialSequenceNumber, body),
              !.self[k] = "yes"]

\* The links of the router: the shared interface counts once its state
\* machine has left Waiting, as a stub network while it has no neighbour.
LinksOf(r, s) ==
    (IF r \in LsStubs THEN <<1>> ELSE <<>>)
    \o (IF ~s.up THEN <<>> ELSE IF s.nbr THEN <<2, s.dr>> ELSE <<3>>)

\* Without links the LSA is forgotten, and the neighbours are not told.
generateRouterLSA(r, s) ==
    LET k == K("router", r)
    IN IF LinksOf(r, s) = <<>>
       THEN [s EXCEPT !.db[k] = NoLsa, !.self[k] = "no"]
       ELSE Store(s, k, LinksOf(r, s))

generateNetworkLSA(r, s) ==
    IF s.up /\ s.nbr THEN Store(s, K("net", r), <<1, 2>>) ELSE s

\* For a deleted route the LSA gets MaxAge, and age 0 again before it is stored.
generateASExternalLsa(r, s, metric, isDel) ==
    LET k == K("ext", r)
        e == s.db[k]
        seq == IF ~e.there THEN InitialSequenceNumber
               ELSE IF isDel THEN e.seq ELSE e.seq + 1
    IN [s EXCEPT !.db[k] = Lsa(seq, <<metric>>),
                 !.self[k] = IF isDel THEN "off" ELSE "yes"]

updateSummaryLsa(s, k, metric) ==
    [s EXCEPT !.db[k] = [there |-> TRUE, seq |-> @.seq + 1, age |-> 0, body |-> <<metric>>]]

insertSummaryLsa(s, k, metric) ==
    [s EXCEPT !.db[k] = Lsa(InitialSequenceNumber, <<metric>>), !.self[k] = "yes"]

flushSummaryLsa(s, k) ==
    [s EXCEPT !.db[k] = NoLsa, !.self[k] = "no"]

compareSummaryLsa(s, k, metric) == s.db[k].body = <<metric>>

\* `route' is the destination of another area in the routing table that the
\* last calculation built, the metric of it if there is one; a route that
\* costs LSInfinity (0xffffff) or more is not advertised.
GenerateSummaryLsa(r, s) ==
    {<<K("sum", r), m>> : m \in {x \in s.route : x < LsMetricWrap - 1}}

Installs(s, k, metric) ==
    IF s.self[k] # "yes" THEN Post(insertSummaryLsa(s, k, metric), "sum", k)
    ELSE IF compareSummaryLsa(s, k, metric) THEN s
    ELSE Post(updateSummaryLsa(s, k, metric), "sum", k)

installSummaryLsa(r, s) ==
    LET k == K("sum", r)
        new == GenerateSummaryLsa(r, s)
    IN IF r \notin LsABRs THEN s
       ELSE IF new # {} THEN Installs(s, k, (CHOOSE n \in new : TRUE)[2])
       ELSE IF s.self[k] = "no" THEN s ELSE flushSummaryLsa(s, k)

-----------------------------------------------------------------------------
(* Messages of the database thread *)

processExtRouteUpd(r, s, metric, isDel) ==
    LET t == generateASExternalLsa(r, s, metric, isDel)
    IN IF isDel THEN t ELSE Post(t, "ext", K("ext", r))

\* The neighbour thread is told first, and drops its neighbours if the
\* interface is down; the LSA was built before.
processInterfaceChangeMsg(r, s) ==
    LET t == generateRouterLSA(r, s)
    IN installSummaryLsa(r, Post([t EXCEPT !.nbr = @ /\ t.up], "router", K("router", r)))

processNeighborFullEvent(r, s) ==
    LET t == IF s.dr = r THEN generateNetworkLSA(r, s) ELSE s
    IN installSummaryLsa(r, Post(generateRouterLSA(r, t), "all", AnyKey))

\* A router that ceases to be designated keeps its network LSA.
processDrBdrChangeMsg(r, s) ==
    LET t == IF s.nbr /\ s.dr = r THEN generateNetworkLSA(r, s) ELSE s
    IN installSummaryLsa(r, Post(generateRouterLSA(r, t), "all", AnyKey))

updateAsExternalLSA(s, k) ==
    IF s.db[k].there THEN [s EXCEPT !.db[k].age = 0] ELSE s

\* Fault: router LSAs are not regenerated either.
RegeneratesExternalOnly(r, s) ==
    LET x == K("ext", r)
    IN IF s.self[x] = "yes" THEN Post(updateAsExternalLSA(s, x), "ext", x) ELSE s

\* The interface of a network LSA is looked up with index 0 and not found,
\* and summaries have no case: neither is regenerated.
regenerateLsa(r, s) ==
    LET x == K("ext", r)
        t == IF s.self[K("router", r)] = "yes" THEN generateRouterLSA(r, s) ELSE s
    IN IF s.self[x] = "yes" THEN Post(updateAsExternalLSA(t, x), "ext", x) ELSE t

lsdbSelfLsaRefresh(r, s) ==
    Post(regenerateLsa(r, [s EXCEPT !.since = 0]), "all", AnyKey)

\* Every LSA of age MaxAge leaves the database for maxAgeLsaMap.
Expired(s) == {k \in LsKeys : s.db[k].there /\ s.db[k].age = LsMaxAge}

processMaxAgeLSA(s) ==
    LET gone == Expired(s)
        t == [s EXCEPT
                !.db = [k \in LsKeys |->
                          IF k \in gone THEN NoLsa
                          ELSE IF @[k].there THEN [@[k] EXCEPT !.age = @ + 1] ELSE @[k]],
                !.aged = @ \cup {[key |-> k, lsa |-> s.db[k]] : k \in gone},
                !.since = @ + 1]
    IN IF gone = {} THEN t ELSE Post(t, "age", AnyKey)

-----------------------------------------------------------------------------
(* Receiving an update, a set of p = [key, lsa] *)

\* A received LSA counts as expired at LSA_MAX_AGE, 0x7fff, which no LSA
\* reaches: they leave a database at config.MaxAge, 3600.  (Nor is the check
\* made when a neighbour is full.)
LSA_MAX_AGE == 9 * LsMaxAge

lsAgeCheck(s, p) ==
    ~s.nbr /\ p.lsa.age = LSA_MAX_AGE /\ ~s.db[p.key].there

\* Router and network LSAs arrive as they were sent.
decodeSummaryLsa(e) == [e EXCEPT !.body = <<@[1] % LsMetricWrap>>]

decodeASExternalLsa(e) == [e EXCEPT !.body = <<@[1] % LsMetricWrap>>]

Decoded(p) ==
    CASE p.key.typ = "sum" -> decodeSummaryLsa(p.lsa)
      [] p.key.typ = "ext" -> decodeASExternalLsa(p.lsa)
      [] OTHER -> p.lsa

\* No sequence number is compared.
processRecvdRouterLsa(s, p) == [s EXCEPT !.db[p.key] = p.lsa]

processRecvdSummaryLsa(s, p) ==
    IF s.db[p.key].there /\ s.db[p.key].seq >= p.lsa.seq THEN s
    ELSE [s EXCEPT !.db[p.key] = Decoded(p)]

\* A designated router ignores a network LSA of its neighbour.
processRecvdNetworkLsa(r, s, p) ==
    IF s.dr = r \/ (s.db[p.key].there /\ s.db[p.key].seq >= p.lsa.seq) THEN s
    ELSE [s EXCEPT !.db[p.key] = p.lsa]

processRecvdASExternalLsa(s, p) ==
    IF s.db[p.key].there /\ s.db[p.key].seq >= p.lsa.seq THEN s
    ELSE [s EXCEPT !.db[p.key] = Decoded(p)]

processRecvdLsa(r, s, p) ==
    CASE p.key.typ = "router" -> processRecvdRouterLsa(s, p)
      [] p.key.typ = "net" -> processRecvdNetworkLsa(r, s, p)
      [] p.key.typ = "sum" -> processRecvdSummaryLsa(s, p)
      [] OTHER -> processRecvdASExternalLsa(s, p)

\* DecodeLSAUpd: own LSAs are skipped, the others handed to the database
\* thread one by one.
RecvdAll(r, s, ps) ==
    FoldLeft(LAMBDA t, p : IF p.key.adv = r \/ lsAgeCheck(t, p) THEN t
                           ELSE installSummaryLsa(r, processRecvdLsa(r, t, p)),
             s, SetToSeq(ps))

-----------------------------------------------------------------------------
(* The transmit thread: what a request sends, or nothing and a panic *)

Sent(s, keys) == [pkts |-> {[key |-> k, lsa |-> s.db[k]] : k \in keys}, panic |-> FALSE]
Nothing == [pkts |-> {}, panic |-> FALSE]

\* An LSA that is listed but has left the database is encoded into no bytes,
\* and its checksum is computed from an offset beyond them.
SendSelfOrigLSA(r, s) ==
    LET keys == {k \in LsKeys : /\ s.self[k] = "yes" /\ k.typ # "ext"
                                /\ k.typ = "net" => s.dr = r}
    IN IF \A k \in keys : s.db[k].there THEN Sent(s, keys)
       ELSE [pkts |-> {}, panic |-> TRUE]

SendRouterLsa(s, k) == IF s.db[k].there THEN Sent(s, {k}) ELSE Nothing

\* For a summary that has gone an update that announces one LSA and holds
\* none is sent; the LSA without `there' stands for it.
processSummaryLSAFlood(s, k) == Sent(s, {k})

processAsExternalLSAFlood(s, k) == IF s.db[k].there THEN Sent(s, {k}) ELSE Nothing

\* "self" requests concern the interfaces an LSA did not come from: with one
\* link there is none.
processFloodMsg(r, s, m) ==
    IF ~s.nbr \/ m.op = "self" THEN Nothing
    ELSE CASE m.op = "all" -> SendSelfOrigLSA(r, s)
           [] m.op = "router" -> SendRouterLsa(s, m.key)
           [] m.op = "sum" -> processSummaryLSAFlood(s, m.key)
           [] OTHER -> processAsExternalLSAFlood(s, m.key)

-----------------------------------------------------------------------------
(* Steps *)

Idle(s) == s.ok /\ s.todo = <<>>
Quiet(s) == s.ok => s.todo = <<>> /\ s.tx = <<>> /\ s.aging = {}

\* Packets reach the other router if both interfaces are up.
Deliver(r, pkts) ==
    lsNet' = [lsNet EXCEPT ![Other(r)] =
                IF pkts # {} /\ lsdb[1].up /\ lsdb[2].up
                THEN @ (+) SetToBag({pkts}) ELSE @]

Becomes(r, s) == lsdb' = [lsdb EXCEPT ![r] = s]

Happens ==
    /\ lsEvents < MaxLsEvents
    /\ lsEvents' = lsEvents + 1

InterfaceChanges(r) ==
    /\ Happens /\ Idle(lsdb[r])
    /\ Becomes(r, processInterfaceChangeMsg(r, [lsdb[r] EXCEPT !.up = ~@]))
    /\ lsPast' = IF lsdb[r].up THEN lsPast \cup {"down"} ELSE lsPast
    /\ UNCHANGED <<lsNet, lsTicks>>

\* The exchange has ended: r has the other's database (OspfNeighbor).
Exchanged(r, s) ==
    LET o == lsdb[Other(r)]
    IN RecvdAll(r, s, {[key |-> k, lsa |-> o.db[k]] : k \in {x \in LsKeys : o.db[x].there}})

NeighborFull(r) ==
    /\ Idle(lsdb[r]) /\ ~lsdb[r].nbr
    /\ lsdb[1].up /\ lsdb[2].up /\ lsdb[Other(r)].ok
    /\ Becomes(r, processNeighborFullEvent(r, Exchanged(r, [lsdb[r] EXCEPT !.nbr = TRUE])))
    /\ UNCHANGED <<lsNet, lsPast, lsTicks, lsEvents>>

DrChanges(r) ==
    \E d \in LsRouters \ {lsdb[r].dr} :
        /\ Happens /\ Idle(lsdb[r]) /\ lsdb[r].up
        /\ Becomes(r, processDrBdrChangeMsg(r, [lsdb[r] EXCEPT !.dr = d]))
        /\ lsPast' = IF lsdb[r].self[K("net", r)] = "yes"
                     THEN lsPast \cup {"resigned"} ELSE lsPast
        /\ UNCHANGED <<lsNet, lsTicks>>

\* A calculation has found another route to the destination, or none.
RouteChanges(r) ==
    \E m \in {{}} \cup {{x} : x \in LsMetrics} :
        /\ r \in LsABRs /\ m # lsdb[r].route
        /\ Happens /\ Idle(lsdb[r])
        /\ Becomes(r, installSummaryLsa(r, [lsdb[r] EXCEPT !.route = m]))
        /\ lsPast' = IF lsdb'[r].self[K("sum", r)] # "yes"
                     THEN lsPast \cup {"flushed"} ELSE lsPast
        /\ UNCHANGED <<lsNet, lsTicks>>

ExternalRoute(r) ==
    \E m \in LsMetrics, isDel \in BOOLEAN :
        /\ r \in LsASBRs /\ Happens /\ Idle(lsdb[r])
        /\ Becomes(r, processExtRouteUpd(r, lsdb[r], m, isDel))
        /\ lsPast' = IF isDel THEN lsPast \cup {"withdrawn"}
                     ELSE IF m >= LsMetricWrap THEN lsPast \cup {"wide"} ELSE lsPast
        /\ UNCHANGED <<lsNet, lsTicks>>

\* The receiving thread hands the LSA over and posts its own request.
ReceiveLsa(r) ==
    \E ps \in BagToSet(lsNet[r]) :
        LET s == lsdb[r]
            new == {p \in ps : p.key.adv # r}
            late == \E qs \in BagToSet(lsNet[r]) : \E q \in qs, p \in ps :
                       q.key = p.key /\ q.lsa.seq < p.lsa.seq
        IN /\ s.ok
           /\ lsNet' = [lsNet EXCEPT ![r] = @ (-) SetToBag({ps})]
           /\ IF ~s.nbr THEN UNCHANGED lsdb
              ELSE IF \E p \in ps : ~p.lsa.there THEN Becomes(r, [s EXCEPT !.ok = FALSE])
              ELSE IF new = {} THEN UNCHANGED lsdb
              ELSE /\ Idle(s) /\ Len(s.tx) < LsTxCap
                   /\ Becomes(r, [RecvdAll(r, s, ps) EXCEPT
                                    !.tx = Append(@, [op |-> "self", key |-> AnyKey])])
           /\ lsPast' = lsPast \cup (IF late THEN {"reordered"} ELSE {})
                               \cup (IF s.nbr THEN {} ELSE {"lost"})
                               \cup (IF s.dr = r /\ \E p \in new : p.key.typ = "net"
                                     THEN {"two DRs"} ELSE {})
           /\ UNCHANGED <<lsTicks, lsEvents>>

PostRequest(r) ==
    /\ lsdb[r].ok /\ lsdb[r].todo # <<>> /\ Len(lsdb[r].tx) < LsTxCap
    /\ Becomes(r, [lsdb[r] EXCEPT !.tx = Append(@, Head(lsdb[r].todo)), !.todo = Tail(@)])
    /\ UNCHANGED <<lsNet, lsPast, lsTicks, lsEvents>>

Transmit(r) ==
    LET s == lsdb[r]
        m == Head(s.tx)
        t == [s EXCEPT !.tx = Tail(@)]
        f == processFloodMsg(r, s, m)
    IN /\ s.ok /\ s.aging = {} /\ s.tx # <<>>
       /\ IF m.op = "age"
          THEN Becomes(r, [t EXCEPT !.aging = s.aged]) /\ UNCHANGED lsNet
          ELSE Becomes(r, [t EXCEPT !.ok = ~f.panic]) /\ Deliver(r, f.pkts)
       /\ UNCHANGED <<lsPast, lsTicks, lsEvents>>

\* constructAndSendLsaAgeFlood: the database thread must take a
\* confirmation for each LSA before the packet goes out.
processMaxAgeLsaMsg(r) ==
    LET s == lsdb[r] IN
    /\ Idle(s) /\ s.aging # {}
    /\ \E p \in s.aging :
         /\ Becomes(r, [s EXCEPT !.aging = @ \ {p}, !.aged = @ \ {p},
                                  !.flush = IF s.aging = {p} THEN {} ELSE @ \cup {p}])
         /\ IF s.aging = {p} THEN Deliver(r, s.flush \cup {p}) ELSE UNCHANGED lsNet
    /\ UNCHANGED <<lsPast, lsTicks, lsEvents>>

Refresh(r) ==
    /\ Idle(lsdb[r]) /\ lsdb[r].since = LsRefresh
    /\ Becomes(r, lsdbSelfLsaRefresh(r, lsdb[r]))
    /\ UNCHANGED <<lsNet, lsPast, lsTicks, lsEvents>>

\* A second, or many, pass in both routers.
processLSDatabaseTicker ==
    /\ lsTicks < MaxLsTicks
    /\ \A r \in LsRouters : /\ Quiet(lsdb[r]) /\ lsNet[r] = EmptyBag
                            /\ lsdb[r].ok => lsdb[r].since < LsRefresh
    /\ lsTicks' = lsTicks + 1
    /\ lsdb' = [r \in LsRouters |-> IF lsdb[r].ok THEN processMaxAgeLSA(lsdb[r]) ELSE lsdb[r]]
    /\ lsPast' = IF \E r \in LsRouters : lsdb[r].ok /\ Expired(lsdb[r]) # {}
                 THEN lsPast \cup {"aged"} ELSE lsPast
    /\ UNCHANGED <<lsNet, lsEvents>>

\* Updates are neither retransmitted nor missed.
LoseLsa(r) ==
    /\ Happens
    /\ \E p \in BagToSet(lsNet[r]) : lsNet' = [lsNet EXCEPT ![r] = @ (-) SetToBag({p})]
    /\ lsPast' = lsPast \cup {"lost"}
    /\ UNCHANGED <<lsdb, lsTicks>>

Restart(r) ==
    /\ Happens
    /\ Becomes(r, StartLSDatabase)
    /\ lsNet' = [lsNet EXCEPT ![r] = EmptyBag]
    /\ lsPast' = lsPast \cup {"restart"}
    /\ UNCHANGED lsTicks

\* The routers have become full neighbours; router 1 is designated.
Settled(r) ==
    [processNeighborFullEvent(r, [StartLSDatabase EXCEPT !.up = TRUE, !.dr = 1, !.nbr = TRUE])
       EXCEPT !.todo = <<>>]

LsInit ==
    /\ lsdb = [r \in LsRouters |->
                 [Settled(r) EXCEPT
                    !.db = [k \in LsKeys |-> IF k.adv = Other(r) THEN Settled(Other(r)).db[k] ELSE @[k]]]]
    /\ lsNet = [r \in LsRouters |-> EmptyBag]
    /\ lsPast = {}
    /\ lsTicks = 0
    /\ lsEvents = 0

LsNext ==
    \/ processLSDatabaseTicker
    \/ \E r \in LsRouters :
         \/ InterfaceChanges(r) \/ NeighborFull(r) \/ DrChanges(r)
         \/ RouteChanges(r) \/ ExternalRoute(r) \/ ReceiveLsa(r)
         \/ PostRequest(r) \/ Transmit(r) \/ processMaxAgeLsaMsg(r)
         \/ Refresh(r) \/ LoseLsa(r) \/ Restart(r)

LsSpec == LsInit /\ [][LsNext]_lsVars

-----------------------------------------------------------------------------
(* Properties *)

LsaTypeOK(e) ==
    /\ e.there \in BOOLEAN /\ e.seq \in Nat /\ e.age \in 0 .. LsMaxAge
    /\ e.there = (e.body # <<>>)

\* Type invariant.
LsTypeOK ==
    /\ \A r \in LsRouters :
         LET s == lsdb[r] IN
         /\ \A k \in LsKeys : LsaTypeOK(s.db[k]) /\ s.self[k] \in {"no", "yes", "off"}
         /\ s.up \in BOOLEAN /\ s.nbr \in BOOLEAN /\ s.dr \in 0 .. 2
         /\ s.since \in 0 .. LsRefresh /\ s.ok \in BOOLEAN /\ Len(s.tx) <= LsTxCap
         /\ s.aging \subseteq s.aged
         /\ \A ps \in BagToSet(lsNet[r]) : \A p \in ps : p.key \in LsKeys /\ LsaTypeOK(p.lsa)
    /\ lsPast \subseteq {"down", "resigned", "flushed", "withdrawn", "wide", "reordered",
                         "lost", "two DRs", "aged", "restart"}

\* A router LSA is regenerated in time: as long as no packet is lost and
\* nobody goes down, neither the router's own copy nor a full neighbour's
\* ever gets older than the refresh interval.
RouterLsaKeptAlive ==
    lsPast \cap {"lost", "down", "restart", "reordered"} = {} =>
        \A r \in LsRouters :
            LET k == K("router", r)
                o == lsdb[Other(r)]
            IN lsdb[r].ok /\ lsdb[r].self[k] = "yes" =>
                 /\ lsdb[r].db[k].there
                 /\ lsdb[r].db[k].age <= LsRefresh
                 /\ lsdb[r].nbr /\ o.ok /\ o.db[k].there => o.db[k].age <= LsRefresh

\* When the network is quiet a router's neighbour holds what the router
\* advertises, provided nothing was lost, reordered, withdrawn or aged out,
\* nobody restarted and both agree on the designated router: the requests that
\* were merged or overtaken left no older copy.
NeighborIsCurrent ==
    /\ lsPast = {}
    /\ \A r \in LsRouters : lsdb[r].ok /\ lsdb[r].nbr /\ Quiet(lsdb[r]) /\ lsNet[r] = EmptyBag
    => \A r \in LsRouters, k \in LsKeys :
         LET mine == lsdb[r].db[k]
             its == lsdb[Other(r)].db[k]
         IN k.adv = r /\ lsdb[r].self[k] = "yes" /\ mine.there => its.body = mine.body

\* A copy is never newer than its original, unless the original was
\* forgotten: only then does the sequence start again.
SequenceNeverOvertaken ==
    lsPast \cap {"down", "flushed", "restart", "aged"} = {} =>
        \A r \in LsRouters, k \in LsKeys :
            k.adv = r => /\ lsdb[Other(r)].db[k].seq <= lsdb[r].db[k].seq
                         /\ \A ps \in BagToSet(lsNet[Other(r)]) : \A p \in ps :
                              p.key = k => p.lsa.seq <= lsdb[r].db[k].seq

\* The router does not panic, and its two threads do not wait for each
\* other, before an LSA of its own has been flushed or one has aged out.
LsdbThreadsLive ==
    lsPast \cap {"flushed", "aged"} = {} =>
        \A r \in LsRouters :
            /\ lsdb[r].ok
            /\ ~(lsdb[r].todo # <<>> /\ lsdb[r].aging # {} /\ Len(lsdb[r].tx) = LsTxCap)
=============================================================================
