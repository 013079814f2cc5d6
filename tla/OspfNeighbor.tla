---------------------------- MODULE OspfNeighbor ----------------------------
(***************************************************************************)
(* Two OSPF neighbours on one link and their database exchange             *)
(* (src/ospf/server/ospfNeighbor.go, ospfNeighborStruct.go, ospfDD.go,     *)
(* ospfLSAPkt.go).  Both ends run this code.                               *)
(*                                                                         *)
(* Each router has a neighbour thread (hellos, database descriptions,      *)
(* interface events), a thread that reads requests and updates, the        *)
(* UpdateNeighborConf thread that alone stores a neighbour's new state,    *)
(* the dead timer's callback and the threads that flood.  The channel to   *)
(* UpdateNeighborConf is unbuffered: `upd' is the message it has taken and *)
(* not yet applied, and until then every thread reads the old entry;       *)
(* `nbrMsg' and `rxMsg' are the messages with which the first two threads  *)
(* wait meanwhile.  A received packet has a goroutine of its own, so       *)
(* packets are handled in any order.  Acknowledgements are left out: they  *)
(* are sent for every LSA, read, and nothing is done with them.            *)
(***************************************************************************)
EXTENDS Integers, FiniteSets, Bags

CONSTANTS
    OnbrLsas,      \* [router -> set of [adv, typ]] the databases at the start
    OnbrDR,        \* the router that is the designated router of the link
    OnbrABRs,      \* routers that are area border routers
    OnbrASBRs,     \* routers whose AreaBdrRtrStatus is set
    OnbrSeqs,      \* sequence numbers the clock may yield
    OnbrWrap,      \* list lengths are converted to uint8: 256 in the code
    MaxOnbrSeq,    \* bound on sequence numbers
    MaxOnbrNet,    \* bound on packets on their way
    MaxOnbrEvents  \* bound on hellos, timeouts, losses and link events

VARIABLES
    onbr,          \* [router -> everything the router knows of the other one]
    onbrNet,       \* [router -> bag of packets on their way to it]
    onbrPast,      \* what has disturbed the exchange so far
    onbrEvents     \* events so far

onbrVars == <<onbr, onbrNet, onbrPast, onbrEvents>>

Routers == {1, 2}
Peer(r) == 3 - r

Down == 1
Init2 == 3
TwoWay == 4
ExchangeStart == 5
Exchange == 6
Loading == 7
Full == 8

NoDbd == [i |-> FALSE, m |-> FALSE, ms |-> FALSE, seq |-> 0, hdrs |-> {}]
NoUpd == [kind |-> "none", st |-> 0, seq |-> -1, slave |-> {}, ev |-> "none"]
NoList == [all |-> {}, open |-> {}]

-----------------------------------------------------------------------------
(* The state of one router *)

\* `slave' is the code's isMaster: the neighbour is the master.
NewRouter(r) ==
    [there |-> FALSE, st |-> 0, seq |-> 0, slave |-> FALSE, ev |-> "none",
     mutex |-> FALSE, timer |-> FALSE, stray |-> FALSE, dying |-> FALSE,
     sum |-> NoList, req |-> NoList, last |-> NoDbd, mdata |-> "none",
     nbrMsg |-> NoUpd, rxMsg |-> NoUpd, upd |-> NoUpd, flood |-> {},
     lsdb |-> OnbrLsas[r], ok |-> TRUE, out |-> {}]

InitNeighborStateMachine ==
    /\ onbr = [r \in Routers |-> NewRouter(r)]
    /\ onbrNet = [r \in Routers |-> EmptyBag]
    /\ onbrPast = {}
    /\ onbrEvents = 0

\* updateLSALists
updateLSALists(o) == [o EXCEPT !.req = NoList, !.sum = NoList]

\* initNeighborMdata: the interface's list starts again, empty.
initNeighborMdata(o) == [o EXCEPT !.mdata = "empty"]

updateNeighborMdata(o) == [o EXCEPT !.mdata = "listed"]

\* resetNeighborLists
resetNeighborLists(o) ==
    [updateLSALists(o) EXCEPT !.mdata = IF @ = "none" THEN @ ELSE "empty"]

\* The neighbour thread, or the one that reads requests and updates, has a
\* message for UpdateNeighborConf, and waits with it if that thread is busy.
Tell(o, m) == IF o.upd = NoUpd THEN [o EXCEPT !.upd = m] ELSE [o EXCEPT !.nbrMsg = m]
RxTell(o, m) == IF o.upd = NoUpd THEN [o EXCEPT !.upd = m] ELSE [o EXCEPT !.rxMsg = m]

Crash(o) == [o EXCEPT !.ok = FALSE]

-----------------------------------------------------------------------------
(* Packets: what BuildDBDPkt, EncodeLSAReqPkt and BuildLsaUpdPkt write and  *)
(* the decoders at the other end read back                                 *)

DbdPkt(d) == [t |-> "dbd", d |-> d, keys |-> {}]
LsaReqPkt(keys) == [t |-> "req", d |-> NoDbd, keys |-> keys]
LsaUpdPkt(k) == [t |-> "upd", d |-> NoDbd, keys |-> {k}]

\* What a step sends, no packet twice.  A slave's last description also makes
\* the thread that sends it ask for a flood.
Send(o, ps) == [o EXCEPT !.out = @ \cup ps]
SendDbd(o, d) ==
    [Send(o, {DbdPkt(d)}) EXCEPT !.flood = IF d.i \/ d.m THEN @ ELSE @ \cup {"slave"}]

\* The entries of a list that a loop up to uint8(len(list)) visits.
Visited(all) ==
    CHOOSE s \in SUBSET all : Cardinality(s) = Cardinality(all) % OnbrWrap

\* decoders: a description with the I bit carries no headers.
DecodeDatabaseDescriptionData(d) == [d EXCEPT !.hdrs = IF d.i THEN {} ELSE @]

\* ConstructAndSendDbdPacket: the result carries the router and the data sent.
\* All headers go into one packet and last_exchange is always true.
ConstructAndSendDbdPacket(o, i, m, ms, seq, attach) ==
    IF ~o.there THEN [o |-> o, d |-> NoDbd]
    ELSE IF attach /\ ~o.mutex THEN [o |-> Crash(o), d |-> NoDbd]
    ELSE LET seen == Visited(o.sum.all)
             d == [i |-> i, m |-> m /\ ~(attach /\ seen = o.sum.all), ms |-> ms,
                   seq |-> seq, hdrs |-> IF attach THEN seen \cap o.sum.open ELSE {}]
             s == IF attach THEN [o EXCEPT !.sum.open = @ \ seen] ELSE o
         IN [o |-> SendDbd(s, d), d |-> d]

\* BuildAndSendLSAReq: every request of the list is sent, whether or not it
\* was sent before, and none is open afterwards.
BuildAndSendLSAReq(o) ==
    LET seen == Visited(o.req.all) IN
    IF seen = {} THEN o
    ELSE IF ~o.mutex THEN Crash(o)
    ELSE Send([o EXCEPT !.req.open = @ \ seen], {LsaReqPkt(seen)})

-----------------------------------------------------------------------------
(* The two lists *)

\* generateDbasExternalList
describesExternal(r, k) == k.typ = "ext" => r \in OnbrASBRs

\* generateDbsummary3LsaList, generateDbsummary4LsaList
describesSummary(r, k) == k.typ = "sum" /\ k.adv = r => r \in OnbrABRs

generateDbSummaryList(o, r) ==
    LET l == {k \in o.lsdb : describesExternal(r, k) /\ describesSummary(r, k)} IN
    IF ~o.there THEN o
    ELSE IF ~o.mutex THEN Crash(o)
    ELSE [o EXCEPT !.sum = [all |-> l, open |-> l]]

selfGenLsaCheck(r, k) == k.adv = r

\* sanityCheckNetworkLsa: the designated router refuses its neighbour's
\* network LSA.  validateLsaIsNew accepts everything else.
sanityCheckNetworkLsa(r, k) == k.typ = "net" /\ r = OnbrDR /\ k.adv = Peer(r)

lsaAddCheck(r, k) == ~selfGenLsaCheck(r, k) /\ ~sanityCheckNetworkLsa(r, k)

generateRequestList(o, r, d) ==
    LET new == {k \in d.hdrs : lsaAddCheck(r, k)} IN
    IF new # {} /\ ~o.mutex THEN Crash(o)
    ELSE [o EXCEPT !.req = [all |-> @.all \cup new, open |-> @.open \cup new]]

-----------------------------------------------------------------------------
(* Database descriptions *)

exchangePacketDiscardCheck(o, d) ==
    \/ d.ms # o.slave
    \/ d.i
    \/ d.seq # o.seq /\ ~(o.slave /\ d.seq + 1 = o.seq)

verifyDuplicatePacket(o, d) == o.slave /\ d.seq + 1 = o.seq

\* processNeighborExstart: is the negotiation over with this packet?
NegotiationDone(o, r, d) ==
    \/ Peer(r) > r /\ d.ms
    \/ Peer(r) < r /\ ~d.i /\ ~d.ms /\ d.seq = o.seq

processNeighborExstart(o, r, d) ==
    LET slave == Peer(r) > r
        done == NegotiationDone(o, r, d)
        g == IF done THEN generateDbSummaryList(o, r) ELSE o
        c == CASE done /\ ~slave -> ConstructAndSendDbdPacket(g, FALSE, TRUE, TRUE, d.seq + 1, TRUE)
               [] done /\ slave -> ConstructAndSendDbdPacket(g, FALSE, TRUE, FALSE, d.seq, TRUE)
               [] OTHER -> ConstructAndSendDbdPacket(g, TRUE, TRUE, TRUE, d.seq, FALSE)
        sent == [c.d EXCEPT !.seq = IF slave THEN @ + 1 ELSE @]
        q == IF done THEN generateRequestList(c.o, r, d) ELSE c.o
    IN Tell([q EXCEPT !.last = sent],
            [kind |-> "upd", st |-> IF done THEN Exchange ELSE ExchangeStart,
             seq |-> sent.seq, slave |-> {slave},
             ev |-> IF done THEN "done" ELSE o.ev])

\* Fault: the slave asks for the missing LSAs without having listed them.
RequestsNothing(o, r, d) ==
    LET c == ConstructAndSendDbdPacket(o, FALSE, d.m, FALSE, d.seq, TRUE) IN
    [o |-> [c.o EXCEPT !.last = c.d], seq |-> c.d.seq + 1]

\* processDBDEvent, state Exchange, the neighbour is master
SlaveExchange(o, r, d) ==
    IF d.seq = o.seq
    THEN LET c == ConstructAndSendDbdPacket(generateRequestList(o, r, d),
                                            FALSE, d.m, FALSE, d.seq, TRUE)
         IN [o |-> [c.o EXCEPT !.last = c.d], seq |-> c.d.seq + 1]
    ELSE [o |-> SendDbd(o, o.last), seq |-> o.last.seq]

\* processDBDEvent, state Exchange, this router is master: nothing is sent to
\* a last description, and the sequence number is then cleared.
MasterExchange(o, r, d) ==
    LET c == IF o.ev # "done" \/ d.m
             THEN ConstructAndSendDbdPacket(o, FALSE, FALSE, TRUE, d.seq + 1, TRUE)
             ELSE [o |-> o, d |-> NoDbd]
        s == IF o.ev # "done" \/ d.m THEN [c.o EXCEPT !.last = c.d] ELSE c.o
    IN [o |-> generateRequestList(s, r, d), seq |-> c.d.seq]

\* The LSDB thread is asked to originate and flood again.
CreateNetworkLSA(o) == [o EXCEPT !.flood = @ \cup {"any"}]

ExchangeEvent(o, r, d) ==
    LET x == IF o.slave THEN SlaveExchange(o, r, d) ELSE MasterExchange(o, r, d)
        f == IF o.slave THEN x.o ELSE CreateNetworkLSA(updateNeighborMdata(x.o))
        q == IF d.m THEN f ELSE updateNeighborMdata(BuildAndSendLSAReq(f))
    IN Tell(q, [kind |-> "upd", st |-> Loading, seq |-> x.seq, slave |-> {},
                ev |-> IF o.slave /\ ~d.m THEN "done" ELSE o.ev])

\* processDBDEvent, states Loading and Full
LoadedEvent(o, r, d) ==
    LET dup == verifyDuplicatePacket(o, d)
        again == ConstructAndSendDbdPacket(o, TRUE, TRUE, TRUE, o.seq + 1, FALSE)
        answer == IF o.slave /\ ~dup
                  THEN ConstructAndSendDbdPacket(o, FALSE, d.m, FALSE, d.seq, FALSE).o
                  ELSE o
        asked == BuildAndSendLSAReq(answer)
        told == IF dup THEN CreateNetworkLSA(updateNeighborMdata(asked)) ELSE asked
    IN updateNeighborMdata(
         IF exchangePacketDiscardCheck(o, d)
         THEN Tell(again.o, [kind |-> "upd", st |-> ExchangeStart, seq |-> again.d.seq,
                             slave |-> {}, ev |-> "none"])
         ELSE Tell(told, [kind |-> "upd", st |-> Full, seq |-> o.last.seq,
                          slave |-> {}, ev |-> "none"]))

processDBDEvent(o, r, d) ==
    CASE ~o.there -> o
      [] o.there /\ o.st \in {Init2, ExchangeStart} -> processNeighborExstart(o, r, d)
      [] o.there /\ o.st = Exchange /\ exchangePacketDiscardCheck(o, d) ->
            processNeighborExstart(o, r, d)
      [] o.there /\ o.st = Exchange /\ ~exchangePacketDiscardCheck(o, d) ->
            ExchangeEvent(o, r, d)
      [] o.there /\ o.st \in {Loading, Full} -> LoadedEvent(o, r, d)
      [] OTHER -> o

-----------------------------------------------------------------------------
(* Requests and updates *)

\* DecodeLSAReq, generateLsaUpdUnicast: one update for each LSA found.
DecodeLSAReq(o, keys) ==
    Send(o, {LsaUpdPkt(k) : k \in keys \cap o.lsdb})

\* CheckNeighborFullEvent, called by UpdateNeighborList
CheckNeighborFullEvent(o) ==
    IF o.st = Full \/ o.req.open # {} THEN o
    ELSE RxTell(o, [kind |-> "upd", st |-> Full, seq |-> -1, slave |-> {}, ev |-> o.ev])

\* DecodeLSAUpd, for an update of one LSA.
DecodeLSAUpd(o, r, k) ==
    CheckNeighborFullEvent([o EXCEPT !.lsdb = IF lsaAddCheck(r, k) THEN @ \cup {k} ELSE @])

\* ProcessRxNbrPkt
ProcessRxNbrPkt(o, r, p) ==
    CASE ~(o.there /\ o.st >= Exchange) -> o
      [] o.there /\ o.st >= Exchange /\ p.t = "req" -> DecodeLSAReq(o, p.keys)
      [] OTHER -> DecodeLSAUpd(o, r, CHOOSE k \in p.keys : TRUE)

-----------------------------------------------------------------------------
(* UpdateNeighborConf *)

\* NBRDEL: the entry goes and its timer, if it runs, stays.
NbrDel(o) ==
    [o EXCEPT !.there = FALSE, !.st = 0, !.seq = 0, !.slave = FALSE, !.ev = "none",
              !.mutex = FALSE, !.timer = FALSE, !.stray = @ \/ o.timer]

\* NBRADD: a new entry, and a first description once there is two-way traffic.
\* `now' is what the clock says.
NbrAdd(o, now) ==
    LET m == o.upd
        two == m.st >= TwoWay
        n == [updateLSALists(o) EXCEPT
                !.there = TRUE, !.st = IF two THEN ExchangeStart ELSE m.st,
                !.seq = IF two THEN now ELSE 0, !.slave = FALSE,
                !.ev = IF two THEN "2way" ELSE m.ev, !.mutex = TRUE, !.timer = TRUE]
    IN IF two THEN ConstructAndSendDbdPacket(n, TRUE, TRUE, TRUE, now, FALSE).o ELSE n

\* Fault: an update that says nothing of the role makes this router the master.
ForgetsRole(o) ==
    LET m == o.upd
        n == [o EXCEPT !.there = TRUE, !.st = IF m.st = 0 THEN @ ELSE m.st,
                       !.seq = IF m.seq = -1 THEN @ ELSE m.seq,
                       !.slave = TRUE \in m.slave, !.ev = m.ev]
    IN IF o.mutex THEN [n EXCEPT !.timer = TRUE] ELSE Crash(n)

\* NBRUPD: an entry that is gone is made again, without a timer to reset.
NbrUpd(o) ==
    LET m == o.upd
        n == [o EXCEPT !.there = TRUE,
                       !.st = IF m.st = 0 THEN @ ELSE m.st,
                       !.seq = IF m.seq = -1 THEN @ ELSE m.seq,
                       !.slave = IF m.slave = {} THEN @ ELSE TRUE \in m.slave,
                       !.ev = m.ev]
    IN IF o.mutex THEN [n EXCEPT !.timer = TRUE] ELSE Crash(n)

UpdateNeighborConf(o, now) ==
    [(CASE o.upd.kind = "del" -> NbrDel(o)
        [] o.upd.kind = "add" -> NbrAdd(o, now)
        [] OTHER -> NbrUpd(o)) EXCEPT !.upd = NoUpd]

-----------------------------------------------------------------------------
(* Hellos *)

\* ProcessNbrStateMachine, a hello of an unknown neighbour: a stub entry is
\* stored at once, UpdateNeighborConf completes it.
HelloNew(o, two) ==
    LET st == IF two THEN ExchangeStart ELSE Init2 IN
    Tell(initNeighborMdata([o EXCEPT !.there = TRUE, !.st = st, !.seq = 0,
                                     !.slave = FALSE, !.ev = "none", !.mutex = FALSE]),
         [kind |-> "add", st |-> st, seq |-> -1, slave |-> {}, ev |-> "none"])

\* ProcessNbrStateMachine, a hello of a known one.
HelloKnown(o, two, now) ==
    LET start == two /\ o.st = TwoWay
        st == IF ~two THEN Init2
              ELSE IF o.st = TwoWay THEN ExchangeStart
              ELSE IF o.st < TwoWay THEN TwoWay ELSE 0
        seq == IF start /\ o.seq = 0 THEN now ELSE o.seq
        t == Tell(o, [kind |-> "upd", st |-> st, seq |-> IF start /\ o.seq = 0 THEN seq ELSE -1,
                      slave |-> {}, ev |-> o.ev])
    IN IF start THEN ConstructAndSendDbdPacket(t, TRUE, TRUE, TRUE, seq, FALSE).o ELSE t

-----------------------------------------------------------------------------
(* Steps *)

\* Router r becomes o, and what o has sent is on its way.
Becomes(r, o, taken) ==
    /\ \A p \in o.out : p.d.seq <= MaxOnbrSeq
    /\ onbr' = [onbr EXCEPT ![r] = [o EXCEPT !.out = {}]]
    /\ onbrNet' = [onbrNet EXCEPT ![r] = @ (-) SetToBag(taken),
                                  ![Peer(r)] = @ (+) SetToBag(o.out)]
    /\ BagCardinality(onbrNet'[r]) + BagCardinality(onbrNet'[Peer(r)]) <= MaxOnbrNet

Happens(what) ==
    /\ onbrEvents < MaxOnbrEvents
    /\ onbrEvents' = onbrEvents + 1
    /\ onbrPast' = onbrPast \cup what

\* The interface machine passes on a hello.  It lists this router when the
\* sender knows it.
HelloEvent(r) ==
    /\ onbr[r].ok /\ onbr[r].nbrMsg = NoUpd
    /\ Happens({})
    /\ \E now \in OnbrSeqs :
          Becomes(r, IF onbr[r].there THEN HelloKnown(onbr[r], onbr[Peer(r)].there, now)
                     ELSE HelloNew(onbr[r], onbr[Peer(r)].there), {})

\* The neighbour thread handles a description, perhaps before its last message
\* has been applied.
DbdEvent(r) ==
    /\ onbr[r].ok /\ onbr[r].nbrMsg = NoUpd
    /\ \E p \in BagToSet(onbrNet[r]) :
          LET o == processDBDEvent(onbr[r], r, DecodeDatabaseDescriptionData(p.d)) IN
          /\ p.t = "dbd"
          /\ Becomes(r, o, {p})
          /\ onbrPast' = IF o.ok THEN onbrPast ELSE onbrPast \cup {"early"}
    /\ UNCHANGED onbrEvents

\* The thread that reads requests and updates
LsaEvent(r) ==
    /\ onbr[r].ok /\ onbr[r].rxMsg = NoUpd
    /\ \E p \in BagToSet(onbrNet[r]) :
          LET o == ProcessRxNbrPkt(onbr[r], r, p) IN
          /\ p.t # "dbd"
          /\ Becomes(r, o, {p})
          /\ onbrPast' = onbrPast
                \cup (IF onbr[r].st < Exchange THEN {"ignored"} ELSE {})
                \cup (IF <<o.rxMsg, o.upd>> # <<onbr[r].rxMsg, onbr[r].upd>> /\ onbr[r].st = Exchange
                      THEN {"overtaken"} ELSE {})
    /\ UNCHANGED onbrEvents

\* The LSDB thread has originated what is the router's own, and the transmitting
\* thread floods it.  SendSelfOrigLSA leaves external LSAs out, and network LSAs
\* elsewhere than at the designated router.  Its one packet is one for each LSA
\* here, each of which may be lost or overtaken.
SelfOrig(o, r) == {k \in o.lsdb : k.adv = r /\ k.typ # "ext" /\ (k.typ = "net" => r = OnbrDR)}

\* interfaceFloodCheck wants the neighbour listed and exchanging.
interfaceFloodCheck(o) == o.mdata = "listed" /\ o.st >= Exchange

FloodEvent(r) ==
    /\ onbr[r].ok
    /\ \E w \in onbr[r].flood :
          LET o == [onbr[r] EXCEPT !.flood = @ \ {w}] IN
          Becomes(r, IF interfaceFloodCheck(o) /\ (w = "slave" => o.slave)
                     THEN Send(o, {LsaUpdPkt(k) : k \in SelfOrig(o, r)}) ELSE o, {})
    /\ UNCHANGED <<onbrPast, onbrEvents>>

\* UpdateNeighborConf takes the message of a thread that waits, if there is one.
TakesNext(o) ==
    IF o.nbrMsg = NoUpd /\ o.rxMsg = NoUpd THEN {o}
    ELSE {n \in {[o EXCEPT !.upd = o.nbrMsg, !.nbrMsg = NoUpd], [o EXCEPT !.upd = o.rxMsg, !.rxMsg = NoUpd]} :
            n.upd # NoUpd}

\* It applies the message it holds.
ConfEvent(r) ==
    /\ onbr[r].ok
    /\ onbr[r].upd # NoUpd
    /\ \E now \in OnbrSeqs : \E n \in TakesNext(UpdateNeighborConf(onbr[r], now)) : Becomes(r, n, {})
    /\ UNCHANGED <<onbrPast, onbrEvents>>

\* neighborDeadTimerEvent: the callback of this entry's timer or of a deleted
\* one's.  processNeighborDeadEvent clears the lists before the entry is gone.
DeadTimer(r) ==
    /\ onbr[r].ok
    /\ ~onbr[r].dying
    /\ Happens({"deleted"})
    /\ \E t \in {[onbr[r] EXCEPT !.timer = FALSE], [onbr[r] EXCEPT !.stray = FALSE]} :
         /\ t # onbr[r]
         /\ Becomes(r, IF t.there THEN [resetNeighborLists(t) EXCEPT !.dying = TRUE] ELSE t, {})

DeadDeletes(r) ==
    /\ onbr[r].ok /\ onbr[r].upd = NoUpd
    /\ onbr[r].dying
    /\ Becomes(r, [onbr[r] EXCEPT !.upd = [NoUpd EXCEPT !.kind = "del"], !.dying = FALSE], {})
    /\ UNCHANGED <<onbrPast, onbrEvents>>

\* processIntfDownEvent: only neighbours in the interface's list are deleted.
IntfDownEvent(r) ==
    /\ onbr[r].ok /\ onbr[r].nbrMsg = NoUpd
    /\ onbr[r].mdata # "none"
    /\ Happens({"deleted"})
    /\ LET o == [onbr[r] EXCEPT !.mdata = "none"] IN
       Becomes(r, IF onbr[r].mdata = "listed"
                  THEN Tell(updateLSALists(o), [NoUpd EXCEPT !.kind = "del"]) ELSE o, {})

\* The link loses a packet.  Nothing is ever sent again by itself.
Lose(r) ==
    /\ Happens({"lost"})
    /\ \E p \in BagToSet(onbrNet[r]) : onbrNet' = [onbrNet EXCEPT ![r] = @ (-) SetToBag({p})]
    /\ UNCHANGED onbr

OnbrInit == InitNeighborStateMachine

OnbrNext ==
    \E r \in Routers :
        \/ HelloEvent(r) \/ DbdEvent(r) \/ LsaEvent(r) \/ FloodEvent(r)
        \/ ConfEvent(r) \/ DeadTimer(r) \/ DeadDeletes(r) \/ IntfDownEvent(r) \/ Lose(r)

OnbrSpec == OnbrInit /\ [][OnbrNext]_onbrVars

-----------------------------------------------------------------------------
OnbrKeys == UNION {OnbrLsas[r] : r \in Routers}

\* What the theorem about neighbours supposes of the constants.
OnbrConstants ==
    /\ \A r \in Routers : IsFiniteSet(OnbrLsas[r])
    /\ OnbrSeqs \subseteq Nat /\ OnbrWrap \in Nat \ {0} /\ MaxOnbrEvents \in Nat

\* The neighbour records keep their shape: states, roles, lists of known LSAs.
OnbrTypeOK ==
    /\ onbrEvents \in 0..MaxOnbrEvents
    /\ onbrPast \subseteq {"early", "ignored", "overtaken", "deleted", "lost"}
    /\ \A r \in Routers :
          LET o == onbr[r] IN
          /\ o.st \in 0..Full /\ o.seq \in Nat
          /\ {o.there, o.slave, o.mutex, o.timer, o.stray, o.dying, o.ok} \subseteq BOOLEAN
          /\ o.ev \in {"none", "2way", "done"}
          /\ o.mdata \in {"none", "empty", "listed"}
          /\ o.sum.open \subseteq o.sum.all /\ o.req.open \subseteq o.req.all
          /\ o.req.all \cup o.sum.all \cup o.lsdb \subseteq OnbrKeys
          /\ {o.nbrMsg.kind, o.rxMsg.kind, o.upd.kind} \subseteq {"none", "upd", "add", "del"}
          /\ o.flood \subseteq {"any", "slave"} /\ o.out = {}

\* Once the exchange has begun the two ends agree who is the master: the one
\* with the higher router id.  No message that waits for UpdateNeighborConf
\* gives a new entry a state without its role, unless a neighbour was deleted:
\* then an update of the old entry may be applied to the new one.
RolesAgree ==
    "deleted" \notin onbrPast =>
        \A r \in Routers :
            onbr[r].ok /\ onbr[r].there /\ onbr[r].st >= Exchange => onbr[r].slave = (Peer(r) > r)

\* LSA k of r's neighbour is at r, is refused by r, or is on its way.
Arrives(r, k) ==
    \/ k \in onbr[r].lsdb
    \/ ~lsaAddCheck(r, k)
    \/ \E p \in BagToSet(onbrNet[r]) : p.t = "upd" /\ k \in p.keys
    \/ \E p \in BagToSet(onbrNet[Peer(r)]) : p.t = "req" /\ k \in p.keys

\* A neighbour that is Full has given everything it describes, or it is on
\* its way, if no packet was lost or ignored by an end that was not yet
\* exchanging, no neighbour deleted and no update overtook the descriptions.
FullMissesNothing ==
    onbrPast = {} =>
        \A r \in Routers :
            onbr[r].there /\ onbr[r].st = Full =>
                \A k \in OnbrLsas[Peer(r)] :
                    describesExternal(Peer(r), k) /\ describesSummary(Peer(r), k)
                        => Arrives(r, k)

\* The neighbour threads stop only when a neighbour was deleted under an
\* update, or a description met an entry that was not complete.
NeighborThreadsLive ==
    (\E r \in Routers : ~onbr[r].ok) => onbrPast \cap {"deleted", "early"} # {}

\* A complete entry has its dead timer running, or is being deleted.
EntryHasTimer ==
    \A r \in Routers :
        onbr[r].ok /\ onbr[r].there /\ onbr[r].mutex =>
            onbr[r].timer \/ onbr[r].dying \/ onbr[r].upd.kind = "del"

\* Neighbours: the two ends agree on their roles, the threads live and every
\* entry has its timer (ospfNeighbor.go, ospfNeighborStruct.go), with the
\* exceptions each part names.
NeighborsSafe == OnbrTypeOK /\ RolesAgree /\ NeighborThreadsLive /\ EntryHasTimer
============================================================================
